------------------------ MODULE OtaDownload_proofs -------------------------
(***************************************************************************)
(* What the download promises for images, windows and blocks of any size,  *)
(* any number of attempts and whatever fails or is lost.                   *)
(***************************************************************************)
EXTENDS OtaDownload, Integers, SequenceTheorems, TLAPS

\* A block under way has something left to read.
BlockOpen == pc = "block" => remaining \in 1 .. blk

\* What the block under way will add to wgot.
Current == IF pc = "block" THEN blk ELSE 0

InWindow == pc \in {"header", "block", "drain"}

\* The headers read, on their way and yet to come announce no more than the window has.
Announced ==
  InWindow =>
    /\ wgot + Current + source.left <= len
    /\ \A i \in DOMAIN stream :
         stream[i].kind = "header" => wgot + Current + source.left + stream[i].n <= len

\* There is never more than one header on its way.
OneHeader ==
  \A i, j \in DOMAIN stream : stream[i].kind = "header" /\ stream[j].kind = "header" => i = j

\* The size that was probed fits the partition, and a window is asked for only before its end.
Fits ==
  /\ pc = "request" \/ InWindow => offset < total
  /\ pc \in {"window", "request"} \/ InWindow => total <= Partition

\* An image is chosen until the chip restarts, and on trial until app_main confirms it, or to the
\* next boot when that failed; until then nothing is written.
ChosenAt ==
  /\ boot = "spare" <=> pc = "restart"
  /\ boot = "trial" => pc = "boot" \/ (trouble /\ ~Writing)

IInv == TypeOK /\ FlashFollowsOffset /\ BlockOpen /\ Announced /\ OneHeader /\ Fits /\ ChosenAt

USE OtaDownloadAssumption

-----------------------------------------------------------------------------
(* Tokens and sequences of them.                                           *)

\* What the modem sends are tokens.
LEMMA TokensAre ==
  /\ \A n \in Nat : Header(n) \in Token
  /\ \A v \in Nat, n \in Nat : Byte(v, n) \in Token
  /\ Eol \in Token /\ OK \in Token /\ Error \in Token
  BY DEF Header, Byte, Eol, OK, Error, Token

\* A version is a number, and its size one too.
LEMMA VersionsAre ==
  1 \in Versions /\ Versions \subseteq Nat /\ \A v \in Versions : Size[v] \in Nat
  BY DEF Versions

\* A stretch of an image is a sequence of bytes, with no header among them.
LEMMA BytesAre ==
  ASSUME NEW v \in Versions, NEW from \in Nat, from > 0, NEW n \in Nat
  PROVE  /\ Bytes(v, from, n) \in Seq(Token)
         /\ Len(Bytes(v, from, n)) = n
         /\ \A i \in DOMAIN Bytes(v, from, n) : Bytes(v, from, n)[i].kind = "byte"
  <1> DEFINE s == [i \in 1 .. n |-> Byte(v, from + i - 1)]
  <1>1. \A i \in 1 .. n : from + i - 1 \in Nat
    OBVIOUS
  <1>2. \A i \in 1 .. n : Byte(v, from + i - 1) \in Token
    BY <1>1, VersionsAre, TokensAre
  <1>3. s \in Seq(Token)
    <2> HIDE DEF s
    <2>1. s = [i \in 1 .. n |-> Byte(v, from + i - 1)] BY DEF s
    <2>2. \A i \in 1 .. n : s[i] \in Token BY <2>1, <1>2
    <2>3. s \in [1 .. n -> Token] BY <2>1, <2>2
    <2> QED BY <2>3
  <1>4. Len(s) = n /\ DOMAIN s = 1 .. n
    OBVIOUS
  <1>5. \A i \in 1 .. n : s[i].kind = "byte"
    BY DEF Byte
  <1> QED BY <1>3, <1>4, <1>5 DEF Bytes

\* The count of a token is a number.
LEMMA ElementsAre ==
  ASSUME NEW s \in Seq(Token) PROVE \A i \in DOMAIN s : s[i] \in Token /\ s[i].n \in Nat
  <1>1. \A i \in 1 .. Len(s) : s[i] \in Token
    BY ElementOfSeq
  <1>2. DOMAIN s = 1 .. Len(s)
    BY LenProperties
  <1> QED BY <1>1, <1>2 DEF Token

\* What is left of a stream when its head has gone.
LEMMA TailOf ==
  ASSUME NEW s \in Seq(Token), s # <<>>
  PROVE  /\ Tail(s) \in Seq(Token)
         /\ Head(s) \in Token /\ Head(s) = s[1] /\ 1 \in DOMAIN s
         /\ \A i \in DOMAIN Tail(s) : i + 1 \in DOMAIN s /\ Tail(s)[i] = s[i + 1]
         /\ Len(Tail(s)) = Len(s) - 1
  BY HeadTailProperties


-----------------------------------------------------------------------------
(* The inductive invariant.                                                *)

LEMMA InitHolds == Init => IInv
<1> SUFFICES ASSUME Init PROVE IInv
  OBVIOUS
<1>1. <<>> \in Seq(Token) /\ Len(<<>>) = 0 /\ DOMAIN <<>> = {}
  OBVIOUS
<1>2. Silent \in [v : Versions, next : Nat \ {0}, left : Nat, sending : BOOLEAN]
  BY VersionsAre DEF Silent
<1>3. TypeOK
  <2>1. Attempts \in Nat /\ 1 <= Attempts /\ MaxLost \in Nat
    OBVIOUS
  <2>2. attempt \in 1 .. Attempts /\ lost \in 0 .. MaxLost
    BY <2>1 DEF Init
  <2>3. source \in [v : Versions, next : Nat \ {0}, left : Nat, sending : BOOLEAN] /\ image \in Versions
    BY <1>2, VersionsAre DEF Init
  <2>4. running \in Seq(Token) /\ flash \in Seq(Token) /\ stream \in Seq(Token)
    BY <1>1, TokensAre DEF Init, Factory
  <2> QED
    BY <2>2, <2>3, <2>4 DEF Init, TypeOK
<1> QED
  BY <1>1, <1>3 DEF Init, IInv, FlashFollowsOffset, BlockOpen, Announced, OneHeader,
     Fits, ChosenAt, InWindow

\* An attempt is counted up to kOtaMaxAttempts.
LEMMA NextAttempt ==
  ASSUME attempt \in 1 .. Attempts PROVE Smaller(attempt + 1, Attempts) \in 1 .. Attempts
  BY DEF Smaller

LEMMA CountsAre ==
  ASSUME TypeOK
  PROVE  /\ total \in Nat /\ offset \in Nat /\ len \in Nat /\ wgot \in Nat /\ blk \in Nat
         /\ source.left \in Nat /\ Current \in Nat
  BY DEF TypeOK, Current

\* The modem may announce what it has yet to send, and no more.
LEMMA SendingKeeps ==
  ASSUME TypeOK, Announced, UNCHANGED <<pc, total, offset, window>>,
         source'.left \in Nat, NEW n \in Nat, source'.left + n <= source.left,
         \A i \in DOMAIN stream' : stream'[i].kind = "header" => stream'[i].n = n
  PROVE  Announced'
<1>1. /\ total' = total /\ offset' = offset /\ len' = len /\ wgot' = wgot /\ Current' = Current
      /\ InWindow' = InWindow
  BY DEF window, InWindow, Current
<1>2. InWindow => wgot + Current + source.left <= len
  BY DEF Announced
<1>3. InWindow => /\ wgot + Current + source'.left <= len
                  /\ wgot + Current + source'.left + n <= len
  <2>1. \A w, c, l, a, b \in Nat : b + n <= a /\ w + c + a <= l => w + c + b <= l /\ w + c + b + n <= l
    OBVIOUS
  <2>2. wgot \in Nat /\ Current \in Nat /\ len \in Nat /\ source.left \in Nat
    BY CountsAre
  <2> HIDE DEF Current
  <2> QED BY <1>2, <2>1, <2>2
<1> QED BY <1>1, <1>2, <1>3 DEF Announced

\* Reading a token leaves a stream with no more headers than before.
LEMMA TailKeeps ==
  ASSUME stream \in Seq(Token), stream # <<>>, stream' = Tail(stream), OneHeader
  PROVE  /\ stream' \in Seq(Token) /\ OneHeader'
         /\ Announced /\ UNCHANGED <<pc, total, offset, len, wgot, blk, source>> => Announced'
<1>1. /\ stream' \in Seq(Token)
      /\ \A i \in DOMAIN stream' : i + 1 \in DOMAIN stream /\ stream'[i] = stream[i + 1] /\ i \in Nat
  <2>1. DOMAIN stream' \subseteq Nat
    BY TailOf, LenProperties
  <2> QED BY <2>1, TailOf
<1>2. OneHeader'
  BY <1>1 DEF OneHeader
<1>3. Announced /\ UNCHANGED <<pc, total, offset, len, wgot, blk, source>> => Announced'
  BY <1>1 DEF Announced, InWindow, Current
<1> QED BY <1>1, <1>2, <1>3

\* Every step notes trouble or leaves the note as it is.
LEMMA TroubleType ==
  ASSUME trouble \in BOOLEAN, [Next]_vars
  PROVE  trouble' \in BOOLEAN
<1>1. CASE Driver
  BY <1>1 DEF Driver, StartSession, Reopen, Probe, TermSafe, OpenWindow, RequestWindow,
              SkipToHeader, ReadHeader, WriteByte, Read, ReadFails, Drain, WindowEnds, Finish,
              Cleanup, CheckVersion, MarkValid, Restart, Boot, Note
<1>2. CASE ModemSends \/ ModemFails \/ Lose \/ NewImage \/ NextCycle \/ Reset \/ UNCHANGED vars
  BY <1>2 DEF ModemSends, ModemFails, Lose, NewImage, NextCycle, Reset, Boot, vars
<1> QED
  BY <1>1, <1>2 DEF Next

\* Only Finish chooses an image, only a boot leaves where it was chosen.
LEMMA ChosenKeeps ==
  ASSUME TypeOK, ChosenAt, [Next]_vars PROVE ChosenAt'
<1> USE DEF Writing, Note
<1>0. trouble \in BOOLEAN /\ boot \in {"running", "spare", "trial"}
  BY DEF TypeOK
<1>1. CASE StartSession \/ Probe \/ CheckVersion
  BY <1>0, <1>1 DEF StartSession, Probe, MayBegin, TermSafe, CheckVersion, Reopen, slots, ChosenAt
<1>2. CASE OpenWindow \/ RequestWindow \/ SkipToHeader \/ ReadHeader \/ WriteByte \/ ReadFails
           \/ Drain \/ WindowEnds
  <2>1. Writing /\ boot = "running" /\ boot' = boot /\ pc' # "restart"
    BY <1>0, <1>2 DEF OpenWindow, RequestWindow, SkipToHeader, Reopen, ReadHeader, WriteByte, AfterBlock,
       ReadFails, Drain, WindowEnds, slots, ChosenAt
  <2> QED
    BY <2>1 DEF ChosenAt
<1>3. CASE Finish
  BY <1>0, <1>3 DEF Finish, ChosenAt
<1>4. CASE Cleanup
  BY <1>0, <1>4 DEF Cleanup, TermSafe, slots, ChosenAt
<1>6. CASE MarkValid
  BY <1>0, <1>6 DEF MarkValid, ChosenAt
<1>7. CASE Restart \/ NextCycle \/ Reset
  BY <1>0, <1>7 DEF Restart, NextCycle, Reset, Boot, slots, ChosenAt
<1>5. CASE ModemSends \/ ModemFails \/ Lose \/ NewImage \/ UNCHANGED vars
  BY <1>5 DEF ModemSends, ModemFails, Lose, NewImage, vars, slots, ChosenAt
<1> QED
  BY <1>1, <1>2, <1>3, <1>4, <1>5, <1>6, <1>7 DEF Next, Driver

LEMMA StepHolds == IInv /\ [Next]_vars => IInv'
<1> SUFFICES ASSUME IInv, [Next]_vars PROVE IInv'
  OBVIOUS
<1> USE DEF IInv, slots
<1>0. /\ 1 \in Versions /\ Versions \subseteq Nat /\ \A v \in Versions : Size[v] \in Nat
      /\ <<>> \in Seq(Token) /\ Len(<<>>) = 0 /\ DOMAIN <<>> = {}
      /\ Silent \in [v : Versions, next : Nat \ {0}, left : Nat, sending : BOOLEAN]
      /\ Silent.left = 0 /\ ~Silent.sending
      /\ \A a, b \in Nat : Smaller(a, b) \in Nat /\ Smaller(a, b) <= a /\ Smaller(a, b) <= b
  BY VersionsAre DEF Silent, Smaller
<1>t. trouble' \in BOOLEAN
  BY TroubleType DEF TypeOK
<1>c. ChosenAt'
  BY ChosenKeeps
<1> USE <1>t, <1>c
<1>1. CASE StartSession
  <2>1. TypeOK'
    BY <1>1 DEF StartSession, Reopen, window, TypeOK
  <2>2. pc' \in {"probe", "cleanup"} /\ UNCHANGED <<flash, stream>>
    BY <1>1 DEF StartSession, Reopen
  <2> QED
    BY <2>1, <2>2 DEF FlashFollowsOffset, BlockOpen, Announced, InWindow, OneHeader, Fits
<1>2. CASE Probe
  <2>1. TypeOK'
    BY <1>0, <1>2 DEF Probe, TermSafe, window, TypeOK
  <2>2. /\ pc' \in {"window", "cleanup"}
        /\ pc' = "window" => total' <= Partition
        /\ pc' = "window" => flash' = <<>>
        /\ offset' = 0 /\ stream' = stream
    BY <1>2 DEF Probe, MayBegin
  <2>3. OneHeader'
    BY <2>2 DEF OneHeader
  <2>4. FlashFollowsOffset'
    BY <1>0, <2>2 DEF FlashFollowsOffset
  <2>5. BlockOpen' /\ Announced'
    BY <2>2 DEF BlockOpen, Announced, InWindow
  <2>6. total' \in Nat
    BY <2>1 DEF TypeOK
  <2>7. Fits'
    BY <2>2, <2>6 DEF Fits, InWindow
  <2> QED
    BY <2>1, <2>3, <2>4, <2>5, <2>7
<1>3. CASE OpenWindow
  <2>1. TypeOK'
    BY <1>0, <1>3 DEF OpenWindow, Reopen, window, TypeOK
  <2>2. /\ pc' \in {"request", "cleanup"} /\ UNCHANGED <<total, offset, flash>>
        /\ pc = "window" /\ stream' = <<>> /\ offset < total
    BY <1>3 DEF OpenWindow, Reopen
  <2>3. OneHeader'
    BY <1>0, <2>2 DEF OneHeader
  <2>4. FlashFollowsOffset' /\ BlockOpen' /\ Announced' /\ Fits'
    BY <2>1, <2>2 DEF TypeOK, FlashFollowsOffset, BlockOpen, Announced, InWindow, Fits
  <2> QED
    BY <2>1, <2>3, <2>4
<1>4. CASE RequestWindow
  <2>1. PICK a \in RangeAnswers(Smaller(total - offset, Window)) :
          /\ pc' = IF Usable(a) THEN "header" ELSE "cleanup"
          /\ len' = a.n
          /\ source' = [v |-> image, next |-> a.from, left |-> a.n, sending |-> Usable(a)]
    BY <1>4 DEF RequestWindow
  <2>2. total - offset \in Nat
    BY <1>4 DEF RequestWindow, TypeOK, Fits
  <2>3. a.n \in Nat /\ a.from \in Nat \ {0}
    <3> DEFINE win == Smaller(total - offset, Window)
    <3>1. win \in Nat
      BY <1>0, <2>2
    <3>2. Size[image] \in Nat /\ offset \in Nat
      BY <1>0 DEF TypeOK
    <3> HIDE DEF win
    <3>3. Rest \in Nat /\ There(win) \in Nat
      BY <3>1, <3>2 DEF There, Rest, Smaller
    <3>4. a \in RangeAnswers(win)
      BY DEF win
    <3>5. \/ \E n \in Nat : a = RangeAnswer(206, n, offset + 1)
          \/ a = RangeAnswer(500, 0, 1)
          \/ a = RangeAnswer(200, Size[image], 1)
      <4>1. (IF ShortWindows THEN 1 ELSE There(win)) .. (IF LongWindows THEN Rest ELSE There(win))
              \subseteq Nat
        BY <3>3
      <4>2. \/ a \in {RangeAnswer(206, n, offset + 1) :
                         n \in (IF ShortWindows THEN 1 ELSE There(win))
                               .. (IF LongWindows THEN Rest ELSE There(win))}
            \/ a = RangeAnswer(500, 0, 1)
            \/ a = RangeAnswer(200, Size[image], 1)
        BY <3>4 DEF RangeAnswers
      <4>3. CASE a \in {RangeAnswer(206, n, offset + 1) :
                          n \in (IF ShortWindows THEN 1 ELSE There(win))
                                .. (IF LongWindows THEN Rest ELSE There(win))}
        <5>1. PICK n \in (IF ShortWindows THEN 1 ELSE There(win))
                         .. (IF LongWindows THEN Rest ELSE There(win)) : a = RangeAnswer(206, n, offset + 1)
          BY <4>3
        <5> QED BY <4>1, <5>1
      <4> QED BY <4>2, <4>3
    <3> QED BY <3>2, <3>5 DEF RangeAnswer
  <2>4. /\ wgot' = 0 /\ blk' = 0 /\ remaining' = 0 /\ stream' = <<>> /\ pc = "request"
        /\ UNCHANGED <<attempt, total, offset, inited, slots, open, image, lost>>
        /\ clock' \in Nat
    BY <1>4 DEF RequestWindow, Waits, TypeOK
  <2>5. TypeOK'
    BY <1>0, <2>1, <2>3, <2>4 DEF TypeOK, Usable
  <2>6. OneHeader' /\ BlockOpen'
    BY <1>0, <2>1, <2>4 DEF OneHeader, BlockOpen
  <2>7. FlashFollowsOffset'
    BY <2>1, <2>4 DEF FlashFollowsOffset, TypeOK
  <2>8. /\ pc' \in {"header", "cleanup"} /\ DOMAIN stream' = {}
        /\ offset < total /\ total <= Partition
    <3>1. DOMAIN stream' = {}
      BY <1>0, <2>4
    <3>2. offset < total /\ total <= Partition
      BY <2>4 DEF Fits
    <3> QED BY <2>1, <3>1, <3>2
  <2>9. source'.left = len' /\ len' = a.n /\ a.n \in Nat
    BY <2>1, <2>3
  <2>10. Announced'
    BY <2>4, <2>8, <2>9 DEF Announced, InWindow, Current
  <2>11. Fits'
    BY <2>4, <2>8 DEF Fits, InWindow
  <2> QED
    BY <2>5, <2>6, <2>7, <2>10, <2>11
<1>5. CASE SkipToHeader \/ Drain
  <2>1. /\ stream' = Tail(stream) /\ stream # <<>>
        /\ pc \in {"header", "drain"}
        /\ UNCHANGED <<pc, attempt, total, offset, window, inited, clock, slots, open, source,
                       image, lost>>
    BY <1>5 DEF SkipToHeader, Drain
  <2>2. TypeOK' /\ OneHeader'
    BY <2>1, TailKeeps DEF TypeOK, window
  <2>3. FlashFollowsOffset' /\ BlockOpen' /\ Fits'
    BY <2>1 DEF window, FlashFollowsOffset, BlockOpen, Fits, InWindow
  <2>4. Announced'
    BY <2>1, TailKeeps DEF window, TypeOK
  <2> QED
    BY <2>2, <2>3, <2>4
<1>6. CASE ReadHeader
  <2> DEFINE n == stream[1].n
  <2>1. /\ stream' = Tail(stream) /\ stream # <<>> /\ pc = "header"
        /\ stream[1].kind = "header" /\ n \in Nat /\ 1 \in DOMAIN stream
        /\ blk' = n /\ remaining' = n
        /\ pc' = IF n > 0 THEN "block" ELSE "cleanup"
        /\ clock' \in Nat
        /\ UNCHANGED <<attempt, total, offset, len, wgot, inited, slots, open, source, image, lost>>
    <3>1. pc = "header" /\ stream # <<>> /\ Head(stream).kind = "header"
      BY <1>6 DEF ReadHeader
    <3>2. Head(stream) = stream[1] /\ stream[1] \in Token /\ 1 \in DOMAIN stream
      BY <3>1, TailOf DEF TypeOK
    <3>3. n \in Nat
      BY <3>2 DEF Token
    <3>4. clock' \in Nat
      BY <1>6 DEF ReadHeader, Read, Waits, TypeOK
    <3> QED BY <1>6, <3>1, <3>2, <3>3, <3>4 DEF ReadHeader
  <2>2. stream' \in Seq(Token) /\ OneHeader'
    BY <2>1, TailKeeps DEF TypeOK
  <2> HIDE DEF n
  <2>3. TypeOK'
    BY <2>1, <2>2 DEF TypeOK
  <2>4. FlashFollowsOffset' /\ BlockOpen' /\ Fits'
    BY <2>1 DEF FlashFollowsOffset, BlockOpen, Fits, InWindow, TypeOK
  <2>5. \A i \in DOMAIN stream' : stream'[i].kind # "header"
    <3>1. \A i \in DOMAIN stream' : i + 1 \in DOMAIN stream /\ stream'[i] = stream[i + 1] /\ i + 1 # 1
      BY <2>1, <2>2, TailOf DEF TypeOK
    <3> QED BY <2>1, <3>1 DEF OneHeader
  <2>6. wgot + source.left + n <= len
    <3>1. wgot + 0 + source.left + stream[1].n <= len
      BY <2>1 DEF Announced, InWindow, Current
    <3> QED BY <2>1, <3>1 DEF TypeOK, n
  <2>7. Announced'
    <3>1. source.left \in Nat /\ wgot \in Nat /\ n \in Nat /\ len \in Nat
      BY <2>1 DEF TypeOK
    <3>2. wgot + n + source.left <= len
      BY <2>6, <3>1
    <3> QED BY <2>1, <2>5, <2>6, <3>2 DEF Announced, InWindow, Current
  <2> QED
    BY <2>2, <2>3, <2>4, <2>7
<1>7. CASE WriteByte
  <2>1. /\ pc = "block" /\ stream # <<>> /\ stream' = Tail(stream)
        /\ flash' = Append(flash, Head(stream)) /\ remaining' = remaining - 1
        /\ IF remaining = 1 THEN wgot' = wgot + blk /\ pc' = AfterBlock ELSE UNCHANGED <<wgot, pc>>
        /\ UNCHANGED <<attempt, total, offset, len, blk, inited, running, boot, open, source, image, lost>>
    BY <1>7 DEF WriteByte
  <2>2. clock' \in Nat
    BY <1>7 DEF WriteByte, Read, Waits, TypeOK
  <2>3. stream' \in Seq(Token) /\ OneHeader'
    BY <2>1, TailKeeps DEF TypeOK
  <2>4. flash' \in Seq(Token) /\ Len(flash') = Len(flash) + 1
    BY <2>1, TailOf, AppendProperties DEF TypeOK
  <2>5. remaining \in 1 .. blk /\ remaining' \in Nat /\ blk \in Nat
    BY <2>1 DEF BlockOpen, TypeOK
  <2>6. wgot' \in Nat /\ pc' \in {"block", "header", "drain"}
    BY <2>1, <2>5 DEF TypeOK, AfterBlock
  <2>7. TypeOK'
    BY <2>1, <2>2, <2>3, <2>4, <2>5, <2>6 DEF TypeOK
  <2>8. Len(flash) = offset + wgot + (blk - remaining) /\ offset \in Nat /\ wgot \in Nat
    BY <2>1 DEF FlashFollowsOffset, TypeOK
  <2>9. CASE remaining = 1
    <3>1. pc' \in {"header", "drain"} /\ wgot' = wgot + blk
      BY <2>1, <2>9 DEF AfterBlock
    <3>2. FlashFollowsOffset'
      BY <2>1, <2>4, <2>5, <2>8, <2>9, <3>1 DEF FlashFollowsOffset
    <3>3. BlockOpen' /\ Fits'
      BY <2>1, <3>1 DEF BlockOpen, Fits, InWindow
    <3>4. \A i \in DOMAIN stream' : stream'[i].kind = "header" =>
            wgot + blk + source.left + stream'[i].n <= len
      <4>1. \A i \in DOMAIN stream' : i + 1 \in DOMAIN stream /\ stream'[i] = stream[i + 1]
        BY <2>1, TailOf DEF TypeOK
      <4> QED BY <2>1, <4>1 DEF Announced, InWindow, Current
    <3>5. wgot + blk + source.left <= len
      BY <2>1 DEF Announced, InWindow, Current
    <3>6. \A x \in Nat : wgot' + 0 + source.left + x = wgot + blk + source.left + x
      BY <3>1 DEF TypeOK
    <3>7. \A i \in DOMAIN stream' : stream'[i].n \in Nat
      BY <2>3, ElementsAre
    <3>8. Current' = 0 /\ wgot' + Current' + source'.left <= len'
      <4>1. Current' = 0
        BY <3>1 DEF Current
      <4>2. wgot' = wgot + blk /\ source'.left = source.left /\ len' = len
        BY <2>1, <3>1
      <4>3. wgot \in Nat /\ blk \in Nat /\ source.left \in Nat /\ len \in Nat
        BY CountsAre
      <4> QED
        BY <3>5, <4>1, <4>2, <4>3
    <3>9. \A i \in DOMAIN stream' : stream'[i].kind = "header" =>
            wgot' + Current' + source'.left + stream'[i].n <= len'
      BY <2>1, <3>4, <3>6, <3>7, <3>8
    <3>10. Announced'
      BY <2>1, <3>5, <3>8, <3>9 DEF Announced
    <3> QED
      BY <2>3, <2>7, <3>2, <3>3, <3>10
  <2>10. CASE remaining # 1
    <3>1. pc' = "block" /\ wgot' = wgot
      BY <2>1, <2>10
    <3>2. FlashFollowsOffset'
      BY <2>1, <2>4, <2>5, <2>8, <3>1 DEF FlashFollowsOffset
    <3>3. BlockOpen' /\ Fits'
      BY <2>1, <2>5, <2>10, <3>1 DEF BlockOpen, Fits, InWindow
    <3>4. Announced'
      BY <2>1, <3>1, TailKeeps DEF TypeOK
    <3> QED
      BY <2>3, <2>7, <3>2, <3>3, <3>4
  <2> QED
    BY <2>9, <2>10
<1>8. CASE ReadFails
  <2>1. /\ pc' = "cleanup"
        /\ UNCHANGED <<attempt, total, offset, window, inited, clock, slots, modem, image, lost>>
    BY <1>8 DEF ReadFails
  <2> QED
    BY <2>1 DEF modem, window, TypeOK, FlashFollowsOffset, BlockOpen, Announced, InWindow, OneHeader, Fits
<1>10. CASE WindowEnds
  <2>1. /\ pc = "drain" /\ pc' = "window" /\ offset' = offset + wgot
        /\ UNCHANGED <<attempt, total, window, inited, clock, slots, modem, image, lost>>
    BY <1>10 DEF WindowEnds, NextOffset
  <2> QED
    BY <2>1 DEF modem, window, TypeOK, FlashFollowsOffset, BlockOpen, Announced, InWindow, Current, OneHeader, Fits
<1>11. CASE Finish
  <2>1. TypeOK'
    BY <1>0, <1>11, NextAttempt DEF Finish, TermSafe, window, TypeOK
  <2>2. pc' \in {"start", "restart", "gaveUp"} /\ UNCHANGED <<flash, stream>>
    BY <1>11 DEF Finish
  <2> QED
    BY <2>1, <2>2 DEF FlashFollowsOffset, BlockOpen, Announced, InWindow, OneHeader, Fits
<1>12. CASE Cleanup
  <2>1. TypeOK'
    BY <1>0, <1>12, NextAttempt DEF Cleanup, TermSafe, window, TypeOK
  <2>2. pc' \in {"start", "gaveUp"} /\ UNCHANGED flash /\ stream' = <<>>
    BY <1>12 DEF Cleanup
  <2> QED
    BY <1>0, <2>1, <2>2 DEF FlashFollowsOffset, BlockOpen, Announced, InWindow, OneHeader, Fits
<1>13. CASE ModemSends
  <2>1. /\ stream = <<>>
        /\ UNCHANGED <<pc, attempt, total, offset, window, inited, clock, slots, open, image, lost>>
    BY <1>13 DEF ModemSends
  <2>2. FlashFollowsOffset' /\ BlockOpen' /\ Fits'
    BY <2>1 DEF window, FlashFollowsOffset, BlockOpen, Fits, InWindow
  <2>3. CASE source.left = 0 /\ stream' = <<Eol, Header(0), OK>> /\ source' = Silent
    <3>1. stream' \in Seq(Token) /\ DOMAIN stream' = 1 .. 3
      BY <2>3, TokensAre
    <3>2. \A i \in DOMAIN stream' : stream'[i].kind = "header" => i = 2 /\ stream'[i].n = 0
      BY <2>3, <3>1 DEF Eol, Header, OK
    <3>3. TypeOK'
      BY <1>0, <2>1, <2>3, <3>1 DEF TypeOK, window
    <3>4. OneHeader'
      BY <3>2 DEF OneHeader
    <3>5. source'.left \in Nat /\ source'.left + 0 <= source.left
      BY <1>0, <2>3
    <3>6. Announced'
      BY <2>1, <3>2, <3>5, SendingKeeps
    <3> QED
      BY <2>2, <3>3, <3>4, <3>6
  <2>4. ASSUME NEW n \in 1 .. Smaller(Block, source.left),
               stream' = <<Eol, Header(n)>> \o Bytes(source.v, source.next, n),
               source' = [source EXCEPT !.next = @ + n, !.left = @ - n]
        PROVE  IInv'
    <3> DEFINE head == <<Eol, Header(n)>>  body == Bytes(source.v, source.next, n)
    <3>0. /\ source \in [v : Versions, next : Nat \ {0}, left : Nat, sending : BOOLEAN]
          /\ source.v \in Versions /\ source.next \in Nat /\ source.next > 0
          /\ source.left \in Nat
      BY DEF TypeOK
    <3>1. n \in Nat /\ n <= source.left
      <4>1. Smaller(Block, source.left) \in Nat /\ Smaller(Block, source.left) <= source.left
        BY <1>0, <3>0
      <4>2. \A k, m \in Nat : k <= m => \A x \in 1 .. k : x \in Nat /\ x <= m
        OBVIOUS
      <4> QED BY <3>0, <4>1, <4>2
    <3>2. body \in Seq(Token) /\ Len(body) = n /\ \A i \in 1 .. n : body[i].kind = "byte"
      <4>1. body \in Seq(Token) /\ Len(body) = n /\ \A i \in DOMAIN body : body[i].kind = "byte"
        <5>1. \A v \in Versions, from, k \in Nat :
                from > 0 => /\ Bytes(v, from, k) \in Seq(Token)
                            /\ Len(Bytes(v, from, k)) = k
                            /\ \A i \in DOMAIN Bytes(v, from, k) : Bytes(v, from, k)[i].kind = "byte"
          BY BytesAre
        <5>2. PICK v \in Versions, from \in Nat : v = source.v /\ from = source.next /\ from > 0
          BY <3>0
        <5>3. body = Bytes(v, from, n)
          BY <5>2
        <5> HIDE DEF body
        <5>0. v \in Versions /\ from \in Nat /\ from > 0 /\ n \in Nat
          BY <3>1, <5>2
        <5>4. /\ Bytes(v, from, n) \in Seq(Token) /\ Len(Bytes(v, from, n)) = n
              /\ \A i \in DOMAIN Bytes(v, from, n) : Bytes(v, from, n)[i].kind = "byte"
          BY <5>0, <5>1, Zenon
        <5> QED BY <5>3, <5>4
      <4> QED BY <4>1, LenProperties
    <3>3. head \in Seq(Token) /\ Len(head) = 2 /\ head[1].kind = "eol" /\ head[2] = Header(n)
      BY <3>1, TokensAre DEF Eol
    <3> HIDE DEF head, body
    <3>4. /\ stream' \in Seq(Token) /\ DOMAIN stream' = 1 .. 2 + n
          /\ \A i \in 1 .. 2 + n : stream'[i] = IF i <= 2 THEN head[i] ELSE body[i - 2]
      <4>1. stream' = head \o body
        BY <2>4 DEF head, body
      <4>2. Len(head) + Len(body) = 2 + n
        BY <3>2, <3>3
      <4>3. /\ head \o body \in Seq(Token) /\ Len(head \o body) = 2 + n
            /\ \A i \in 1 .. 2 + n : (head \o body)[i] = IF i <= 2 THEN head[i] ELSE body[i - 2]
        <5>1. /\ head \o body \in Seq(Token) /\ Len(head \o body) = Len(head) + Len(body)
              /\ \A i \in 1 .. Len(head) + Len(body) :
                   (head \o body)[i] = IF i <= Len(head) THEN head[i] ELSE body[i - Len(head)]
          BY <3>2, <3>3, ConcatProperties
        <5> QED BY <3>3, <4>2, <5>1
      <4> QED BY <4>1, <4>3, LenProperties
    <3>5. \A i \in DOMAIN stream' : stream'[i].kind = "header" => i = 2 /\ stream'[i].n = n
      <4> SUFFICES ASSUME NEW i \in 1 .. 2 + n, stream'[i].kind = "header"
                   PROVE  i = 2 /\ stream'[i].n = n
        BY <3>4
      <4>1. i <= 2
        <5> SUFFICES ASSUME ~(i <= 2) PROVE FALSE
          OBVIOUS
        <5>1. stream'[i] = body[i - 2] /\ i - 2 \in 1 .. n
          BY <3>1, <3>4
        <5> QED BY <3>2, <5>1
      <4>2. i = 1 \/ i = 2
        BY <3>1, <4>1
      <4> QED BY <3>3, <3>4, <4>1, <4>2 DEF Header
    <3>6. /\ source'.left = source.left - n
          /\ source' \in [v : Versions, next : Nat \ {0}, left : Nat, sending : BOOLEAN]
      <4>1. source.next + n \in Nat \ {0} /\ source.left - n \in Nat
        BY <3>0, <3>1
      <4> QED BY <2>4, <3>0, <4>1
    <3>7. TypeOK'
      BY <2>1, <3>4, <3>6 DEF TypeOK, window
    <3>8. OneHeader'
      BY <3>5 DEF OneHeader
    <3>9. Announced'
      <4>1. source'.left \in Nat /\ source'.left + n <= source.left
        BY <3>0, <3>1, <3>6
      <4> QED BY <2>1, <3>1, <3>5, <4>1, SendingKeeps
    <3> QED
      BY <2>2, <3>7, <3>8, <3>9
  <2> QED
    BY <1>13, <2>3, <2>4 DEF ModemSends
<1>14. CASE ModemFails
  <2>1. /\ stream' \in {<<>>, <<Error>>} /\ source' = Silent
        /\ UNCHANGED <<pc, attempt, total, offset, window, inited, clock, slots, open, image, lost>>
    BY <1>14 DEF ModemFails
  <2>2. stream' \in Seq(Token) /\ \A i \in DOMAIN stream' : stream'[i].kind # "header"
    <3>1. CASE stream' = <<>>
      BY <1>0, <3>1
    <3>2. CASE stream' = <<Error>>
      <4>1. <<Error>> \in Seq(Token) /\ DOMAIN <<Error>> = 1 .. 1
        BY TokensAre
      <4> QED BY <3>2, <4>1 DEF Error
    <3> QED BY <2>1, <3>1, <3>2
  <2>3. TypeOK'
    BY <1>0, <2>1, <2>2 DEF TypeOK, window
  <2>4. FlashFollowsOffset' /\ BlockOpen' /\ Fits' /\ OneHeader'
    BY <2>1, <2>2 DEF window, FlashFollowsOffset, BlockOpen, Fits, InWindow, OneHeader
  <2>5. source'.left \in Nat /\ source'.left + 0 <= source.left
    <3>1. source.left \in Nat /\ \A k \in Nat : 0 + 0 <= k
      BY CountsAre
    <3>2. source'.left = 0
      BY <1>0, <2>1
    <3> QED BY <3>1, <3>2
  <2>6. Announced'
    BY <2>1, <2>2, <2>5, SendingKeeps
  <2> QED
    BY <2>3, <2>4, <2>6
<1>15. CASE Lose
  <2>1. /\ stream' = Tail(stream) /\ stream # <<>> /\ lost < MaxLost /\ lost' = lost + 1
        /\ UNCHANGED <<pc, attempt, total, offset, window, inited, clock, slots, open, source, image>>
    BY <1>15 DEF Lose
  <2>2. stream' \in Seq(Token) /\ OneHeader' /\ Announced'
    BY <2>1, TailKeeps DEF TypeOK, window
  <2>3. lost' \in 0 .. MaxLost
    BY <2>1 DEF TypeOK
  <2>4. TypeOK'
    BY <2>1, <2>2, <2>3 DEF TypeOK, window
  <2>5. FlashFollowsOffset' /\ BlockOpen' /\ Fits'
    BY <2>1 DEF window, FlashFollowsOffset, BlockOpen, Fits, InWindow
  <2> QED
    BY <2>2, <2>4, <2>5
<1>16. CASE NewImage
  BY <1>16, VersionsAre
  DEF NewImage, modem, window, TypeOK, FlashFollowsOffset, BlockOpen, Announced, InWindow, Current,
      OneHeader, Fits
<1>17. CASE UNCHANGED vars
  BY <1>17
  DEF vars, modem, window, TypeOK, FlashFollowsOffset, BlockOpen, Announced, InWindow, Current,
      OneHeader, Fits
<1>18. CASE CheckVersion \/ MarkValid
  BY <1>18
  DEF CheckVersion, MarkValid, modem, window, TypeOK, FlashFollowsOffset, BlockOpen, Announced,
      InWindow, OneHeader, Fits
<1>19. CASE Restart \/ NextCycle \/ Reset
  <2>1. Boot
    BY <1>19 DEF Restart, NextCycle, Reset
  <2>2. running' \in Seq(Token) /\ flash' \in Seq(Token) /\ boot' \in {"running", "spare", "trial"}
    BY <2>1 DEF Boot, TypeOK
  <2>3. attempt' \in 1 .. Attempts
    BY <2>1 DEF Boot
  <2>4. TypeOK'
    BY <1>0, <2>1, <2>2, <2>3 DEF Boot, TypeOK
  <2>5. FlashFollowsOffset' /\ BlockOpen' /\ Announced' /\ OneHeader' /\ Fits'
    BY <1>0, <2>1
    DEF Boot, FlashFollowsOffset, BlockOpen, Announced, InWindow, OneHeader, Fits
  <2> QED
    BY <2>4, <2>5
<1> QED
  BY <1>1, <1>2, <1>3, <1>4, <1>5, <1>6, <1>7, <1>8, <1>10, <1>11, <1>12, <1>13, <1>14, <1>15,
     <1>16, <1>17, <1>18, <1>19 DEF Next, Driver

LEMMA Invariance == Spec => []IInv
<1> QED
  BY InitHolds, StepHolds, PTL DEF Spec

-----------------------------------------------------------------------------
(* The theorems.                                                           *)

\* The state stays well formed, no count goes below zero and the attempts stay within
\* kOtaMaxAttempts, for images, windows and blocks of any size.
THEOREM TypeCorrect == Spec => []TypeOK
<1>1. IInv => TypeOK
  BY DEF IInv
<1> QED
  BY <1>1, Invariance, PTL

\* The next range always starts at the first byte that is not in flash.
THEOREM OffsetIsFetched == Spec => []FlashFollowsOffset
<1>1. IInv => FlashFollowsOffset
  BY DEF IInv
<1> QED
  BY <1>1, Invariance, PTL

-----------------------------------------------------------------------------
(* The refinement.                                                         *)

Whole == {Factory} \cup {Image(v) : v \in Versions}
Erased == IF Writing THEN total ELSE 0

\* What is erased is within the slot, and there is some of it while a block is written.
LEMMA StaysErased ==
  ASSUME IInv
  PROVE  /\ Writing => total \in 0 .. Partition
         /\ pc = "block" => 0 < total
BY DEF IInv, Writing, Fits, InWindow, TypeOK

\* The steps of FirmwareSlots, with its variables replaced.
FSStep ==
  \/ Slots!FSErase \/ Slots!FSWrite \/ Slots!FSGiveUp \/ Slots!FSChoose
  \/ Slots!FSSwap("spare", "trial") \/ Slots!FSSwap("trial", "running") \/ Slots!FSConfirm
  \/ UNCHANGED <<slots, Erased>>

\* Outside Probe, WriteByte, Finish and a boot the slots are left alone, and what may be written
\* is what it was, or nothing any more.
LEMMA Leaves ==
  ASSUME IInv, UNCHANGED slots,
         Writing => boot = "running",
         Writing' => Writing /\ total' = total
  PROVE  FSStep
<1>1. Erased' = Erased \/ (Erased' = 0 /\ Writing)
  <2>1. CASE Writing'
    BY <2>1 DEF Erased
  <2>2. CASE ~Writing'
    BY <2>2 DEF Erased
  <2> QED BY <2>1, <2>2
<1>2. CASE Erased' = Erased
  BY <1>2 DEF FSStep
<1>3. CASE Erased' = 0 /\ Writing
  <2>1. Slots!FSGiveUp
    BY <1>3 DEF Slots!FSGiveUp, slots, Erased
  <2> QED BY <2>1 DEF FSStep
<1> QED
  BY <1>1, <1>2, <1>3

\* The last byte of an image is the one that was appended to it.
LEMMA Appended ==
  ASSUME NEW s \in Seq(Token), NEW e \in Token
  PROVE  /\ Len(Append(s, e)) = Len(s) + 1
         /\ Append(s, e) = Append(s, Append(s, e)[Len(s) + 1])
  BY AppendProperties

LEMMA StepIsSlots == ASSUME IInv, [Next]_vars PROVE FSStep
<1> USE DEF IInv
<1>r. Writing => boot = "running"
  BY DEF Writing, ChosenAt, TypeOK
<1>1. CASE CheckVersion \/ StartSession \/ Cleanup \/ ReadFails
  BY <1>1, <1>r, Leaves
  DEF CheckVersion, StartSession, Reopen, Cleanup, ReadFails, slots, Writing
<1>2. CASE OpenWindow \/ RequestWindow \/ SkipToHeader \/ ReadHeader \/ Drain \/ WindowEnds
  BY <1>2, <1>r, Leaves
  DEF OpenWindow, Reopen, RequestWindow, SkipToHeader, ReadHeader, Drain, WindowEnds, slots, Writing
<1>3. CASE ModemSends \/ ModemFails \/ Lose \/ NewImage \/ UNCHANGED vars
  BY <1>3, <1>r, Leaves DEF ModemSends, ModemFails, Lose, NewImage, vars, slots, Writing
<1>4. CASE Probe
  <2>1. /\ ~Writing /\ UNCHANGED <<running, boot>>
        /\ boot = "running" \/ (pc' = "cleanup" /\ flash' = flash)
    BY <1>4 DEF Probe, MayBegin, Writing
  <2>2. total' = Size[image] /\ Size[image] \in Nat
    BY <1>4, VersionsAre DEF Probe, TypeOK
  <2>3. CASE pc' = "window"
    <3>1. flash' = <<>> /\ Size[image] <= Partition
      BY <1>4, <2>3 DEF Probe, MayBegin
    <3>2. Erased' \in 0 .. Partition
      BY <2>2, <2>3, <3>1 DEF Erased, Writing
    <3> QED BY <2>1, <2>3, <3>1, <3>2 DEF FSStep, Slots!FSErase, Erased
  <2>4. CASE pc' = "cleanup"
    <3>1. flash' \in {flash, <<>>} /\ Erased = 0 /\ Erased' = 0
      BY <1>4, <2>1, <2>4 DEF Probe, Erased, Writing
    <3>2. 0 \in 0 .. Partition
      OBVIOUS
    <3> QED BY <2>1, <3>1, <3>2 DEF FSStep, Slots!FSErase, Erased, slots
  <2> QED BY <1>4, <2>3, <2>4 DEF Probe
<1>5. CASE WriteByte
  <2>1. /\ Writing /\ Writing' /\ Erased' = Erased /\ Erased = total
        /\ flash' = Append(flash, Head(stream)) /\ UNCHANGED <<running, boot>>
    BY <1>5 DEF WriteByte, AfterBlock, Writing, Erased
  <2>2. Len(flash) < Partition /\ 0 < total
    BY <1>5, StaysErased DEF WriteByte
  <2>3. Len(flash') = Len(flash) + 1 /\ flash' = Append(flash, flash'[Len(flash')])
    BY <1>5, <2>1, TailOf, Appended DEF WriteByte, TypeOK
  <2>4. Slots!FSWrite
    BY <1>r, <2>1, <2>2, <2>3 DEF Slots!FSWrite, Erased
  <2> QED BY <2>4 DEF FSStep
<1>6. CASE Finish
  <2>1. CASE boot' = "spare"
    <3>1. Verified /\ UNCHANGED <<running, flash>> /\ pc = "window" /\ pc' = "restart"
      BY <1>6, <1>r, <2>1 DEF Finish, Writing
    <3>2. flash \in Whole /\ Erased' = 0
      BY <3>1 DEF Verified, Whole, Writing, Erased
    <3>4. Len(flash) <= Erased
      <4>1. offset = total
        BY <1>6, <1>r, <2>1, <3>1 DEF Finish, Writing
      <4>2. Len(flash) = total /\ total \in Nat /\ Erased = total
        BY <3>1, <4>1 DEF FlashFollowsOffset, TypeOK, Erased, Writing
      <4> QED
        BY <4>2
    <3>3. Slots!FSChoose
      BY <1>r, <2>1, <3>1, <3>2, <3>4 DEF Slots!FSChoose, Whole, Erased, Writing
    <3> QED BY <3>3 DEF FSStep
  <2>2. CASE boot' # "spare"
    <3>1. UNCHANGED slots /\ ~Writing'
      BY <1>6, <2>2 DEF Finish, slots, Writing
    <3> QED BY <1>r, <3>1, Leaves
  <2> QED BY <2>1, <2>2
<1>7. CASE MarkValid
  <2>1. /\ ~Writing /\ ~Writing' /\ UNCHANGED <<running, flash>>
        /\ boot' = "running" \/ boot' = boot
    BY <1>7 DEF MarkValid, Writing
  <2>2. boot \in {"running", "trial"}
    BY <1>7 DEF MarkValid, ChosenAt, TypeOK
  <2> QED BY <2>1, <2>2 DEF FSStep, Slots!FSConfirm, slots, Erased
<1>8. CASE Restart \/ NextCycle \/ Reset
  <2>1. Boot /\ ~Writing'
    BY <1>8 DEF Restart, NextCycle, Reset, Boot, Writing
  <2>2. CASE boot = "running"
    <3>1. UNCHANGED slots
      BY <2>1, <2>2 DEF Boot
    <3> QED BY <1>r, <2>1, <3>1, Leaves
  <2>3. CASE boot \in {"spare", "trial"}
    <3>1. /\ running' = flash /\ flash' = running
          /\ boot' = IF boot = "spare" THEN "trial" ELSE "running"
      BY <2>1, <2>3 DEF Boot
    <3>2. ~Writing /\ Erased' = Erased
      BY <1>r, <2>1, <2>3 DEF Erased
    <3> QED BY <2>3, <3>1, <3>2 DEF FSStep, Slots!FSSwap, Erased
  <2> QED BY <2>2, <2>3 DEF TypeOK
<1> QED
  BY <1>1, <1>2, <1>3, <1>4, <1>5, <1>6, <1>7, <1>8 DEF Next, Driver

\* The update implements FirmwareSlots, for images, slots, windows and blocks of any size, whatever
\* is lost, fails or changes on the way, and whenever the chip is reset: esp_ota_write may go past what
\* esp_ota_begin erased (a longer image has replaced the one that was probed), but only a whole image
\* within it is chosen, and there is one to go back to.
THEOREM UpdateKeepsAnImage == Spec => RefinesSlots
<1>1. Init => Slots!FSInit
  BY DEF Init, Slots!FSInit, Writing
<1>2. IInv /\ [Next]_vars => [Slots!FSNext]_(Slots!fsVars)
  <2> SUFFICES ASSUME IInv, [Next]_vars PROVE [Slots!FSNext]_(Slots!fsVars)
    OBVIOUS
  <2>1. FSStep
    BY StepIsSlots
  <2> QED
    BY <2>1 DEF FSStep, Slots!FSNext, Slots!fsVars, slots, Erased
<1> QED
  BY <1>1, <1>2, Invariance, PTL DEF Spec, RefinesSlots, Slots!FSSpec

\* What that is for: the slot the chip runs from, and the one it may go back to or boot next,
\* always hold a whole image.
AlwaysAnImage == running \in Whole /\ (boot # "running" => flash \in Whole)

\* No reset, loss or failure at any point of an update leaves the chip without an image.
THEOREM NeverBricked == Spec => []AlwaysAnImage
<1>1. Init => AlwaysAnImage
  BY DEF Init, AlwaysAnImage, Whole
<1>2. AlwaysAnImage /\ FSStep => AlwaysAnImage'
  <2> SUFFICES ASSUME AlwaysAnImage, FSStep PROVE AlwaysAnImage'
    OBVIOUS
  <2>1. CASE Slots!FSErase \/ Slots!FSWrite \/ Slots!FSGiveUp
    BY <2>1 DEF AlwaysAnImage, Slots!FSErase, Slots!FSWrite, Slots!FSGiveUp, Whole
  <2>2. CASE Slots!FSChoose
    BY <2>2 DEF AlwaysAnImage, Slots!FSChoose, Whole
  <2>3. CASE Slots!FSSwap("spare", "trial") \/ Slots!FSSwap("trial", "running") \/ Slots!FSConfirm
    BY <2>3 DEF AlwaysAnImage, Slots!FSSwap, Slots!FSConfirm, Whole
  <2>4. CASE UNCHANGED <<slots, Erased>>
    BY <2>4 DEF AlwaysAnImage, slots, Whole
  <2> QED
    BY <2>1, <2>2, <2>3, <2>4 DEF FSStep
<1>3. IInv /\ AlwaysAnImage /\ [Next]_vars => AlwaysAnImage'
  BY <1>2, StepIsSlots
<1> QED
  BY <1>1, <1>3, Invariance, PTL DEF Spec

-----------------------------------------------------------------------------
(* What is written, and what comes while nothing goes wrong.               *)

\* Nothing was lost and the server still has its first image, or nothing at all has gone wrong
\* since the boot: what comes over the UART is what was asked for.
Clean == (lost = 0 /\ image = 1) \/ ~trouble

\* What was erased and what is written are the size and the beginning of the server's image.
OwnImage ==
  Clean /\ Writing => total = Size[image] /\ \A i \in DOMAIN flash : flash[i] = Byte(image, i)

\* The windows stay within that size, however much more than it was asked for the server sends.
OwnRange == Clean /\ Writing => offset <= total /\ (InWindow => offset + len <= total)

\* Between blocks, a header on its way is followed by the bytes that flash lacks, and by nothing
\* else; then, or when nothing is on its way, the modem goes on after them.
ComesNext ==
  Clean /\ pc = "header" =>
    /\ source.sending => source.v = image
    /\ source.sending /\ stream = <<>> => source.next = Len(flash) + 1
    /\ source.sending /\ stream # <<>> => \E i \in DOMAIN stream : stream[i].kind = "header"
    /\ \A i \in DOMAIN stream : stream[i].kind = "header" =>
         /\ source.sending => source.next = Len(flash) + 1 + stream[i].n
         /\ stream[i].n > 0 => /\ Len(stream) = i + stream[i].n
                               /\ \A j \in 1 .. stream[i].n : stream[i + j] = Byte(image, Len(flash) + j)

\* Inside a block, exactly its bytes are on their way.
ComesNow ==
  Clean /\ pc = "block" =>
    /\ source.sending => source.v = image /\ source.next = Len(flash) + 1 + remaining
    /\ Len(stream) = remaining
    /\ \A j \in 1 .. remaining : stream[j] = Byte(image, Len(flash) + j)

\* Since the boot nothing went wrong: the session that is open is the driver's, no read has
\* waited, and the window's blocks make up all of it.
Smooth ==
  ~trouble =>
    /\ open => inited
    /\ Writing => clock = 0
    /\ pc \in {"cleanup", "gaveUp"} => total > Partition
    /\ pc = "request" => offset < total
    /\ pc = "header" =>
         /\ wgot < len
         /\ source.left > 0 => source.sending
         /\ stream = <<>> => source.sending /\ wgot + source.left = len
         /\ stream # <<>> => \E i \in DOMAIN stream : stream[i].kind = "header"
         /\ \A i \in DOMAIN stream :
              /\ stream[i].kind # "ERROR"
              /\ stream[i].kind = "header" => stream[i].n > 0 /\ wgot + source.left + stream[i].n = len
    /\ pc = "block" =>
         /\ wgot + blk + source.left = len
         /\ source.left > 0 => source.sending

Faithful == OwnImage /\ ComesNext /\ ComesNow /\ Smooth

\* What is clean after a step other than a boot was clean before it, and the image is the same.
LEMMA CleanBefore ==
  ASSUME TypeOK, [Next]_vars, ~Boot
  PROVE  /\ ~trouble' => ~trouble /\ image' = image
         /\ Clean' => Clean /\ image' = image
<1>0. trouble \in BOOLEAN /\ image \in Nat /\ image # 0 /\ lost \in Nat
  BY DEF TypeOK, Versions
<1>1. CASE CheckVersion \/ StartSession \/ Probe \/ OpenWindow
  BY <1>0, <1>1 DEF CheckVersion, StartSession, Reopen, Probe, TermSafe, OpenWindow, Note, Clean
<1>2. CASE RequestWindow \/ SkipToHeader \/ ReadHeader \/ WriteByte \/ ReadFails \/ Drain
  BY <1>0, <1>2 DEF RequestWindow, SkipToHeader, ReadHeader, WriteByte, Read, ReadFails, Drain, Note, Clean
<1>3. CASE WindowEnds \/ Finish \/ Cleanup \/ MarkValid
  BY <1>0, <1>3 DEF WindowEnds, Finish, Cleanup, TermSafe, MarkValid, Note, Clean
<1>4. CASE ModemSends \/ ModemFails \/ UNCHANGED vars
  BY <1>0, <1>4 DEF ModemSends, ModemFails, vars, Clean
<1>5. CASE Lose
  BY <1>0, <1>5 DEF Lose, Clean
<1>6. CASE NewImage
  BY <1>0, <1>6 DEF NewImage, Clean
<1> QED
  BY <1>1, <1>2, <1>3, <1>4, <1>5, <1>6 DEF Next, Driver, Restart, NextCycle, Reset

\* Where nothing is written, little is left to keep.
LEMMA AwayKeeps ==
  ASSUME ~Writing', ~trouble' => (open' => inited') /\ (pc' \in {"cleanup", "gaveUp"} => total' > Partition)
  PROVE  Faithful'
BY DEF Faithful, OwnImage, ComesNext, ComesNow, Smooth, Writing

\* Between windows, neither: the modem begins anew.
LEMMA BetweenKeeps ==
  ASSUME pc' \in {"window", "request", "drain"}, OwnImage',
         ~trouble' => (open' => inited') /\ clock' = 0 /\ (pc' = "request" => offset' < total')
  PROVE  Faithful'
BY DEF Faithful, ComesNext, ComesNow, Smooth

\* A session that opens without trouble is the driver's.
LEMMA ReopenKeeps ==
  ASSUME NEW to, Reopen(to), TypeOK, ~trouble', open => inited
  PROVE  pc' = to /\ open' /\ inited'
BY DEF Reopen, Note, Answers, TypeOK

\* One that closes without trouble is closed.
LEMMA TermKeeps ==
  ASSUME NEW problem \in BOOLEAN, TermSafe(problem), TypeOK, ~trouble', open => inited
  PROVE  ~problem /\ ~open' /\ ~inited'
BY DEF TermSafe, Note, Answers, TypeOK

\* The bytes of a stretch of an image.
LEMMA BytesAt ==
  ASSUME NEW v, NEW from \in Nat, NEW n \in Nat
  PROVE  /\ Len(Bytes(v, from, n)) = n /\ DOMAIN Bytes(v, from, n) = 1 .. n
         /\ \A i \in 1 .. n : Bytes(v, from, n)[i] = Byte(v, from + i - 1)
BY DEF Bytes

\* A sub-block as it is sent.
LEMMA SentIs ==
  ASSUME TypeOK, NEW n \in 1 .. Smaller(Block, source.left),
         stream' = <<Eol, Header(n)>> \o Bytes(source.v, source.next, n)
  PROVE  /\ n \in Nat /\ n > 0 /\ n <= source.left
         /\ Len(stream') = 2 + n /\ DOMAIN stream' = 1 .. 2 + n
         /\ stream'[1] = Eol /\ stream'[2] = Header(n)
         /\ \A j \in 1 .. n : stream'[2 + j] = Byte(source.v, source.next + j - 1)
<1> DEFINE head == <<Eol, Header(n)>>
           body == Bytes(source.v, source.next, n)
<1>1. /\ source.v \in Versions /\ source.next \in Nat /\ source.next > 0 /\ source.left \in Nat
  BY DEF TypeOK
<1>2. n \in Nat /\ n > 0 /\ n <= source.left
  BY <1>1 DEF Smaller
<1>3. /\ body \in Seq(Token) /\ Len(body) = n
      /\ \A i \in 1 .. n : body[i] = Byte(source.v, source.next + i - 1)
  <2>1. body \in Seq(Token)
    <3>1. \A v \in Versions, from, k \in Nat : from > 0 => Bytes(v, from, k) \in Seq(Token)
      BY BytesAre
    <3> QED
      BY <1>1, <1>2, <3>1
  <2>2. \A v, from \in Nat : /\ Len(Bytes(v, from, n)) = n
                             /\ \A i \in 1 .. n : Bytes(v, from, n)[i] = Byte(v, from + i - 1)
    BY <1>2, BytesAt
  <2> QED
    BY <1>1, <2>1, <2>2, VersionsAre
<1>4. head \in Seq(Token) /\ Len(head) = 2 /\ head[1] = Eol /\ head[2] = Header(n)
  BY <1>2, TokensAre
<1> HIDE DEF head, body
<1>5. /\ head \o body \in Seq(Token) /\ Len(head \o body) = 2 + n
      /\ \A i \in 1 .. 2 + n : (head \o body)[i] = IF i <= 2 THEN head[i] ELSE body[i - 2]
  <2>1. /\ head \o body \in Seq(Token) /\ Len(head \o body) = Len(head) + Len(body)
        /\ \A i \in 1 .. Len(head) + Len(body) :
             (head \o body)[i] = IF i <= Len(head) THEN head[i] ELSE body[i - Len(head)]
    BY <1>3, <1>4, ConcatProperties
  <2> QED
    BY <1>3, <1>4, <2>1
<1>6. stream' = head \o body
  BY DEF head, body
<1>7. Len(stream') = 2 + n /\ DOMAIN stream' = 1 .. 2 + n
  BY <1>5, <1>6, LenProperties
<1>8. stream'[1] = Eol /\ stream'[2] = Header(n)
  BY <1>2, <1>4, <1>5, <1>6
<1>9. \A j \in 1 .. n : stream'[2 + j] = body[j]
  <2> SUFFICES ASSUME NEW j \in 1 .. n PROVE stream'[2 + j] = body[j]
    OBVIOUS
  <2>1. 2 + j \in 1 .. 2 + n /\ ~(2 + j <= 2) /\ (2 + j) - 2 = j
    BY <1>2
  <2> QED
    BY <1>5, <1>6, <2>1
<1> QED
  BY <1>2, <1>3, <1>7, <1>8, <1>9

\* Opening and closing sessions, and all that is not reading a window.
LEMMA SessionsFaithful ==
  ASSUME IInv, Faithful, OwnRange, [Next]_vars,
         \/ CheckVersion \/ StartSession \/ Probe \/ OpenWindow \/ Drain \/ ReadFails \/ WindowEnds
         \/ Finish \/ Cleanup \/ MarkValid \/ Restart \/ NextCycle \/ Reset
  PROVE  Faithful'
<1> USE DEF Smooth, Writing
<1>0. /\ TypeOK /\ FlashFollowsOffset /\ BlockOpen /\ Fits /\ OwnImage /\ ComesNow /\ Smooth
      /\ trouble' \in BOOLEAN
  BY TroubleType DEF IInv, Faithful, TypeOK
<1>1. CASE Restart \/ NextCycle \/ Reset
  <2>1. pc' = "boot" /\ ~open'
    BY <1>1 DEF Restart, NextCycle, Reset, Boot
  <2> QED
    BY <2>1, AwayKeeps
<1>2. CASE ~(Restart \/ NextCycle \/ Reset)
  <2>0. /\ ~trouble' => ~trouble /\ image' = image
        /\ Clean' => Clean /\ image' = image
    <3>1. CASE pc' # "boot"
      BY <1>0, <3>1, CleanBefore DEF Boot
    <3>2. CASE pc' = "boot"
      BY <1>2, <3>2 DEF CheckVersion, StartSession, Reopen, Probe, OpenWindow, Drain, ReadFails,
         WindowEnds, Finish, Cleanup, MarkValid
    <3> QED
      BY <3>1, <3>2
  <2>1. CASE CheckVersion \/ MarkValid
    <3>1. pc' \in {"over", "start", "check"} /\ UNCHANGED <<open, inited>>
      BY <2>1 DEF CheckVersion, MarkValid, modem
    <3> QED
      BY <1>0, <2>0, <3>1, AwayKeeps
  <2>2. CASE StartSession
    <3>1. pc' \in {"probe", "cleanup"} /\ Reopen("probe")
      BY <2>2 DEF StartSession, Reopen
    <3>2. ~trouble' => pc' = "probe" /\ inited'
      BY <1>0, <2>0, <3>1, ReopenKeeps
    <3> QED
      BY <3>1, <3>2, AwayKeeps
  <2>3. CASE Probe
    <3>1. CASE pc' = "window"
      <4>1. /\ total' = Size[image] /\ flash' = <<>> /\ clock' = 0 /\ TermSafe(FALSE)
        BY <2>3, <3>1 DEF Probe, MayBegin
      <4>2. OwnImage'
        BY <2>0, <4>1 DEF OwnImage
      <4>3. ~trouble' => ~open'
        BY <1>0, <2>0, <4>1, TermKeeps
      <4> QED
        BY <3>1, <4>1, <4>2, <4>3, BetweenKeeps
    <3>2. CASE pc' # "window"
      <4>1. /\ pc' = "cleanup" /\ UNCHANGED <<open, inited>> /\ total' = Size[image]
            /\ Note(Size[image] <= Partition)
        BY <2>3, <3>2 DEF Probe
      <4>2. ~trouble' => total' > Partition
        BY <1>0, <4>1, VersionsAre DEF Note, TypeOK
      <4> QED
        BY <1>0, <2>0, <4>1, <4>2, AwayKeeps
    <3> QED
      BY <3>1, <3>2
  <2>4. CASE OpenWindow
    <3>0. offset < total /\ UNCHANGED <<offset, total>>
      BY <2>4 DEF OpenWindow
    <3>1. /\ pc = "window" /\ pc' \in {"request", "cleanup"} /\ UNCHANGED <<total, flash, clock>>
      BY <2>4 DEF OpenWindow, Reopen, slots
    <3>2. ~trouble' => pc' = "request" /\ inited'
      <4> SUFFICES ASSUME ~trouble' PROVE pc' = "request" /\ inited'
        OBVIOUS
      <4>1. ~DeadlinePassed
        BY <1>0, <2>0, <3>1 DEF DeadlinePassed
      <4>2. Reopen("request")
        BY <2>4, <4>1 DEF OpenWindow
      <4> QED
        BY <1>0, <2>0, <4>2, ReopenKeeps
    <3>3. OwnImage'
      BY <1>0, <2>0, <3>1 DEF OwnImage
    <3>4. CASE pc' = "request"
      BY <1>0, <2>0, <3>0, <3>1, <3>2, <3>3, <3>4, BetweenKeeps
    <3>5. CASE pc' = "cleanup"
      BY <3>2, <3>5, AwayKeeps
    <3> QED
      BY <3>1, <3>4, <3>5
  <2>5. CASE Drain \/ WindowEnds
    <3>1. /\ pc = "drain" /\ pc' \in {"drain", "window"}
          /\ UNCHANGED <<total, flash, clock, open, inited>>
      BY <2>5 DEF Drain, WindowEnds, slots, modem
    <3>2. OwnImage'
      BY <1>0, <2>0, <3>1 DEF OwnImage
    <3> QED
      BY <1>0, <2>0, <3>1, <3>2, BetweenKeeps
  <2>6. CASE ReadFails
    <3>1. pc' = "cleanup" /\ UNCHANGED <<open, inited, total>> /\ Note(~NothingComes)
      BY <2>6 DEF ReadFails, modem
    <3>2. trouble'
      <4> SUFFICES ASSUME ~trouble' PROVE FALSE
        BY <1>0
      <4>1. NothingComes /\ ~trouble
        BY <1>0, <2>0, <3>1 DEF Note, TypeOK, NothingComes
      <4>2. pc \in {"header", "block"} /\ stream = <<>> /\ ~source.sending
        BY <2>6, <4>1 DEF ReadFails, NothingComes
      <4>3. CASE pc = "header"
        BY <1>0, <4>1, <4>2, <4>3
      <4>4. CASE pc = "block"
        <5>1. Len(stream) = remaining /\ remaining \in 1 .. blk
          BY <1>0, <4>1, <4>4 DEF ComesNow, Clean, BlockOpen
        <5> QED
          BY <1>0, <4>2, <5>1 DEF TypeOK
      <4> QED
        BY <4>2, <4>3, <4>4
    <3> QED
      BY <3>1, <3>2, AwayKeeps
  <2>7. CASE Finish
    <3>1. /\ pc = "window" /\ offset >= total /\ pc' \in {"restart", "start", "gaveUp"}
          /\ \E p \in BOOLEAN : TermSafe(p)
      BY <2>7 DEF Finish
    <3>2. ~trouble' => ~open'
      BY <1>0, <2>0, <3>1, TermKeeps
    <3>3. ~trouble' => pc' = "restart"
      <4> SUFFICES ASSUME ~trouble', pc' # "restart" PROVE FALSE
        BY <2>7
      <4>1. offset = total /\ Len(flash) = total /\ total \in Nat
        BY <1>0, <2>0, <3>1 DEF OwnRange, Clean, FlashFollowsOffset, TypeOK
      <4>2. /\ image \in Versions /\ total = Size[image]
            /\ \A i \in DOMAIN flash : flash[i] = Byte(image, i)
        BY <1>0, <2>0, <3>1 DEF OwnImage, Clean, TypeOK
      <4>3. flash = Image(image)
        <5>1. flash \in Seq(Token) /\ DOMAIN flash = 1 .. total
          BY <1>0, <4>1, LenProperties DEF TypeOK
        <5>2. \A i \in 1 .. total : i \in Nat /\ 1 + i - 1 = i
          BY <4>1
        <5>3. Bytes(image, 1, total) = [i \in 1 .. total |-> Byte(image, i)]
          BY <5>2 DEF Bytes
        <5>4. flash = [i \in 1 .. total |-> Byte(image, i)]
          BY <4>2, <5>1
        <5> QED
          BY <4>2, <5>3, <5>4 DEF Image
      <4>4. Verified
        BY <4>2, <4>3 DEF Verified
      <4>5. TermSafe(offset = total /\ Verified)
        BY <2>7 DEF Finish
      <4> QED
        BY <1>0, <2>0, <4>1, <4>4, <4>5, TermKeeps
    <3> QED
      BY <3>1, <3>2, <3>3, AwayKeeps
  <2>8. CASE Cleanup
    <3>1. pc = "cleanup" /\ pc' \in {"start", "gaveUp"} /\ TermSafe(FALSE) /\ total' = total
      BY <2>8 DEF Cleanup
    <3>2. ~trouble' => ~open'
      BY <1>0, <2>0, <3>1, TermKeeps
    <3> QED
      BY <1>0, <2>0, <3>1, <3>2, AwayKeeps
  <2> QED
    BY <1>2, <2>1, <2>2, <2>3, <2>4, <2>5, <2>6, <2>7, <2>8
<1> QED
  BY <1>1, <1>2

\* A window that is asked for.
LEMMA RequestFaithful ==
  ASSUME IInv, Faithful, [Next]_vars, RequestWindow
  PROVE  Faithful'
<1>0. /\ TypeOK /\ FlashFollowsOffset /\ Fits /\ OwnImage /\ Smooth
      /\ pc = "request" /\ stream' = <<>> /\ wgot' = 0
      /\ UNCHANGED <<total, offset, inited, flash, open, image>>
  BY DEF IInv, Faithful, RequestWindow, slots
<1>1. /\ ~trouble' => ~trouble /\ image' = image
      /\ Clean' => Clean /\ image' = image
  BY <1>0, CleanBefore DEF Boot, RequestWindow, Usable
<1>2. offset \in Nat /\ total \in Nat /\ Len(flash) = offset /\ Size[image] \in Nat
  BY <1>0, VersionsAre DEF TypeOK, FlashFollowsOffset
<1> DEFINE win == Smaller(total - offset, Window)
<1>3. PICK w \in Waits, a \in RangeAnswers(win) :
        /\ clock' = clock + w
        /\ Note(w > 0 \/ (a.status # 206 /\ There(Window) > 0))
        /\ pc' = IF Usable(a) THEN "header" ELSE "cleanup"
        /\ len' = a.n
        /\ source' = [v |-> image, next |-> a.from, left |-> a.n, sending |-> Usable(a)]
  BY DEF RequestWindow
<1>4. offset < total => win \in Nat /\ win > 0
  BY <1>2 DEF Smaller
<1> HIDE DEF win
<1>5. \/ a.status = 206 /\ a.from = offset + 1
         /\ a.n \in (IF ShortWindows THEN 1 ELSE There(win)) .. (IF LongWindows THEN Rest ELSE There(win))
      \/ a.status # 206
  BY DEF RangeAnswers, RangeAnswer
<1>6. ~trouble' => Usable(a) /\ w = 0
  <2> SUFFICES ASSUME ~trouble' PROVE Usable(a) /\ w = 0
    OBVIOUS
  <2>1. ~trouble /\ total = Size[image] /\ offset < total
    BY <1>0, <1>1 DEF OwnImage, Clean, Writing, Smooth
  <2>2. There(Window) > 0 /\ There(win) > 0
    BY <1>2, <1>4, <2>1 DEF There, Rest, Smaller
  <2>3. w = 0 /\ a.status = 206
    BY <1>3, <2>2 DEF Note, Waits
  <2>4. a.n > 0
    <3>1. There(win) \in Nat /\ Rest \in Nat
      BY <1>2, <1>4, <2>1 DEF There, Rest, Smaller
    <3> QED
      BY <1>5, <2>2, <2>3, <3>1
  <2> QED
    BY <2>3, <2>4 DEF Usable
<1>7. CASE ~Usable(a)
  <2>1. pc' = "cleanup"
    BY <1>3, <1>7
  <2> QED
    BY <1>0, <1>6, <1>7, <2>1, AwayKeeps DEF Writing, TypeOK
<1>8. CASE Usable(a)
  <2>1. /\ pc' = "header" /\ source'.v = image /\ source'.next = offset + 1 /\ source'.sending
        /\ source'.left = len' /\ len' > 0 /\ len' \in Nat
    <3>1. a.status = 206 /\ a.n > 0 /\ a.from = offset + 1
      BY <1>5, <1>8 DEF Usable
    <3>2. len' \in Nat
      BY StepHolds DEF IInv, TypeOK
    <3> QED
      BY <1>3, <1>8, <3>1, <3>2
  <2>2. OwnImage'
    BY <1>0, <1>1 DEF OwnImage, Writing
  <2>3. ComesNext' /\ ComesNow'
    BY <1>0, <1>1, <1>2, <2>1 DEF ComesNext, ComesNow
  <2>4. Smooth'
    <3>1. ~trouble' => clock' = 0 /\ (open' => inited')
      BY <1>0, <1>1, <1>3, <1>6 DEF Smooth, Writing
    <3>2. wgot' < len' /\ wgot' + source'.left = len'
      <4>1. wgot' = 0
        BY <1>0
      <4>2. \A x, y, z : x = 0 /\ y = z /\ z > 0 /\ z \in Nat => x < z /\ x + y = z
        OBVIOUS
      <4> QED
        BY <2>1, <4>1, <4>2, Zenon
    <3>3. DOMAIN stream' = {}
      BY <1>0
    <3> QED
      BY <1>0, <2>1, <3>1, <3>2, <3>3 DEF Smooth
  <2> QED
    BY <2>2, <2>3, <2>4 DEF Faithful
<1> QED
  BY <1>7, <1>8

\* What is skipped before a header is no part of a block.
LEMMA SkipFaithful ==
  ASSUME IInv, Faithful, [Next]_vars, SkipToHeader
  PROVE  Faithful'
<1>0. /\ TypeOK /\ OwnImage /\ ComesNext /\ Smooth
      /\ pc = "header" /\ pc' = "header" /\ stream # <<>> /\ stream' = Tail(stream)
      /\ Head(stream).kind # "header"
      /\ UNCHANGED <<total, len, wgot, blk, inited, clock, flash, open, source, image, trouble, lost>>
  BY DEF IInv, Faithful, SkipToHeader, slots, window
<1>1. /\ stream \in Seq(Token) /\ stream' \in Seq(Token) /\ Head(stream) = stream[1]
      /\ DOMAIN stream = 1 .. Len(stream) /\ DOMAIN stream' = 1 .. Len(stream')
      /\ Len(stream) \in Nat /\ Len(stream') = Len(stream) - 1
      /\ \A i \in DOMAIN stream' : i + 1 \in DOMAIN stream /\ stream'[i] = stream[i + 1]
  BY <1>0, TailOf, LenProperties DEF TypeOK
<1>2. \A i \in DOMAIN stream : stream[i].kind = "header" => i - 1 \in DOMAIN stream'
  BY <1>0, <1>1
<1>3. \A i \in DOMAIN stream : stream[i].kind = "header" => stream'[i - 1] = stream[i]
  BY <1>1, <1>2
<1>4. OwnImage'
  BY <1>0 DEF OwnImage, Clean, Writing
<1>5. ComesNow'
  BY <1>0 DEF ComesNow
<1>6. ComesNext'
  <2> SUFFICES ASSUME Clean PROVE ComesNext'
    BY <1>0 DEF ComesNext, Clean
  <2>1. source.sending => stream' # <<>> /\ \E i \in DOMAIN stream' : stream'[i].kind = "header"
    <3> SUFFICES ASSUME source.sending PROVE stream' # <<>> /\ \E i \in DOMAIN stream' : stream'[i].kind = "header"
      OBVIOUS
    <3>1. PICK i \in DOMAIN stream : stream[i].kind = "header"
      BY <1>0 DEF ComesNext
    <3>2. i - 1 \in DOMAIN stream' /\ stream'[i - 1].kind = "header"
      BY <1>2, <1>3, <3>1
    <3> QED
      BY <3>2
  <2>2. ASSUME NEW i \in DOMAIN stream', stream'[i].kind = "header"
        PROVE  /\ source.sending => source.next = Len(flash) + 1 + stream'[i].n
               /\ stream'[i].n > 0 => /\ Len(stream') = i + stream'[i].n
                                      /\ \A j \in 1 .. stream'[i].n : stream'[i + j] = Byte(image, Len(flash) + j)
    <3>1. i + 1 \in DOMAIN stream /\ stream[i + 1] = stream'[i] /\ i \in Nat
      BY <1>1, <2>2
    <3>2. stream'[i].n \in Nat
      BY <1>1, <2>2, ElementsAre
    <3>3. /\ source.sending => source.next = Len(flash) + 1 + stream'[i].n
          /\ stream'[i].n > 0 =>
               /\ Len(stream) = i + 1 + stream'[i].n
               /\ \A j \in 1 .. stream'[i].n : stream[i + 1 + j] = Byte(image, Len(flash) + j)
      BY <1>0, <2>2, <3>1 DEF ComesNext
    <3>m. stream'[i].n > 0 =>
            /\ Len(stream') = i + stream'[i].n
            /\ \A j \in 1 .. stream'[i].n : i + j \in DOMAIN stream' /\ (i + j) + 1 = i + 1 + j
      <4>0. SUFFICES ASSUME stream'[i].n > 0
                   PROVE  /\ Len(stream') = i + stream'[i].n
                          /\ \A j \in 1 .. stream'[i].n : i + j \in DOMAIN stream' /\ (i + j) + 1 = i + 1 + j
        OBVIOUS
      <4>1. Len(stream) = i + 1 + stream'[i].n
        BY <3>3, <4>0
      <4>2. i \in Nat /\ stream'[i].n \in Nat /\ Len(stream) \in Nat /\ Len(stream') = Len(stream) - 1
        BY <1>1, <3>1, <3>2
      <4>3. /\ Len(stream') = i + stream'[i].n
            /\ \A j \in 1 .. stream'[i].n : i + j \in 1 .. Len(stream') /\ (i + j) + 1 = i + 1 + j
        <5> DEFINE k == stream'[i].n
                   l == Len(stream)
                   m == Len(stream')
        <5>1. l = i + 1 + k /\ i \in Nat /\ k \in Nat /\ l \in Nat /\ m = l - 1
          BY <4>1, <4>2
        <5> HIDE DEF k, l, m
        <5>2. m = i + k /\ \A j \in 1 .. k : i + j \in 1 .. m /\ (i + j) + 1 = i + 1 + j
          <6>1. m \in Nat /\ m = i + k
            BY <5>1
          <6>2. \A j \in 1 .. k : j \in Nat /\ j >= 1 /\ j <= k
            BY <5>1
          <6>3. ASSUME NEW j \in 1 .. k PROVE i + j \in 1 .. m /\ (i + j) + 1 = i + 1 + j
            <7>1. i \in Nat /\ j \in Nat /\ j >= 1 /\ j <= k /\ k \in Nat
              BY <5>1, <6>2
            <7> QED
              BY <6>1, <7>1
          <6> QED
            BY <6>1, <6>3
        <5> QED
          BY <5>2 DEF k, m
      <4> QED
        BY <1>1, <4>3, Zenon
    <3>4. ASSUME stream'[i].n > 0, NEW j \in 1 .. stream'[i].n PROVE stream'[i + j] = stream[i + 1 + j]
      BY <1>1, <3>m, <3>4
    <3> QED
      BY <3>3, <3>4, <3>m
  <2> QED
    BY <1>0, <2>1, <2>2 DEF ComesNext
<1>7. Smooth'
  <2> SUFFICES ASSUME ~trouble PROVE Smooth'
    BY <1>0 DEF Smooth
  <2>1. PICK i \in DOMAIN stream : stream[i].kind = "header"
    BY <1>0 DEF Smooth
  <2>2. i - 1 \in DOMAIN stream' /\ stream'[i - 1].kind = "header"
    BY <1>2, <1>3, <2>1
  <2>3. stream' # <<>>
    BY <2>2
  <2>4. \A k \in DOMAIN stream' : /\ stream'[k].kind # "ERROR"
                                  /\ stream'[k].kind = "header" => /\ stream'[k].n > 0
                                                                   /\ wgot + source.left + stream'[k].n = len
    BY <1>0, <1>1 DEF Smooth
  <2> QED
    BY <1>0, <2>2, <2>3, <2>4 DEF Smooth, Writing
<1> QED
  BY <1>4, <1>5, <1>6, <1>7 DEF Faithful

\* The header that is read announces exactly what follows.
LEMMA HeaderFaithful ==
  ASSUME IInv, Faithful, [Next]_vars, ReadHeader
  PROVE  Faithful'
<1> DEFINE n == Head(stream).n
<1>0. /\ TypeOK /\ OwnImage /\ ComesNext /\ Smooth
      /\ pc = "header" /\ stream # <<>> /\ Head(stream).kind = "header" /\ stream' = Tail(stream)
      /\ blk' = n /\ remaining' = n /\ pc' = IF n > 0 THEN "block" ELSE "cleanup"
      /\ UNCHANGED <<total, len, wgot, inited, flash, open, source, image, lost>>
  BY DEF IInv, Faithful, ReadHeader, slots
<1>1. /\ ~trouble' => ~trouble /\ image' = image
      /\ Clean' => Clean /\ image' = image
  BY <1>0, CleanBefore DEF Boot
<1>2. /\ stream \in Seq(Token) /\ stream' \in Seq(Token) /\ Head(stream) = stream[1]
      /\ 1 \in DOMAIN stream /\ DOMAIN stream' = 1 .. Len(stream')
      /\ Len(stream) \in Nat /\ Len(stream') = Len(stream) - 1 /\ Len(stream') \in Nat
      /\ \A i \in DOMAIN stream' : stream'[i] = stream[i + 1]
      /\ n \in Nat /\ stream[1].n = n
      /\ wgot \in Nat /\ len \in Nat /\ source.left \in Nat /\ clock \in Nat
  BY <1>0, TailOf, LenProperties, ElementsAre DEF TypeOK
<1> HIDE DEF n
<1>3. ~trouble' => clock' = 0 /\ wgot + n + source.left = len /\ n > 0 /\ (source.left > 0 => source.sending)
  <2> SUFFICES ASSUME ~trouble'
               PROVE  clock' = 0 /\ wgot + n + source.left = len /\ n > 0 /\ (source.left > 0 => source.sending)
    OBVIOUS
  <2>1. /\ ~trouble /\ clock = 0 /\ n > 0 /\ wgot + source.left + n = len
        /\ source.left > 0 => source.sending
    BY <1>0, <1>1, <1>2 DEF Smooth, Writing
  <2>2. clock' = 0
    BY <2>1 DEF ReadHeader, Read, Note, Waits
  <2> QED
    BY <1>2, <2>1, <2>2
<1>4. CASE n = 0
  <2>1. pc' = "cleanup" /\ trouble'
    BY <1>0, <1>3, <1>4, TroubleType DEF TypeOK
  <2> QED
    BY <2>1, AwayKeeps DEF Writing
<1>5. CASE n > 0
  <2>1. pc' = "block"
    BY <1>0, <1>5
  <2>2. OwnImage'
    BY <1>0, <1>1, <2>1 DEF OwnImage, Writing
  <2>3. ComesNext'
    BY <2>1 DEF ComesNext
  <2>4. ComesNow'
    <3> SUFFICES ASSUME Clean' PROVE ComesNow'
      BY DEF ComesNow
    <3>1. /\ Clean /\ image' = image
      BY <1>1
    <3>2. /\ source.sending => source.v = image /\ source.next = Len(flash) + 1 + n
          /\ Len(stream) = 1 + n
          /\ \A j \in 1 .. n : stream[1 + j] = Byte(image, Len(flash) + j)
      BY <1>0, <1>2, <1>5, <3>1 DEF ComesNext
    <3>3. Len(stream') = n
      BY <1>2, <3>2
    <3>4. \A j \in 1 .. n : stream'[j] = Byte(image, Len(flash) + j)
      <4> SUFFICES ASSUME NEW j \in 1 .. n PROVE stream'[j] = Byte(image, Len(flash) + j)
        OBVIOUS
      <4>1. stream'[j] = stream[j + 1] /\ j + 1 = 1 + j
        <5>1. j \in DOMAIN stream' /\ j + 1 = 1 + j
          BY <1>2, <3>3
        <5> QED
          BY <1>2, <5>1, Zenon
      <4> QED
        BY <3>2, <4>1
    <3> QED
      BY <1>0, <3>1, <3>2, <3>3, <3>4 DEF ComesNow
  <2>5. Smooth'
    <3>1. ~trouble' => /\ open' => inited'
                       /\ clock' = 0 /\ wgot' + blk' + source'.left = len'
                       /\ source'.left > 0 => source'.sending
      BY <1>0, <1>1, <1>3 DEF Smooth
    <3> QED
      BY <2>1, <3>1 DEF Smooth
  <2> QED
    BY <2>2, <2>3, <2>4, <2>5 DEF Faithful
<1> QED
  BY <1>2, <1>4, <1>5

\* What is written is the next byte of the image, and the last of a block ends it exactly.
LEMMA WriteFaithful ==
  ASSUME IInv, Faithful, [Next]_vars, WriteByte
  PROVE  Faithful'
<1>0. /\ TypeOK /\ FlashFollowsOffset /\ BlockOpen /\ OwnImage /\ ComesNow /\ Smooth
      /\ pc = "block" /\ stream # <<>> /\ stream' = Tail(stream)
      /\ flash' = Append(flash, Head(stream)) /\ remaining' = remaining - 1
      /\ UNCHANGED <<total, offset, len, blk, inited, open, source, image, lost>>
  BY DEF IInv, Faithful, WriteByte
<1>1. /\ pc' \in {"block", "header", "drain"}
      /\ ~trouble' => ~trouble /\ image' = image
      /\ Clean' => Clean /\ image' = image
  <2>1. pc' \in {"block", "header", "drain"}
    BY <1>0 DEF WriteByte, AfterBlock
  <2> QED
    BY <1>0, <2>1, CleanBefore DEF Boot
<1>2. /\ stream \in Seq(Token) /\ Head(stream) = stream[1]
      /\ DOMAIN stream' = 1 .. Len(stream') /\ Len(stream') = Len(stream) - 1 /\ Len(stream') \in Nat
      /\ \A i \in DOMAIN stream' : stream'[i] = stream[i + 1]
  BY <1>0, TailOf, LenProperties DEF TypeOK
<1>3. /\ flash \in Seq(Token) /\ Len(flash) \in Nat /\ DOMAIN flash = 1 .. Len(flash)
      /\ Len(flash') = Len(flash) + 1 /\ DOMAIN flash' = 1 .. Len(flash) + 1
      /\ flash'[Len(flash) + 1] = stream[1]
      /\ \A i \in DOMAIN flash : flash'[i] = flash[i]
  <2>1. flash \in Seq(Token) /\ Head(stream) \in Token
    BY <1>0, TailOf DEF TypeOK
  <2> QED
    BY <1>0, <1>2, <2>1, AppendProperties, LenProperties
<1>4. /\ remaining \in Nat /\ remaining > 0 /\ wgot \in Nat /\ blk \in Nat /\ len \in Nat
      /\ source.left \in Nat /\ clock \in Nat
  BY <1>0 DEF TypeOK, BlockOpen
<1>5. Clean => /\ source.sending => source.v = image /\ source.next = Len(flash) + 1 + remaining
               /\ Len(stream) = remaining
               /\ \A j \in 1 .. remaining : stream[j] = Byte(image, Len(flash) + j)
  BY <1>0 DEF ComesNow
<1>6. Clean => stream[1] = Byte(image, Len(flash) + 1)
  <2>1. 1 \in 1 .. remaining
    BY <1>4
  <2> QED
    BY <1>5, <2>1
<1>7. OwnImage'
  <2> SUFFICES ASSUME Clean' PROVE total' = Size[image'] /\ \A i \in DOMAIN flash' : flash'[i] = Byte(image', i)
    BY DEF OwnImage
  <2>1. /\ Clean /\ image' = image /\ total' = Size[image]
        /\ \A i \in DOMAIN flash : flash[i] = Byte(image, i)
    BY <1>0, <1>1 DEF OwnImage, Writing
  <2>2. ASSUME NEW i \in DOMAIN flash' PROVE flash'[i] = Byte(image, i)
    <3>1. i \in DOMAIN flash \/ i = Len(flash) + 1
      BY <1>3
    <3> QED
      BY <1>3, <1>6, <2>1, <3>1
  <2> QED
    BY <2>1, <2>2
<1>8. ~trouble' => /\ open' => inited'
                   /\ clock' = 0 /\ wgot + blk + source.left = len
                   /\ source.left > 0 => source.sending
  <2>1. ~trouble' => /\ ~trouble /\ clock = 0 /\ wgot + blk + source.left = len
                     /\ source.left > 0 => source.sending
                     /\ open => inited
    BY <1>0, <1>1 DEF Smooth, Writing
  <2>2. ~trouble' => clock' = clock
    BY <1>4 DEF WriteByte, Read, Note, Waits
  <2> QED
    BY <1>0, <2>1, <2>2
<1>9. CASE remaining = 1
  <2>1. wgot' = wgot + blk /\ pc' = AfterBlock /\ pc' \in {"header", "drain"}
    BY <1>9 DEF WriteByte, AfterBlock
  <2>2. Clean' => stream' = <<>> /\ (source'.sending => source'.v = image' /\ source'.next = Len(flash') + 1)
    <3> SUFFICES ASSUME Clean' PROVE stream' = <<>> /\ (source'.sending => source'.v = image' /\ source'.next = Len(flash') + 1)
      OBVIOUS
    <3>1. Len(stream') = 0 /\ stream' \in Seq(Token)
      BY <1>0, <1>1, <1>2, <1>5, <1>9, TailOf
    <3>2. Len(flash) + 1 + remaining = Len(flash') + 1
      BY <1>3, <1>9
    <3> QED
      BY <1>0, <1>1, <1>5, <3>1, <3>2, EmptySeq
  <2>3. CASE pc' = "drain"
    BY <1>7, <1>8, <2>3, BetweenKeeps
  <2>4. CASE pc' = "header"
    <3>1. wgot' < len'
      BY <1>0, <2>1, <2>4 DEF AfterBlock
    <3>2. DOMAIN <<>> = {}
      OBVIOUS
    <3>3. ComesNext' /\ ComesNow'
      BY <2>2, <2>4, <3>2 DEF ComesNext, ComesNow
    <3>4. ~trouble' => /\ stream' = <<>> /\ wgot' + source'.left = len' /\ source'.left > 0
                       /\ source'.left > 0 => source'.sending
      <4> SUFFICES ASSUME ~trouble'
                   PROVE  /\ stream' = <<>> /\ wgot' + source'.left = len' /\ source'.left > 0
                          /\ source'.left > 0 => source'.sending
        OBVIOUS
      <4>1. wgot' + source'.left = len' /\ (source'.left > 0 => source'.sending)
        BY <1>0, <1>8, <2>1
      <4>2. source'.left > 0
        BY <1>0, <1>4, <2>1, <3>1, <4>1
      <4> QED
        BY <2>2, <4>1, <4>2 DEF Clean
    <3>5. Smooth'
      BY <1>8, <2>4, <3>1, <3>2, <3>4 DEF Smooth
    <3> QED
      BY <1>7, <3>3, <3>5 DEF Faithful
  <2> QED
    BY <2>1, <2>3, <2>4
<1>10. CASE remaining # 1
  <2>1. pc' = "block" /\ wgot' = wgot
    BY <1>0, <1>10 DEF WriteByte
  <2>2. ComesNext'
    BY <2>1 DEF ComesNext
  <2>3. ComesNow'
    <3> SUFFICES ASSUME Clean' PROVE ComesNow'
      BY DEF ComesNow
    <3>1. Clean /\ image' = image
      BY <1>1
    <3>2. Len(flash) + 1 + remaining = Len(flash') + 1 + remaining' /\ Len(stream') = remaining'
      <4>1. Len(stream) = remaining
        BY <1>5, <3>1
      <4>2. Len(flash') = Len(flash) + 1 /\ Len(flash) \in Nat
        BY <1>3
      <4>3. remaining' = remaining - 1 /\ Len(stream') = Len(stream) - 1 /\ remaining \in Nat
        BY <1>0, <1>2, <1>4
      <4> QED
        BY <4>1, <4>2, <4>3
    <3>3. ASSUME NEW j \in 1 .. remaining' PROVE stream'[j] = Byte(image, Len(flash') + j)
      <4>1. j \in DOMAIN stream' /\ j + 1 \in 1 .. remaining /\ Len(flash) + (j + 1) = Len(flash') + j
        BY <1>0, <1>2, <1>3, <1>4, <3>2
      <4> QED
        BY <1>2, <1>5, <3>1, <4>1
    <3> QED
      BY <1>0, <1>5, <3>1, <3>2, <3>3 DEF ComesNow
  <2>4. Smooth'
    BY <1>0, <1>8, <2>1 DEF Smooth
  <2> QED
    BY <1>7, <2>2, <2>3, <2>4 DEF Faithful
<1> QED
  BY <1>9, <1>10

\* A sub-block carries the bytes that flash lacks, or the window is over.
LEMMA SendFaithful ==
  ASSUME IInv, Faithful, [Next]_vars, ModemSends
  PROVE  Faithful'
<1>0. /\ TypeOK /\ BlockOpen /\ OwnImage /\ ComesNext /\ ComesNow /\ Smooth
      /\ source.sending /\ stream = <<>>
      /\ UNCHANGED <<pc, total, offset, len, wgot, blk, remaining, inited, clock, flash, open, image, trouble,
                     lost>>
  BY DEF IInv, Faithful, ModemSends, window, slots
<1>1. /\ Clean' => Clean /\ image' = image
      /\ wgot \in Nat /\ len \in Nat /\ source.left \in Nat /\ Len(flash) \in Nat
      /\ Writing' = Writing
  BY <1>0, LenProperties DEF Clean, TypeOK, Writing
<1>2. OwnImage'
  BY <1>0, <1>1 DEF OwnImage
<1>3. Clean => pc # "block"
  <2>1. Clean /\ pc = "block" => Len(stream) = remaining /\ remaining \in 1 .. blk
    BY <1>0 DEF ComesNow, BlockOpen
  <2>2. Len(stream) = 0 /\ blk \in Nat
    BY <1>0 DEF TypeOK
  <2> QED
    BY <2>1, <2>2
<1>4. ComesNow'
  BY <1>0, <1>1, <1>3 DEF ComesNow
<1>5. Clean /\ pc = "header" => source.v = image /\ source.next = Len(flash) + 1
  BY <1>0 DEF ComesNext
<1>6. ~trouble /\ pc = "header" => wgot < len /\ wgot + source.left = len
  BY <1>0 DEF Smooth
<1>7. ASSUME NEW n \in 1 .. Smaller(Block, source.left),
             stream' = <<Eol, Header(n)>> \o Bytes(source.v, source.next, n),
             source' = [source EXCEPT !.next = @ + n, !.left = @ - n]
      PROVE  Faithful'
  <2>1. /\ n \in Nat /\ n > 0 /\ n <= source.left
        /\ Len(stream') = 2 + n /\ DOMAIN stream' = 1 .. 2 + n
        /\ stream'[1] = Eol /\ stream'[2] = Header(n)
        /\ \A j \in 1 .. n : stream'[2 + j] = Byte(source.v, source.next + j - 1)
    BY <1>0, <1>7, SentIs
  <2>2. /\ source'.v = source.v /\ source'.next = source.next + n
        /\ source'.left = source.left - n /\ source'.sending = source.sending
    BY <1>0, <1>7 DEF TypeOK
  <2>3. \A i \in DOMAIN stream' : /\ stream'[i].kind = "header" => i = 2 /\ stream'[i].n = n
                                  /\ stream'[i].kind # "ERROR"
    <3> SUFFICES ASSUME NEW i \in DOMAIN stream'
                 PROVE  /\ stream'[i].kind = "header" => i = 2 /\ stream'[i].n = n
                        /\ stream'[i].kind # "ERROR"
      OBVIOUS
    <3>1. CASE i = 1
      BY <2>1, <3>1 DEF Eol
    <3>2. CASE i = 2
      BY <2>1, <3>2 DEF Header
    <3>3. CASE i > 2
      <4>1. i - 2 \in 1 .. n /\ 2 + (i - 2) = i
        BY <2>1, <3>3
      <4>2. stream'[i] = Byte(source.v, source.next + (i - 2) - 1)
        BY <2>1, <4>1
      <4> QED
        BY <4>2 DEF Byte
    <3> QED
      BY <2>1, <3>1, <3>2, <3>3
  <2>4. stream' # <<>> /\ 2 \in DOMAIN stream' /\ stream'[2].kind = "header"
    BY <2>1 DEF Header
  <2>5. ComesNext'
    <3> SUFFICES ASSUME Clean, pc = "header" PROVE ComesNext'
      BY <1>0, <1>1 DEF ComesNext
    <3>1. source.v = image /\ source.next = Len(flash) + 1
      BY <1>5
    <3>2. source'.next = Len(flash) + 1 + n
      BY <2>2, <3>1
    <3>3. ASSUME NEW j \in 1 .. n PROVE stream'[2 + j] = Byte(image, Len(flash) + j)
      <4>1. source.next + j - 1 = Len(flash) + j
        BY <1>1, <2>1, <3>1
      <4> QED
        BY <2>1, <3>1, <4>1
    <3>4. /\ source'.v = image' /\ Len(flash') = Len(flash) /\ stream' # <<>>
          /\ \E i \in DOMAIN stream' : stream'[i].kind = "header"
      BY <1>0, <2>2, <2>4, <3>1
    <3>5. ASSUME NEW i \in DOMAIN stream', stream'[i].kind = "header"
          PROVE  /\ source'.next = Len(flash') + 1 + stream'[i].n
                 /\ Len(stream') = i + stream'[i].n
                 /\ \A j \in 1 .. stream'[i].n : stream'[i + j] = Byte(image', Len(flash') + j)
      <4>1. i = 2 /\ stream'[i].n = n /\ image' = image
        BY <1>0, <2>3, <3>5
      <4> QED
        BY <2>1, <3>2, <3>3, <3>4, <4>1
    <3> QED
      BY <3>4, <3>5 DEF ComesNext
  <2>6. Smooth'
    <3> SUFFICES ASSUME ~trouble PROVE Smooth'
      BY <1>0 DEF Smooth
    <3>1. pc # "block"
      BY <1>3 DEF Clean
    <3>2. pc = "header" => wgot + source'.left + n = len
      BY <1>1, <1>6, <2>1, <2>2
    <3> QED
      BY <1>0, <1>1, <1>6, <2>1, <2>2, <2>3, <2>4, <3>1, <3>2 DEF Smooth
  <2> QED
    BY <1>2, <1>4, <2>5, <2>6 DEF Faithful
<1>8. ASSUME source.left = 0, stream' = <<Eol, Header(0), OK>>, source' = Silent
      PROVE  Faithful'
  <2>1. /\ DOMAIN stream' = 1 .. 3 /\ Len(stream') = 3
        /\ stream'[1] = Eol /\ stream'[2] = Header(0) /\ stream'[3] = OK
    BY <1>8
  <2>2. \A i \in DOMAIN stream' : stream'[i].kind = "header" => stream'[i].n = 0
    BY <2>1 DEF Eol, Header, OK
  <2>3. ~source'.sending
    BY <1>8 DEF Silent
  <2>4. ComesNext'
    BY <1>1, <2>2, <2>3 DEF ComesNext
  <2>5. Smooth'
    <3>1. ~trouble => pc \notin {"header", "block"}
      BY <1>1, <1>3, <1>6, <1>8 DEF Clean
    <3> QED
      BY <1>0, <1>1, <3>1 DEF Smooth
  <2> QED
    BY <1>2, <1>4, <2>4, <2>5 DEF Faithful
<1> QED
  BY <1>7, <1>8 DEF ModemSends

\* What fails, is lost or is replaced is remembered.
LEMMA TroubleFaithful ==
  ASSUME IInv, Faithful, [Next]_vars, ModemFails \/ Lose \/ NewImage
  PROVE  Faithful'
<1>0. TypeOK /\ OwnImage /\ ComesNext /\ ComesNow /\ trouble' /\ UNCHANGED <<pc, total, flash, remaining>>
  BY DEF IInv, Faithful, ModemFails, Lose, NewImage, slots, window
<1>1. Clean' => Clean /\ image' = image
  BY <1>0, CleanBefore DEF Boot, TypeOK, ModemFails, Lose, NewImage
<1>2. CASE Lose \/ NewImage
  <2>1. ~Clean'
    <3>1. lost \in Nat /\ image \in Nat /\ image > 0
      BY <1>0 DEF TypeOK, Versions
    <3>2. lost' # 0 \/ image' # 1
      BY <1>2, <3>1 DEF Lose, NewImage
    <3> QED
      BY <1>0, <3>2 DEF Clean
  <2> QED
    BY <1>0, <2>1 DEF Faithful, OwnImage, ComesNext, ComesNow, Smooth
<1>3. CASE ModemFails
  <2>1. /\ source.sending /\ stream = <<>> /\ ~source'.sending
        /\ stream' = <<>> \/ stream' = <<Error>>
    BY <1>3 DEF ModemFails, Silent
  <2>2. \A i \in DOMAIN stream' : stream'[i].kind # "header"
    BY <2>1 DEF Error
  <2>3. Clean => pc # "block"
    <3>1. Clean /\ pc = "block" => Len(stream) = remaining /\ remaining \in 1 .. blk
      BY <1>0 DEF ComesNow, IInv, BlockOpen
    <3>2. Len(stream) = 0 /\ blk \in Nat
      BY <1>0, <2>1 DEF TypeOK
    <3> QED
      BY <3>1, <3>2
  <2>4. OwnImage'
    BY <1>0, <1>1 DEF OwnImage, Writing
  <2>5. ComesNext' /\ ComesNow'
    BY <1>0, <1>1, <2>1, <2>2, <2>3 DEF ComesNext, ComesNow
  <2> QED
    BY <1>0, <2>4, <2>5 DEF Faithful, Smooth
<1> QED
  BY <1>2, <1>3

\* What a window brings of an image that is the one it was is within that image's size.
LEMMA RangeStep ==
  ASSUME IInv, OwnImage, OwnRange, [Next]_vars PROVE OwnRange'
<1> SUFFICES ASSUME Clean', Writing' PROVE offset' <= total' /\ (InWindow' => offset' + len' <= total')
  BY DEF OwnRange
<1>0. /\ TypeOK /\ offset \in Nat /\ total \in Nat /\ len \in Nat /\ wgot \in Nat /\ source.left \in Nat
  BY CountsAre DEF IInv
<1>1. ~Boot /\ Clean /\ image' = image
  <2>1. ~Boot
    BY DEF Boot, Writing
  <2> QED
    BY <1>0, <2>1, CleanBefore
<1>2. CASE Probe
  <2>1. pc' = "window" /\ offset' = 0 /\ total' = Size[image] /\ image \in Versions
    BY <1>0, <1>2 DEF Probe, Writing, TypeOK
  <2> QED
    BY <2>1, VersionsAre DEF InWindow
<1>3. CASE RequestWindow
  <2>1. PICK a \in RangeAnswers(Smaller(total - offset, Window)) :
          /\ pc' = IF Usable(a) THEN "header" ELSE "cleanup"
          /\ len' = a.n
    BY <1>3 DEF RequestWindow
  <2>2. pc = "request" /\ offset < total /\ total = Size[image] /\ UNCHANGED <<offset, total>> /\ Usable(a)
    BY <1>1, <1>3, <2>1 DEF RequestWindow, IInv, Fits, OwnImage, Writing
  <2> DEFINE win == Smaller(total - offset, Window)
  <2>3. win \in Nat
    BY <1>0, <2>2 DEF Smaller
  <2>4. a \in RangeAnswers(win)
    OBVIOUS
  <2> HIDE DEF win
  <2>5. Rest = total - offset /\ Rest \in Nat /\ There(win) \in Nat /\ There(win) <= Rest
    BY <1>0, <2>2, <2>3 DEF There, Rest, Smaller
  <2>6. a.n \in (IF ShortWindows THEN 1 ELSE There(win)) .. (IF LongWindows THEN Rest ELSE There(win))
    BY <2>2, <2>4 DEF RangeAnswers, RangeAnswer, Usable
  <2>7. a.n <= Rest /\ a.n \in Nat
    BY <2>5, <2>6
  <2> QED
    BY <1>0, <2>1, <2>2, <2>5, <2>7
<1>4. CASE WindowEnds
  <2>1. pc = "drain" /\ pc' = "window" /\ offset' = offset + wgot /\ total' = total
    BY <1>4 DEF WindowEnds, NextOffset
  <2>2. offset + len <= total /\ wgot + 0 + source.left <= len
    BY <1>1, <2>1 DEF OwnRange, IInv, Announced, InWindow, Current, Writing
  <2> QED
    BY <1>0, <2>1, <2>2 DEF InWindow
<1>5. CASE ~Probe /\ ~RequestWindow /\ ~WindowEnds
  <2>1. Writing /\ UNCHANGED <<offset, total>> /\ (InWindow' => InWindow /\ len' = len)
    BY <1>1, <1>5
    DEF Next, Driver, CheckVersion, StartSession, Reopen, OpenWindow, SkipToHeader, ReadHeader, WriteByte,
        AfterBlock, ReadFails, Drain, Finish, Cleanup, MarkValid, Restart, NextCycle, Reset,
        ModemSends, ModemFails, Lose, NewImage, vars, window, Writing, InWindow
  <2> QED
    BY <1>1, <2>1 DEF OwnRange
<1> QED
  BY <1>2, <1>3, <1>4, <1>5

LEMMA FaithfulStep == IInv /\ Faithful /\ OwnRange /\ [Next]_vars => Faithful'
<1> SUFFICES ASSUME IInv, Faithful, OwnRange, [Next]_vars PROVE Faithful'
  OBVIOUS
<1>1. CASE UNCHANGED vars
  BY <1>1 DEF vars, window, slots, modem, Faithful, Clean, OwnImage, ComesNext, ComesNow, Smooth, Writing
<1> QED
  BY <1>1, SessionsFaithful, RequestFaithful, SkipFaithful, HeaderFaithful, WriteFaithful, SendFaithful,
     TroubleFaithful DEF Next, Driver

LEMMA AlwaysFaithful == Spec => [](IInv /\ Faithful /\ OwnRange)
<1>2. Init => OwnRange
  BY DEF Init, OwnRange, Writing
<1>3. IInv /\ Faithful /\ OwnRange /\ [Next]_vars => OwnRange'
  BY RangeStep DEF Faithful
<1>1. Init => Faithful
  <2> SUFFICES ASSUME Init PROVE Faithful
    OBVIOUS
  <2>1. pc = "check" /\ ~open
    BY DEF Init
  <2> QED
    BY <2>1 DEF Faithful, OwnImage, ComesNext, ComesNow, Smooth, Writing
<1> QED
  BY <1>1, <1>2, <1>3, InitHolds, StepHolds, FaithfulStep, PTL DEF Spec

\* The attempts end without a new image only where one is too large or something beside the driver
\* failed since the boot: with windows, blocks and images of any size, the driver's own sessions and
\* ranges never make an attempt fail.
THEOREM GivesUp == Spec => []GivesUpInTrouble
<1>1. Faithful => GivesUpInTrouble
  BY DEF Faithful, Smooth, GivesUpInTrouble
<1> QED
  BY <1>1, AlwaysFaithful, PTL

\* What flash holds is no longer than the image it is part of.
LEMMA NoLonger == ASSUME IInv, OwnRange, Clean, Writing PROVE Len(flash) <= total
<1>0. /\ TypeOK /\ FlashFollowsOffset /\ BlockOpen /\ Announced /\ Fits
      /\ total \in Nat /\ offset \in Nat /\ len \in Nat /\ wgot \in Nat /\ blk \in Nat /\ source.left \in Nat
  BY CountsAre DEF IInv
<1>1. CASE pc \in {"window", "request"}
  BY <1>0, <1>1 DEF FlashFollowsOffset, OwnRange
<1>2. CASE pc \in {"header", "drain"}
  <2>1. Len(flash) = offset + wgot /\ offset + len <= total /\ wgot + 0 + source.left <= len
    BY <1>0, <1>2 DEF OwnRange, FlashFollowsOffset, Announced, InWindow, Current
  <2> QED
    BY <1>0, <2>1
<1>3. CASE pc = "block"
  <2>1. /\ Len(flash) = offset + wgot + (blk - remaining) /\ remaining \in 1 .. blk
        /\ offset + len <= total /\ wgot + blk + source.left <= len
    BY <1>0, <1>3 DEF OwnRange, FlashFollowsOffset, BlockOpen, Announced, InWindow, Current
  <2> QED
    BY <1>0, <2>1
<1> QED
  BY <1>1, <1>2, <1>3 DEF Writing

\* While nothing is lost and the server keeps its image, flash holds the beginning of that image and
\* nothing else, wherever windows, sub-blocks and short answers cut it.
THEOREM OnlyTheImage == Spec => []FlashIsImage
<1>1. IInv /\ Faithful /\ OwnRange => FlashIsImage
  <2> SUFFICES ASSUME IInv, Faithful, OwnRange, Writing, lost = 0, image = 1 PROVE IsPrefix(flash, Image(1))
    BY DEF FlashIsImage
  <2>1. total = Size[1] /\ \A i \in DOMAIN flash : flash[i] = Byte(1, i)
    BY DEF Faithful, OwnImage, Clean
  <2>2. flash \in Seq(Token) /\ Len(flash) \in Nat /\ DOMAIN flash = 1 .. Len(flash) /\ Len(flash) <= total
    BY NoLonger, LenProperties DEF IInv, TypeOK, Clean
  <2>3. /\ Image(1) \in Seq(Token) /\ Len(Image(1)) = total
        /\ \A i \in 1 .. total : Image(1)[i] = Byte(1, i)
    <3>1. total \in Nat
      BY <2>1, VersionsAre
    <3>2. Bytes(1, 1, total) \in Seq(Token) /\ Len(Bytes(1, 1, total)) = total
      <4>1. \A v \in Versions, from, k \in Nat :
              from > 0 => Bytes(v, from, k) \in Seq(Token) /\ Len(Bytes(v, from, k)) = k
        BY BytesAre
      <4>2. 1 \in Nat /\ 1 > 0 /\ 1 \in Versions
        BY VersionsAre
      <4> QED
        BY <3>1, <4>1, <4>2, Zenon
    <3>3. \A i \in 1 .. total : Bytes(1, 1, total)[i] = Byte(1, i)
      BY <3>1 DEF Bytes
    <3> QED
      BY <2>1, <3>2, <3>3 DEF Image
  <2>4. SubSeq(flash, 1, Len(flash)) = SubSeq(Image(1), 1, Len(flash))
    <3>1. SubSeq(flash, 1, Len(flash)) = [i \in 1 .. Len(flash) |-> flash[i]]
      BY <2>2
    <3>2. SubSeq(Image(1), 1, Len(flash)) = [i \in 1 .. Len(flash) |-> Image(1)[i]]
      BY <2>2, <2>3
    <3>3. \A i \in 1 .. Len(flash) : flash[i] = Image(1)[i]
      <4>1. \A i \in 1 .. Len(flash) : i \in 1 .. total
        BY <2>1, <2>2, VersionsAre
      <4> QED
        BY <2>1, <2>2, <2>3, <4>1
    <3> QED
      BY <3>1, <3>2, <3>3
  <2> QED
    BY <2>2, <2>3, <2>4 DEF IsPrefix
<1> QED
  BY <1>1, AlwaysFaithful, PTL

-----------------------------------------------------------------------------
(* The end of the attempts.  DownloadEnds rests on the fairness of the     *)
(* driver and of the modem; what is proved is what the code adds to it:    *)
(* every step brings the end nearer.                                       *)

Updating == pc \in {"start", "probe", "window", "request", "header", "block", "drain", "cleanup"}

\* The attempts that are left; in an attempt, what is left of the image and of the window's
\* session; in both, the tokens that are on the line and may still come.
RoundsLeft == Attempts - attempt

ToGo == IF offset < total THEN total - offset ELSE 0

RoadLeft ==
  CASE pc = "start" -> 3 * Partition + 5
    [] pc = "probe" -> 3 * Partition + 4
    [] pc = "window" -> 3 * ToGo + 3
    [] pc = "request" -> 3 * ToGo + 2
    [] pc \in {"header", "block", "drain"} -> 3 * ToGo + 1
    [] OTHER -> 0

LineLeft == Len(stream) + IF source.sending THEN 4 * (source.left + 1) ELSE 0

\* Less of the three, in their order.
Nearer ==
  \/ RoundsLeft' < RoundsLeft
  \/ /\ RoundsLeft' = RoundsLeft
     /\ RoadLeft' < RoadLeft \/ (RoadLeft' = RoadLeft /\ LineLeft' < LineLeft)

CountsDown == RoundsLeft \in Nat /\ RoadLeft \in Nat /\ LineLeft \in Nat

\* A window that is being closed has brought something.
Brought == pc = "drain" => wgot > 0

LEMMA BroughtHolds ==
  /\ Init => Brought
  /\ IInv /\ Brought /\ [Next]_vars => Brought'
<1>1. Init => Brought
  BY DEF Init, Brought
<1> SUFFICES ASSUME IInv, Brought, [Next]_vars, pc' = "drain" PROVE wgot' > 0
  BY <1>1 DEF Brought
<1>2. CASE WriteByte
  BY <1>2 DEF WriteByte, IInv, TypeOK, BlockOpen, Brought
<1>3. CASE pc = "drain" /\ UNCHANGED window
  BY <1>3 DEF window, Brought
<1>4. CASE ~WriteByte /\ ~(pc = "drain" /\ UNCHANGED window)
  BY <1>4
  DEF Next, Driver, CheckVersion, StartSession, Reopen, Probe, OpenWindow, RequestWindow, SkipToHeader,
      ReadHeader, ReadFails, Drain, WindowEnds, Finish, Cleanup, MarkValid, Restart, NextCycle, Reset,
      Boot, ModemSends, ModemFails, Lose, NewImage, vars
<1> QED
  BY <1>2, <1>3, <1>4

Road ==
  /\ pc = "start" => RoadLeft = 3 * Partition + 5
  /\ pc = "probe" => RoadLeft = 3 * Partition + 4
  /\ pc = "window" => RoadLeft = 3 * ToGo + 3
  /\ pc = "request" => RoadLeft = 3 * ToGo + 2
  /\ pc \in {"header", "block", "drain"} => RoadLeft = 3 * ToGo + 1
  /\ pc = "cleanup" \/ ~Updating => RoadLeft = 0

LEMMA RoadIs == Road
  BY DEF Road, RoadLeft, Updating

LEMMA RoadThen == Road'
  BY RoadIs, PTL

LEMMA CountsAreDown == ASSUME IInv PROVE CountsDown
<1>1. /\ Attempts \in Nat /\ attempt \in 1 .. Attempts /\ Partition \in Nat /\ total \in Nat
      /\ offset \in Nat /\ len \in Nat /\ stream \in Seq(Token) /\ source.left \in Nat
  BY DEF IInv, TypeOK
<1>2. ToGo \in Nat
  BY <1>1 DEF ToGo
<1>3. RoundsLeft \in Nat
  BY <1>1 DEF RoundsLeft
<1>4. RoadLeft \in Nat
  <2>1. \/ ~Updating \/ pc \in {"start", "probe", "cleanup"}
        \/ pc \in {"window", "request", "header", "block", "drain"}
    BY DEF Updating
  <2> QED
    BY <1>1, <1>2, <2>1, RoadIs DEF Road
<1>5. LineLeft \in Nat
  <2>1. Len(stream) \in Nat
    BY <1>1, LenProperties
  <2> QED
    BY <1>1, <2>1 DEF LineLeft
<1> QED
  BY <1>3, <1>4, <1>5 DEF CountsDown

\* Each step makes less of one of them, and nothing more of those before it.
LEMMA StepsNearer ==
  ASSUME IInv, IInv', Brought, Updating, Updating', Next
  PROVE  NewImage \/ Nearer
<1>1. /\ Attempts \in Nat /\ attempt \in 1 .. Attempts /\ Partition \in Nat /\ total \in Nat
      /\ offset \in Nat /\ len \in Nat /\ stream \in Seq(Token) /\ source.left \in Nat
      /\ wgot \in Nat
      /\ stream' \in Seq(Token) /\ Len(stream) \in Nat /\ Len(stream') \in Nat
      /\ source.sending \in BOOLEAN
  BY LenProperties DEF IInv, TypeOK
<1>2. /\ ToGo \in Nat /\ (UNCHANGED <<total, offset>> => ToGo' = ToGo)
      /\ pc = "drain" => offset < total
  BY <1>1 DEF ToGo, IInv, Fits, InWindow
<1> USE <1>1
<1>3. CASE StartSession
  <2>1. pc = "start" /\ pc' \in {"probe", "cleanup"} /\ attempt' = attempt
    BY <1>3 DEF StartSession, Reopen
  <2> QED
    BY <2>1, RoadIs, RoadThen DEF Nearer, RoundsLeft, Road
<1>4. CASE Probe
  <2>1. pc = "probe" /\ attempt' = attempt /\ offset' = 0 /\ total' = Size[image]
        /\ Size[image] \in Nat
        /\ \/ pc' = "window" /\ Size[image] <= Partition
           \/ pc' = "cleanup"
    BY <1>4, VersionsAre DEF Probe, MayBegin, IInv, TypeOK
  <2>2. ToGo' = Size[image]
    BY <2>1 DEF ToGo
  <2> QED
    BY <2>1, <2>2, RoadIs, RoadThen DEF Nearer, RoundsLeft, Road
<1>5. CASE OpenWindow
  <2>1. pc = "window" /\ pc' \in {"request", "cleanup"} /\ UNCHANGED <<attempt, total, offset>>
    BY <1>5 DEF OpenWindow, Reopen
  <2> QED
    BY <1>2, <2>1, RoadIs, RoadThen DEF Nearer, RoundsLeft, Road
<1>6. CASE RequestWindow
  <2>1. pc = "request" /\ pc' \in {"header", "cleanup"} /\ UNCHANGED <<attempt, total, offset>>
    BY <1>6 DEF RequestWindow
  <2> QED
    BY <1>2, <2>1, RoadIs, RoadThen DEF Nearer, RoundsLeft, Road
<1>7. ASSUME stream # <<>>, stream' = Tail(stream), source' = source, UNCHANGED <<attempt, total, offset>>,
             \/ pc' = pc
             \/ /\ pc \in {"header", "block", "drain"}
                /\ pc' \in {"header", "block", "drain", "cleanup"}
      PROVE  Nearer
  <2>1. Len(stream') = Len(stream) - 1
    BY <1>7, HeadTailProperties
  <2>2. LineLeft' < LineLeft
    BY <1>7, <2>1 DEF LineLeft
  <2>3. RoadLeft' = RoadLeft \/ RoadLeft' < RoadLeft
    <3>1. CASE pc' = pc
      BY <1>2, <1>7, <3>1 DEF RoadLeft
    <3>2. CASE pc' # pc
      BY <1>2, <1>7, <3>2, RoadIs, RoadThen DEF Road
    <3> QED
      BY <3>1, <3>2
  <2> QED
    BY <1>7, <2>2, <2>3 DEF Nearer, RoundsLeft
<1>8. CASE SkipToHeader \/ ReadHeader \/ WriteByte \/ Drain \/ Lose
  <2>1. stream # <<>> /\ stream' = Tail(stream) /\ source' = source /\ UNCHANGED <<attempt, total, offset>>
    BY <1>8 DEF SkipToHeader, ReadHeader, WriteByte, Drain, Lose
  <2>2. \/ pc' = pc
        \/ /\ pc \in {"header", "block", "drain"}
           /\ pc' \in {"header", "block", "drain", "cleanup"}
    BY <1>8 DEF SkipToHeader, ReadHeader, WriteByte, AfterBlock, Drain, Lose
  <2> QED
    BY <1>7, <2>1, <2>2
<1>9. CASE ReadFails
  <2>1. pc \in {"header", "block"} /\ pc' = "cleanup" /\ UNCHANGED <<attempt, total, offset>>
    BY <1>9 DEF ReadFails
  <2> QED
    BY <1>2, <2>1, RoadIs, RoadThen DEF Nearer, RoundsLeft, Road
<1>10. CASE WindowEnds
  <2>1. pc = "drain" /\ pc' = "window" /\ offset' = offset + wgot /\ UNCHANGED <<attempt, total>>
        /\ wgot > 0
    BY <1>10 DEF WindowEnds, NextOffset, Brought
  <2>2. ToGo' + 1 <= ToGo /\ ToGo' \in Nat
    BY <1>2, <2>1 DEF ToGo
  <2>3. RoadLeft = 3 * ToGo + 1 /\ RoadLeft' = 3 * ToGo' + 3
    BY <2>1, RoadIs, RoadThen DEF Road
  <2>4. \A a, b \in Nat : b + 1 <= a => 3 * b + 3 < 3 * a + 1
    OBVIOUS
  <2>5. RoadLeft' < RoadLeft
    BY <1>2, <2>2, <2>3, <2>4
  <2> QED
    BY <2>1, <2>5 DEF Nearer, RoundsLeft
<1>11. CASE Finish \/ Cleanup
  <2>1. attempt' = Smaller(attempt + 1, Attempts) /\ attempt < Attempts
    BY <1>11 DEF Finish, Cleanup, Updating
  <2> QED
    BY <2>1 DEF Smaller, Nearer, RoundsLeft
<1>12. CASE ModemSends
  <2>1. UNCHANGED <<pc, attempt, total, offset>> /\ source.sending /\ stream = <<>>
    BY <1>12 DEF ModemSends
  <2>2. LineLeft' < LineLeft
    <3>1. CASE stream' = <<Eol, Header(0), OK>> /\ source' = Silent
      BY <2>1, <3>1 DEF LineLeft, Silent
    <3>2. ASSUME NEW n \in 1 .. Smaller(Block, source.left),
                 stream' = <<Eol, Header(n)>> \o Bytes(source.v, source.next, n),
                 source' = [source EXCEPT !.next = @ + n, !.left = @ - n]
          PROVE  LineLeft' < LineLeft
      <4>1. n \in Nat /\ n > 0 /\ n <= source.left
        <5>1. Smaller(Block, source.left) \in Nat /\ Smaller(Block, source.left) <= source.left
          BY DEF Smaller
        <5>2. \A k \in Nat : \A i \in 1 .. k : i \in Nat /\ i > 0 /\ i <= k
          OBVIOUS
        <5> QED
          BY <5>1, <5>2
      <4>2. source.v \in Versions /\ source.next \in Nat /\ source.next > 0
        <5>1. source \in [v : Versions, next : Nat \ {0}, left : Nat, sending : BOOLEAN]
          BY DEF IInv, TypeOK
        <5> QED
          BY <5>1
      <4>3. Bytes(source.v, source.next, n) \in Seq(Token) /\ Len(Bytes(source.v, source.next, n)) = n
        BY <4>1, <4>2, BytesAre
      <4>4. Len(stream') = 2 + n
        <5>1. <<Eol, Header(n)>> \in Seq(Token) /\ Len(<<Eol, Header(n)>>) = 2
          BY <4>1, TokensAre
        <5>2. \A b \in Seq(Token) : Len(<<Eol, Header(n)>> \o b) = 2 + Len(b)
          BY <5>1, ConcatProperties
        <5> QED
          BY <3>2, <4>3, <5>2
      <4>5. source'.left = source.left - n /\ source'.sending = source.sending
        BY <3>2 DEF IInv, TypeOK
      <4> QED
        BY <2>1, <4>1, <4>4, <4>5 DEF LineLeft
    <3> QED
      BY <1>12, <3>1, <3>2 DEF ModemSends
  <2> QED
    BY <1>2, <2>1, <2>2 DEF Nearer, RoundsLeft, RoadLeft
<1>13. CASE ModemFails
  <2>1. UNCHANGED <<pc, attempt, total, offset>> /\ source.sending /\ stream = <<>>
        /\ stream' \in {<<>>, <<Error>>} /\ source' = Silent
    BY <1>13 DEF ModemFails
  <2>2. LineLeft' < LineLeft
    <3>1. Len(<<>>) = 0 /\ Len(<<Error>>) = 1
      OBVIOUS
    <3>2. Len(stream') = 0 \/ Len(stream') = 1
      BY <2>1, <3>1, Zenon
    <3>3. Len(stream) = 0
      BY <2>1, <3>1, Zenon
    <3>4. LineLeft = 4 * (source.left + 1) /\ LineLeft' = Len(stream')
      <4>1. source'.sending = FALSE
        BY <2>1 DEF Silent
      <4> QED
        BY <2>1, <3>3, <4>1 DEF LineLeft
    <3>5. 0 < 4 * (source.left + 1) /\ 1 < 4 * (source.left + 1)
      OBVIOUS
    <3> QED
      BY <3>2, <3>4, <3>5
  <2> QED
    BY <1>2, <2>1, <2>2 DEF Nearer, RoundsLeft, RoadLeft
<1>14. ASSUME CheckVersion \/ MarkValid \/ Restart \/ NextCycle \/ Reset PROVE FALSE
  BY <1>14 DEF CheckVersion, MarkValid, Restart, NextCycle, Reset, Boot, Updating
<1> QED
  BY <1>3, <1>4, <1>5, <1>6, <1>8, <1>9, <1>10, <1>11, <1>12, <1>13, <1>14 DEF Next, Driver

\* Whatever fails, is lost or changes on the way, each step between the first attempt's start and
\* the last one's end makes less what is left of it: attempts, or the way through this one, or
\* the tokens still to be read (ota_service.cpp:37-54, sim4g_module.cpp:1040-1282).  Only
\* a new image on the server leaves it as it is.  DownloadEnds rests on it.
THEOREM AttemptsRunOut ==
  Spec => []CountsDown /\ [][Updating /\ Updating' => NewImage \/ Nearer]_vars
<1>1. Init => IInv /\ Brought
  BY InitHolds, BroughtHolds
<1>2. (IInv /\ Brought) /\ [Next]_vars => (IInv /\ Brought)'
  BY StepHolds, BroughtHolds
<1>3. IInv /\ Brought => CountsDown
  BY CountsAreDown
<1>4. (IInv /\ Brought) /\ (IInv /\ Brought)' /\ [Next]_vars =>
        [Updating /\ Updating' => NewImage \/ Nearer]_vars
  BY StepsNearer
<1> QED
  BY <1>1, <1>2, <1>3, <1>4, PTL DEF Spec

\* What is left of a trial: the restart into the new image, and its confirmation.
TrialLeft == CASE boot = "spare" -> 2 [] boot = "trial" -> 1 [] OTHER -> 0

\* An image that was chosen is restarted into at once, and one on trial does nothing before it
\* confirms itself (sync_task.cpp:129-136, app_main.cpp:39-50): no step lengthens the trial, every boot
\* takes off one of the two, and so does every other step of the driver unless the confirmation has
\* failed.  TrialEnds rests on it.
THEOREM TrialsAreShort ==
  Spec => [][boot # "running" => /\ TrialLeft' <= TrialLeft
                                 /\ Restart \/ NextCycle \/ Reset => TrialLeft' < TrialLeft
                                 /\ Driver => TrialLeft' < TrialLeft \/ trouble']_vars
<1>1. ASSUME IInv, [Next]_vars, boot # "running"
      PROVE  /\ TrialLeft' <= TrialLeft
             /\ Restart \/ NextCycle \/ Reset => TrialLeft' < TrialLeft
             /\ Driver => TrialLeft' < TrialLeft \/ trouble'
  <2>1. \/ boot = "spare" /\ pc = "restart"
        \/ boot = "trial" /\ pc = "boot"
        \/ boot = "trial" /\ trouble /\ ~Writing
    BY <1>1 DEF IInv, TypeOK, ChosenAt
  <2>2. CASE Restart \/ NextCycle \/ Reset
    <3>1. \/ boot = "spare" /\ boot' = "trial"
          \/ boot = "trial" /\ boot' = "running"
      BY <2>1, <2>2 DEF Restart, NextCycle, Reset, Boot
    <3> QED
      BY <3>1 DEF TrialLeft
  <2>3. CASE MarkValid
    <3>1. boot' = "running" \/ (boot' = boot /\ trouble')
      BY <2>3 DEF MarkValid, Note
    <3>2. ~(Restart \/ NextCycle \/ Reset) /\ boot = "trial"
      BY <2>1, <2>3 DEF MarkValid, Restart, NextCycle, Reset, Boot
    <3> QED
      BY <3>1, <3>2 DEF TrialLeft
  <2>4. CASE ~MarkValid /\ ~(Restart \/ NextCycle \/ Reset)
    <3>1. ~Writing /\ (Driver => boot = "trial" /\ pc # "boot" /\ trouble)
      BY <2>1, <2>4
      DEF Driver, CheckVersion, StartSession, Probe, OpenWindow, RequestWindow, SkipToHeader, ReadHeader,
          WriteByte, ReadFails, Drain, WindowEnds, Finish, Cleanup, Restart, Writing
    <3>2. boot' = boot /\ (Driver => trouble')
      BY <1>1, <2>4, <3>1
      DEF Next, Driver, CheckVersion, StartSession, Reopen, Probe, TermSafe, OpenWindow, RequestWindow,
          SkipToHeader, ReadHeader, WriteByte, ReadFails, Drain, WindowEnds, Finish, Cleanup, ModemSends,
          ModemFails, Lose, NewImage, Restart, Note, slots, vars, Writing
    <3> QED
      BY <2>4, <3>1, <3>2 DEF TrialLeft
  <2> QED
    BY <2>2, <2>3, <2>4
<1>2. IInv /\ [Next]_vars
        => [boot # "running" => /\ TrialLeft' <= TrialLeft
                                /\ Restart \/ NextCycle \/ Reset => TrialLeft' < TrialLeft
                                /\ Driver => TrialLeft' < TrialLeft \/ trouble']_vars
  BY <1>1
<1> QED
  BY <1>2, Invariance, PTL DEF Spec

=============================================================================
