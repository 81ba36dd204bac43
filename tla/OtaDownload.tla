---------------------------- MODULE OtaDownload ----------------------------
(***************************************************************************)
(* The firmware image over the modem: OtaService's version check and       *)
(* attempts, Sim4GModule::downloadOtaImage, and the boots that follow, in  *)
(* which app_main confirms a new image or the bootloader goes back.        *)
(*                                                                         *)
(* A first HTTPACTION tells the size.  The image is then fetched in        *)
(* windows, each an HTTP session with a Range of its own.  The modem       *)
(* streams a window as sub-blocks, "+HTTPREAD: n" and n bytes, and closes  *)
(* it with "+HTTPREAD: 0" and "OK".  The driver reads a header, writes     *)
(* the n bytes that follow to flash whatever they are, and asks for the    *)
(* next window from where this one ended.  Bytes may be lost (the UART     *)
(* buffer holds 2048, and flash is written in between), the server may     *)
(* get a new image half way, answer less or more than was asked, or all of *)
(* it.                                                                     *)
(*                                                                         *)
(* SimHttp models the AT commands themselves, with late answers; here a    *)
(* command has an outcome.                                                 *)
(***************************************************************************)
EXTENDS Naturals, Sequences, SequencesExt

CONSTANTS
  Size,          (* the image's size, for each version the server may have  *)
  Partition,     (* part->size                                              *)
  Window,        (* kOtaSimWindowSize                                       *)
  Block,         (* the modem's longest sub-block                           *)
  Attempts,      (* kOtaMaxAttempts                                         *)
  TotalTimeout,  (* kOtaSimTotalTimeoutMs, in kOtaSimReadTimeoutMs          *)
  Slow,          (* may a read take as long as its timeout?                 *)
  Faults,        (* may commands, the modem and flash fail?                 *)
  ShortWindows,  (* may the server send less than the range?                *)
  LongWindows,   (* may it send more, up to the end of the image?           *)
  WholeFile,     (* may the server ignore the range?                        *)
  MaxLost        (* bound: tokens the UART loses                            *)

Versions == DOMAIN Size

ASSUME OtaDownloadAssumption ==
  /\ Size \in Seq(Nat \ {0}) /\ Size # <<>>
  /\ Partition \in Nat
  /\ Window \in Nat \ {0} /\ Block \in Nat \ {0} /\ Attempts \in Nat \ {0}
  /\ TotalTimeout \in Nat \ {0} /\ MaxLost \in Nat
  /\ Slow \in BOOLEAN /\ Faults \in BOOLEAN /\ ShortWindows \in BOOLEAN
  /\ LongWindows \in BOOLEAN /\ WholeFile \in BOOLEAN

\* What comes over the UART: bytes of an image, headers, line ends and OK.
Byte(v, i) == [kind |-> "byte", v |-> v, n |-> i]
Header(n) == [kind |-> "header", v |-> 0, n |-> n]
Eol == [kind |-> "eol", v |-> 0, n |-> 0]
OK == [kind |-> "OK", v |-> 0, n |-> 0]
Error == [kind |-> "ERROR", v |-> 0, n |-> 0]

Bytes(v, from, n) == [i \in 1 .. n |-> Byte(v, from + i - 1)]
Image(v) == Bytes(v, 1, Size[v])

Smaller(a, b) == IF a < b THEN a ELSE b

VARIABLES
  pc, attempt,      (* where the update is, and in which attempt            *)
  total,            (* the size the probe told                              *)
  offset,           (* what the windows so far have brought                 *)
  len, wgot,        (* this window's length, and what its blocks brought    *)
  blk, remaining,   (* this block's length, and what is left to read of it  *)
  inited,           (* http_inited_                                         *)
  clock,            (* time since the deadline was set                      *)
  running,          (* the slot the chip runs from                          *)
  flash,            (* the other one, as esp_ota_begin and _write left it   *)
  boot,             (* otadata: boot "running"; "spare"; or "running", which *)
                    (* is on "trial" (ESP_OTA_IMG_PENDING_VERIFY)           *)
  open,             (* the modem's HTTP service is initialized              *)
  source,           (* what the modem has yet to send of the window         *)
  stream,           (* what it has sent and the driver has not read         *)
  image,            (* the version the server has                           *)
  lost,             (* bound and history: tokens lost                       *)
  trouble           (* history: since the boot, something beside the driver *)
                    (* went wrong                                           *)

window == <<len, wgot, blk, remaining>>
slots == <<running, flash, boot>>
modem == <<open, source, stream>>
vars == <<pc, attempt, total, offset, window, inited, clock, slots, modem, image, lost, trouble>>

Silent == [v |-> 1, next |-> 1, left |-> 0, sending |-> FALSE]

\* The image the chip left the factory with, of a version the server never had.
Factory == <<Byte(0, 1)>>

Init ==
  /\ pc = "check" /\ attempt = 1
  /\ total = 0 /\ offset = 0 /\ len = 0 /\ wgot = 0 /\ blk = 0 /\ remaining = 0
  /\ inited = FALSE /\ clock = 0
  /\ running = Factory /\ flash = <<>> /\ boot = "running"
  /\ open = FALSE /\ source = Silent /\ stream = <<>>
  /\ image = 1 /\ lost = 0 /\ trouble = FALSE

-----------------------------------------------------------------------------
(* The server, the modem and the UART.                                     *)

NewImage ==
  /\ image + 1 \in Versions
  /\ image' = image + 1
  /\ trouble' = TRUE
  /\ UNCHANGED <<pc, attempt, total, offset, window, inited, clock, slots, modem, lost>>

\* The next sub-block, or the end of the window.
ModemSends ==
  /\ source.sending /\ stream = <<>>
  /\ \/ \E n \in 1 .. Smaller(Block, source.left) :
          /\ stream' = <<Eol, Header(n)>> \o Bytes(source.v, source.next, n)
          /\ source' = [source EXCEPT !.next = @ + n, !.left = @ - n]
     \/ /\ source.left = 0
        /\ stream' = <<Eol, Header(0), OK>>
        /\ source' = Silent
  /\ UNCHANGED <<pc, attempt, total, offset, window, inited, clock, slots, open, image, lost,
                 trouble>>

ModemFails ==
  /\ Faults /\ source.sending /\ stream = <<>>
  /\ stream' \in {<<>>, <<Error>>}
  /\ source' = Silent
  /\ trouble' = TRUE
  /\ UNCHANGED <<pc, attempt, total, offset, window, inited, clock, slots, open, image, lost>>

Lose ==
  /\ lost < MaxLost /\ stream # <<>>
  /\ stream' = Tail(stream)
  /\ lost' = lost + 1
  /\ trouble' = TRUE
  /\ UNCHANGED <<pc, attempt, total, offset, window, inited, clock, slots, open, source,
                 image>>

\* What a read takes of the clock.
Waits == IF Slow THEN 0 .. 1 ELSE {0}

\* What went wrong is remembered.
Note(problem) == trouble' = IF problem THEN TRUE ELSE trouble

\* A read that takes all its time counts as trouble.
Read == \E w \in Waits : clock' = clock + w /\ Note(w > 0)

-----------------------------------------------------------------------------
(* Sessions.                                                               *)

\* HTTPTERM and HTTPINIT: obeyed and answered, refused, or obeyed with no answer in time.
Answers == IF Faults THEN {"OK", "ERROR", "none"} ELSE {"OK"}

\* Mutated: the flag is not set for a window's session.
Reopen_NotMarked(to) ==
  \E term, init \in Answers :
    LET stale == open /\ ~(inited /\ term # "ERROR")
        good == ~stale /\ init = "OK"
    IN /\ open' = (stale \/ init # "ERROR")
       /\ inited' = (good /\ to = "probe")
       /\ pc' = IF good THEN to ELSE "cleanup"
       /\ Note((inited /\ term # "OK") \/ init # "OK")

\* httpTermSafe, then HTTPINIT, which a session that is still open makes an error.
Reopen(to) ==
  \E term, init \in Answers :
    LET stale == open /\ ~(inited /\ term # "ERROR")
        good == ~stale /\ init = "OK"
    IN /\ open' = (stale \/ init # "ERROR")
       /\ inited' = good
       /\ pc' = IF good THEN to ELSE "cleanup"
       /\ Note((inited /\ term # "OK") \/ init # "OK")

\* httpTermSafe at the end of a session.
TermSafe(problem) ==
  \E term \in Answers :
    /\ open' = (open /\ ~(inited /\ term # "ERROR"))
    /\ inited' = FALSE
    /\ Note(problem \/ (inited /\ term # "OK"))

\* checkAndUpdate: the version the server tells may not come, and is compared with the
\* firmware's own.
CheckVersion ==
  /\ pc = "check"
  /\ \/ pc' = (IF running = Image(image) THEN "over" ELSE "start") /\ UNCHANGED trouble
     \/ Faults /\ pc' = "over" /\ Note(TRUE)
  /\ UNCHANGED <<attempt, total, offset, window, inited, clock, slots, modem, image, lost>>

\* httpInitAndSetBearer.
StartSession ==
  /\ pc = "start"
  /\ Reopen("probe")
  /\ UNCHANGED <<attempt, total, offset, window, clock, slots, source, stream, image, lost>>

\* esp_ota_begin refuses while the image that runs is on trial.
MayBegin == Size[image] <= Partition /\ boot = "running"

\* The size, and esp_ota_begin; the deadline is set after it.
Probe ==
  /\ pc = "probe"
  /\ total' = Size[image]
  /\ \/ MayBegin /\ pc' = "window" /\ flash' = <<>> /\ TermSafe(FALSE)
     \/ /\ ~MayBegin \/ Faults
        /\ pc' = "cleanup" /\ UNCHANGED <<open, inited>>
        /\ flash' \in {flash} \cup (IF MayBegin THEN {<<>>} ELSE {})
        /\ Note(Size[image] <= Partition)
  /\ offset' = 0 /\ clock' = 0
  /\ UNCHANGED <<attempt, window, running, boot, source, stream, image, lost>>

-----------------------------------------------------------------------------
(* Windows.                                                                *)

DeadlinePassed == clock >= TotalTimeout

OpenWindow ==
  /\ pc = "window" /\ offset < total
  /\ IF DeadlinePassed THEN pc' = "cleanup" /\ UNCHANGED <<open, inited, trouble>>
     ELSE Reopen("request")
  /\ source' = Silent /\ stream' = <<>>
  /\ UNCHANGED <<attempt, total, offset, window, clock, slots, image, lost>>

\* What the image has from offset on, and what of it is in a range of win bytes.
Rest == IF offset < Size[image] THEN Size[image] - offset ELSE 0
There(win) == Smaller(win, Rest)

\* What the server may answer to it: some of that, all that follows, nothing, or the whole file.
RangeAnswer(status, n, from) == [status |-> status, n |-> n, from |-> from]
RangeAnswers(win) ==
  {RangeAnswer(206, n, offset + 1) :
     n \in (IF ShortWindows THEN 1 ELSE There(win)) .. (IF LongWindows THEN Rest ELSE There(win))}
  \cup (IF There(win) = 0 \/ Faults THEN {RangeAnswer(500, 0, 1)} ELSE {})
  \cup (IF WholeFile THEN {RangeAnswer(200, Size[image], 1)} ELSE {})

\* Mutated: any success will do.
Usable_AnySuccess(a) == a.status \in {200, 206}

\* Not 200: the range was ignored and the whole file would come again.
Usable(a) == a.status = 206 /\ a.n > 0

\* URL, Range, HTTPACTION and HTTPREAD.
RequestWindow ==
  /\ pc = "request"
  /\ \E w \in Waits, a \in RangeAnswers(Smaller(total - offset, Window)) :
       /\ clock' = clock + w
       /\ Note(w > 0 \/ (a.status # 206 /\ There(Window) > 0))
       /\ pc' = IF Usable(a) THEN "header" ELSE "cleanup"
       /\ len' = a.n
       /\ source' = [v |-> image, next |-> a.from, left |-> a.n, sending |-> Usable(a)]
  /\ wgot' = 0 /\ blk' = 0 /\ remaining' = 0 /\ stream' = <<>>
  /\ UNCHANGED <<attempt, total, offset, inited, slots, open, image, lost>>

-----------------------------------------------------------------------------
(* The stream of a window.                                                 *)

NothingComes == stream = <<>> /\ ~source.sending

\* readHttpReadLen skips whatever is no header.
SkipToHeader ==
  /\ pc = "header" /\ stream # <<>> /\ Head(stream).kind \notin {"header", "ERROR"}
  /\ stream' = Tail(stream)
  /\ UNCHANGED <<pc, attempt, total, offset, window, inited, clock, slots, open, source,
                 image, lost, trouble>>

\* A block is announced; its length 0 ends the window too early.
ReadHeader ==
  /\ pc = "header" /\ stream # <<>> /\ Head(stream).kind = "header"
  /\ stream' = Tail(stream)
  /\ Read
  /\ blk' = Head(stream).n /\ remaining' = Head(stream).n
  /\ pc' = IF Head(stream).n > 0 THEN "block" ELSE "cleanup"
  /\ UNCHANGED <<attempt, total, offset, len, wgot, inited, slots, open, source, image, lost>>

\* Where the block that is all read leaves the window.
AfterBlock == IF wgot + blk < len THEN "header" ELSE "drain"

\* blk bytes are written, whatever they are.
WriteByte ==
  /\ pc = "block" /\ stream # <<>> /\ Len(flash) < Partition
  /\ stream' = Tail(stream)
  /\ flash' = Append(flash, Head(stream))
  /\ remaining' = remaining - 1
  /\ IF remaining = 1 THEN wgot' = wgot + blk /\ pc' = AfterBlock ELSE UNCHANGED <<wgot, pc>>
  /\ Read
  /\ UNCHANGED <<attempt, total, offset, len, blk, inited, running, boot, open, source, image,
                 lost>>

\* Mutated: a read that brings nothing is tried again for ever.
ReadFails_NoTimeout ==
  /\ pc = "header" /\ stream # <<>> /\ Head(stream).kind = "ERROR"
  /\ pc' = "cleanup"
  /\ UNCHANGED <<attempt, total, offset, window, inited, clock, slots, modem, image, lost,
                 trouble>>

\* An error answer, a read that times out, or an esp_ota_write that fails, as one past the end of
\* the partition does.
ReadFails ==
  /\ \/ pc = "header" /\ stream # <<>> /\ Head(stream).kind = "ERROR"
     \/ pc = "block" /\ stream # <<>> /\ Len(flash) = Partition
     \/ pc \in {"header", "block"} /\ (NothingComes \/ Faults)
  /\ Note(~NothingComes)
  /\ pc' = "cleanup"
  /\ UNCHANGED <<attempt, total, offset, window, inited, clock, slots, modem, image, lost>>

Drain ==
  /\ pc = "drain" /\ stream # <<>> /\ Head(stream).kind # "OK"
  /\ stream' = Tail(stream)
  /\ UNCHANGED <<pc, attempt, total, offset, window, inited, clock, slots, open, source,
                 image, lost, trouble>>

\* Mutated: the next window starts where this one was to end.
NextOffset_Asked == offset + Smaller(total - offset, Window)

NextOffset == offset + wgot

\* drainToOk returns at OK or after a second.
WindowEnds ==
  /\ pc = "drain"
  /\ NothingComes \/ Faults \/ (stream # <<>> /\ Head(stream).kind = "OK")
  /\ offset' = NextOffset
  /\ pc' = "window"
  /\ UNCHANGED <<attempt, total, window, inited, clock, slots, modem, image, lost,
                 trouble>>

-----------------------------------------------------------------------------
(* The end of an attempt.                                                  *)

\* esp_ota_end checks the image against the hash it carries.
Verified == \E v \in Versions : flash = Image(v)

\* Mutated: esp_ota_end's verdict is ignored.
Finish_Unchecked ==
  /\ pc = "window" /\ offset >= total
  /\ LET whole == offset = total
     IN \/ /\ whole /\ TermSafe(FALSE)
           /\ boot' = "spare" /\ pc' = "restart" /\ UNCHANGED attempt
        \/ /\ ~whole \/ Faults
           /\ TermSafe(whole)
           /\ pc' = (IF attempt < Attempts THEN "start" ELSE "gaveUp")
           /\ attempt' = Smaller(attempt + 1, Attempts)
           /\ UNCHANGED boot
  /\ UNCHANGED <<total, offset, window, clock, running, flash, source, stream, image, lost>>

\* Mutated: an image that came longer than it was probed is good as well.
Finish_Longer ==
  /\ pc = "window" /\ offset >= total
  /\ LET whole == Verified
     IN \/ /\ whole /\ TermSafe(FALSE)
           /\ boot' = "spare" /\ pc' = "restart" /\ UNCHANGED attempt
        \/ /\ ~whole \/ Faults
           /\ TermSafe(whole)
           /\ pc' = (IF attempt < Attempts THEN "start" ELSE "gaveUp")
           /\ attempt' = Smaller(attempt + 1, Attempts)
           /\ UNCHANGED boot
  /\ UNCHANGED <<total, offset, window, clock, running, flash, source, stream, image, lost>>

\* The loop is over: esp_ota_abort unless all has come, esp_ota_end, esp_ota_set_boot_partition.
Finish ==
  /\ pc = "window" /\ offset >= total
  /\ LET whole == offset = total /\ Verified
     IN \/ /\ whole /\ TermSafe(FALSE)
           /\ boot' = "spare" /\ pc' = "restart" /\ UNCHANGED attempt
        \/ /\ ~whole \/ Faults
           /\ TermSafe(whole)
           /\ pc' = (IF attempt < Attempts THEN "start" ELSE "gaveUp")
           /\ attempt' = Smaller(attempt + 1, Attempts)
           /\ UNCHANGED boot
  /\ UNCHANGED <<total, offset, window, clock, running, flash, source, stream, image, lost>>

\* Every failure before it.
Cleanup ==
  /\ pc = "cleanup"
  /\ TermSafe(FALSE)
  /\ pc' = IF attempt < Attempts THEN "start" ELSE "gaveUp"
  /\ attempt' = Smaller(attempt + 1, Attempts)
  /\ source' = Silent /\ stream' = <<>>
  /\ UNCHANGED <<total, offset, window, clock, slots, image, lost>>

-----------------------------------------------------------------------------
(* Boots.                                                                  *)

\* Mutated: a new image that does not confirm itself.
MarkValid_Not ==
  /\ pc = "boot"
  /\ pc' = "check"
  /\ UNCHANGED <<boot, attempt, total, offset, window, inited, clock, running, flash, modem, image,
                 lost, trouble>>

\* app_main begins by marking an image on trial as valid; when that fails it goes on all the same.
MarkValid ==
  /\ pc = "boot"
  /\ pc' = "check"
  /\ \/ boot' = "running" /\ UNCHANGED trouble
     \/ Faults /\ boot = "trial" /\ UNCHANGED boot /\ Note(TRUE)
  /\ UNCHANGED <<attempt, total, offset, window, inited, clock, running, flash, modem, image, lost>>

\* The bootloader runs the image that was chosen, on trial, and goes back from one that was on
\* trial and did not confirm itself.  RAM is lost, and the modem is powered again.
Boot ==
  /\ pc' = "boot" /\ attempt' = 1
  /\ IF boot = "running" THEN UNCHANGED slots
     ELSE /\ running' = flash /\ flash' = running
          /\ boot' = IF boot = "spare" THEN "trial" ELSE "running"
  /\ total' = 0 /\ offset' = 0 /\ len' = 0 /\ wgot' = 0 /\ blk' = 0 /\ remaining' = 0
  /\ inited' = FALSE /\ clock' = 0
  /\ open' = FALSE /\ source' = Silent /\ stream' = <<>>
  /\ trouble' = FALSE
  /\ UNCHANGED <<image, lost>>

\* esp_restart after an update.
Restart == pc = "restart" /\ Boot

\* The sync is over; the next one is an hour and some boots later.
NextCycle == pc \in {"over", "gaveUp"} /\ Boot

\* Anywhere else: the power fails, the firmware crashes, or the awake budget is over and the
\* scheduler sleeps in the middle of the download.
Reset == pc \notin {"restart", "over", "gaveUp"} /\ Boot

Driver == \/ CheckVersion \/ StartSession \/ Probe \/ OpenWindow \/ RequestWindow
          \/ SkipToHeader \/ ReadHeader \/ WriteByte \/ ReadFails \/ Drain \/ WindowEnds
          \/ Finish \/ Cleanup \/ MarkValid \/ Restart

Next == Driver \/ ModemSends \/ ModemFails \/ Lose \/ NewImage \/ NextCycle \/ Reset

Spec == Init /\ [][Next]_vars

\* The driver runs, and the modem sends what it has.
FairSpec == Spec /\ WF_vars(Driver) /\ WF_vars(ModemSends)

-----------------------------------------------------------------------------
(* Properties.                                                             *)

Token == [kind : {"byte", "header", "eol", "OK", "ERROR"}, v : Nat, n : Nat]

\* Type invariant; no count goes below zero and the attempts stay within kOtaMaxAttempts.
TypeOK ==
  /\ pc \in {"boot", "check", "start", "probe", "window", "request", "header", "block", "drain",
             "cleanup", "restart", "over", "gaveUp"}
  /\ attempt \in 1 .. Attempts
  /\ total \in Nat /\ offset \in Nat /\ len \in Nat /\ wgot \in Nat
  /\ blk \in Nat /\ remaining \in Nat /\ clock \in Nat
  /\ inited \in BOOLEAN /\ open \in BOOLEAN
  /\ running \in Seq(Token) /\ flash \in Seq(Token) /\ stream \in Seq(Token)
  /\ boot \in {"running", "spare", "trial"}
  /\ source \in [v : Versions, next : Nat \ {0}, left : Nat, sending : BOOLEAN]
  /\ image \in Versions /\ lost \in 0 .. MaxLost /\ trouble \in BOOLEAN

\* The next range starts at the first byte that is not in flash, whatever the server, the
\* modem and the UART do: no window is skipped, fetched twice or written over.
FlashFollowsOffset ==
  /\ pc \in {"window", "request"} => Len(flash) = offset
  /\ pc \in {"header", "drain"} => Len(flash) = offset + wgot
  /\ pc = "block" => Len(flash) = offset + wgot + (blk - remaining)

\* A window is asked for or being read: what esp_ota_begin has erased may be written.
Writing == pc \in {"window", "request", "header", "block", "drain"}

Slots == INSTANCE FirmwareSlots WITH
  Images <- {Factory} \cup {Image(v) : v \in Versions},
  Room <- Partition,
  spare <- flash,
  erased <- IF Writing THEN total ELSE 0,
  choice <- boot

\* The download implements FirmwareSlots, whatever is lost or changes on the way and whenever the
\* chip is reset: only a whole image that lies in what was erased is chosen (the driver writes
\* headers as payload once a byte is missing, and writes on past the erased part when a longer
\* image has taken the place of the one it probed), an image is left to go back to, and an image
\* that could not confirm itself is not given up for a third.
RefinesSlots == Slots!FSSpec

\* While nothing is lost, what is being written is the beginning of the server's image: no header,
\* line end or byte of another window among it, however windows and blocks are cut.
FlashIsImage == Writing /\ lost = 0 /\ image = 1 => IsPrefix(flash, Image(1))

\* The attempts are given up only when the image is too large or since the boot the modem, the
\* UART, flash or the server failed: with all of them working it is fetched and chosen, however
\* windows and blocks are cut, though a session is opened for each window and only the next one
\* closes it.
GivesUpInTrouble == pc = "gaveUp" => trouble \/ total > Partition

\* Whatever fails, the attempts come to an end and the sync cycle goes on, unless a reset cuts
\* them short.
DownloadEnds == pc = "start" ~> pc \in {"restart", "gaveUp", "boot"}

\* An image that was chosen does not stay on trial: the first thing it does is to confirm itself,
\* or a reset that comes before that goes back to the old one.  When the confirmation fails it is
\* on trial to the end of its sync, and the next boot goes back.
TrialEnds ==
  boot = "spare" ~> \/ boot = "running"
                    \/ boot = "trial" /\ trouble /\ pc \in {"over", "gaveUp"}

=============================================================================
