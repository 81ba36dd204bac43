--------------------------- MODULE FirmwareSlots ---------------------------
(***************************************************************************)
(* What an update over the air promises: a chip with two slots for its     *)
(* firmware always has a whole image to run.                               *)
(*                                                                         *)
(* The chip runs from one slot.  The other, the spare, is erased for as    *)
(* many bytes as the new image has, filled from its beginning, and chosen  *)
(* only when it holds a whole image and nothing beside it: what is written *)
(* past the erased part is not sure to be kept.  The next boot runs it on  *)
(* trial: the boot after that goes back to the old image, still whole in   *)
(* the spare, unless the new one has been confirmed in between.            *)
(***************************************************************************)
EXTENDS Naturals, Sequences

CONSTANTS
  Images,     (* the contents that are a whole image                       *)
  Room        (* the size of a slot                                        *)

VARIABLES
  running,    (* contents of the slot the chip runs from                   *)
  spare,      (* contents of the other one, since it was last erased       *)
  erased,     (* how many bytes of the spare were erased for the update    *)
  choice      (* "running"; "spare" once it is chosen; "trial"             *)

fsVars == <<running, spare, erased, choice>>

FSInit == running \in Images /\ spare = <<>> /\ erased = 0 /\ choice = "running"

\* An update begins; while an image is on trial there is none, or nothing to go back to.
FSErase ==
  /\ choice = "running"
  /\ erased' \in 0 .. Room
  /\ spare' = <<>>
  /\ UNCHANGED <<running, choice>>

FSWrite ==
  /\ choice = "running" /\ 0 < erased /\ Len(spare) < Room
  /\ Len(spare') = Len(spare) + 1
  /\ spare' = Append(spare, spare'[Len(spare')])
  /\ UNCHANGED <<running, erased, choice>>

\* The update fails, or a reset cuts it short.
FSGiveUp ==
  /\ choice = "running"
  /\ erased' = 0
  /\ UNCHANGED <<running, spare, choice>>

FSChoose ==
  /\ choice = "running" /\ spare \in Images /\ Len(spare) <= erased
  /\ choice' = "spare" /\ erased' = 0
  /\ UNCHANGED <<running, spare>>

\* The boot of the new image, and the one that goes back.
FSSwap(from, to) ==
  /\ choice = from /\ choice' = to
  /\ running' = spare /\ spare' = running
  /\ UNCHANGED erased

FSConfirm ==
  /\ choice = "trial" /\ choice' = "running"
  /\ UNCHANGED <<running, spare, erased>>

FSNext ==
  \/ FSErase \/ FSWrite \/ FSGiveUp \/ FSChoose
  \/ FSSwap("spare", "trial") \/ FSSwap("trial", "running")
  \/ FSConfirm

FSSpec == FSInit /\ [][FSNext]_fsVars
=============================================================================
