--------------------------- MODULE MCOtaDownload ---------------------------
(***************************************************************************)
(* The images the server offers, one after the other.                      *)
(***************************************************************************)
EXTENDS OtaDownload

\* An image of a window and a half; a longer one may replace it, and then one that is too large
\* for the partition.
ThreeImages == <<3, 4, 5>>
=============================================================================
