----------------------------- MODULE SessionLog -----------------------------
(***************************************************************************)
(* The text of a session log on its way to the server: appended line by    *)
(* line to a buffer of kSessionLogSize characters, copied into a record,   *)
(* and packed as a string of a JSON body.                                  *)
(*                                                                         *)
(* A text is a sequence of characters; "NUL" ends a C string.  "n" stands  *)
(* for any character that means nothing to JSON, and is also the letter of *)
(* the escape for a new line; "control" for a tab or any other control     *)
(* character but the ends of a line, such as a modem or a Wi-Fi name may   *)
(* bring into a log.                                                       *)
(***************************************************************************)
EXTENDS Naturals, Sequences, SequencesExt

CONSTANT Size       (* kSessionLogSize *)

ASSUME SizeAssumption == Size \in Nat /\ Size > 2

Char == {"n", "quote", "backslash", "newline", "control"}
Cells == [1 .. Size -> Char \cup {"NUL"}]

Smallest(a, b) == IF a < b THEN a ELSE b

\* The length of the text before the first NUL, and that text: what "%s" prints.
TextLength(cells) ==
  CHOOSE n \in 0 .. Size - 1 : cells[n + 1] = "NUL" /\ \A i \in 1 .. n : cells[i] # "NUL"

Text(cells) == [i \in 1 .. TextLength(cells) |-> cells[i]]

\* The cells with a text and its NUL written after the first len.
Written(cells, len, text) ==
  [i \in 1 .. Size |-> IF i <= len THEN cells[i]
                       ELSE IF i <= len + Len(text) THEN text[i - len]
                       ELSE IF i = len + Len(text) + 1 THEN "NUL"
                       ELSE cells[i]]

Cleared == [cells |-> [i \in 1 .. Size |-> "NUL"], len |-> 0]

\* Mutated: a line that does not fit is left out.
Appended_WholeLines(log, line) ==
  IF log.len + Len(line) >= Size THEN log
  ELSE [cells |-> Written(log.cells, log.len, line), len |-> log.len + Len(line)]

\* LogBuffer::vappendf.  vsnprintf has room for one character less than remain and returns
\* what it would have written: a log that is full is one longer than its text.
Appended(log, line) ==
  LET remain == Size - 1 - log.len
      n == Smallest(Len(line), remain)
      printed == Written(log.cells, log.len, SubSeq(line, 1, Smallest(Len(line), remain - 1)))
  IN IF log.len >= Size - 1 THEN log
     ELSE [cells |-> [printed EXCEPT ![log.len + n + 1] = "NUL"], len |-> log.len + n]

\* snprintf into LogMsg::text, and the length beside it.
Copied(log) ==
  [cells |-> Written(Cleared.cells, 0, Text(log.cells)), len |-> Smallest(log.len, Size - 1)]

\* Mutated: only the quote is escaped.
Escaped_QuoteOnly(c) ==
  CASE c = "quote" -> <<"backslash", c>>
    [] c = "newline" -> <<"backslash", "n">>
    [] OTHER -> <<c>>

\* What else is a control character goes out as it is.
Escaped(c) ==
  CASE c \in {"backslash", "quote"} -> <<"backslash", c>>
    [] c = "newline" -> <<"backslash", "n">>
    [] OTHER -> <<c>>

\* JsonPacker::packLog, the string it makes of text[0 .. len - 1].
Packed(record) == FlattenSeq([i \in 1 .. record.len |-> Escaped(record.cells[i])])

\* A reader of JSON takes the escapes back; a control character, or NUL, makes the string no JSON.
ReadChar(read, c) ==
  IF read.escape
  THEN [read EXCEPT !.text = Append(@, IF c = "n" THEN "newline" ELSE c), !.escape = FALSE]
  ELSE IF c = "backslash" THEN [read EXCEPT !.escape = TRUE]
  ELSE [read EXCEPT !.text = Append(@, c), !.valid = @ /\ c = "n"]

Unpacked(body) == FoldLeft(ReadChar, [text |-> <<>>, escape |-> FALSE, valid |-> TRUE], body)

=============================================================================
