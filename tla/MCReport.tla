------------------------------ MODULE MCReport ------------------------------
(***************************************************************************)
(* Times before each kind of rollover, and lines that JSON cares about.    *)
(***************************************************************************)
EXTENDS Report

MCStarts ==
  {Time(2028, 2, 28, 23, 50, 30), Time(2029, 2, 28, 23, 55, 0), Time(2030, 4, 30, 23, 59, 30),
   Time(2099, 12, 31, 23, 52, 0)}

\* All zero with the oscillator stopped, all ones, and a time that looks good but is not.
MCLost ==
  {[second |-> 128, minute |-> 0, hour |-> 0, day |-> 0, month |-> 0, year |-> 0],
   [second |-> 255, minute |-> 255, hour |-> 255, day |-> 255, month |-> 255, year |-> 255],
   Encode(Time(2000, 1, 1, 0, 0, 0))}

MCLines == {<<"control">>, <<"backslash", "n">>, <<"quote", "newline", "n">>}
=============================================================================
