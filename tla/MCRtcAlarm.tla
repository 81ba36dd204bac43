----------------------------- MODULE MCRtcAlarm -----------------------------
(* RtcAlarm with the code's schedule, and with a short hour.               *)
EXTENDS RtcAlarm

\* kScheduleMinutes, and every fourth minute of an hour of twelve.
MCSchedule == {0, 10, 20, 30, 40, 50}
MCShortSchedule == {0, 4, 8}

\* A cycle may outlast an hour, and a minute may end while the alarm is programmed, which takes
\* milliseconds.
MCRollover == [start |-> 1, work |-> MinutesPerHour + 1, program |-> 1]

=============================================================================
