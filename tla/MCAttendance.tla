----------------------------- MODULE MCAttendance -----------------------------
(* Instances of Attendance for TLC.                                         *)
EXTENDS Attendance, TLC

CONSTANTS s1, s2

\* One cleaner in each of two shifts: the day's sheet and the shifts'.
MCGroups == {{s1, s2}, {s1}, {s2}}

MCSymmetry == Permutations(Slots) \cup Permutations(Workers)
==============================================================================
