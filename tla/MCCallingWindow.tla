---------------------------- MODULE MCCallingWindow ----------------------------
(* A day of six minutes, one to the hour; one time beyond the day, which the  *)
(* code clamps; a weekday that there is not; clocks that go forward or back   *)
(* by one or two minutes during the second week's Tuesday, also to the day    *)
(* before, east and west of Greenwich.  Two minutes for a window to end, and  *)
(* open again when clocks are set back.                                       *)
EXTENDS CallingWindow

MCWindows == [start : 0..5, end : 0..4 \cup {9}]
MCCallingDays == {{}, {1}, {2, 3}, {0, 6, 7}}
MCZones ==
  {[before |-> b, after |-> a, change |-> 9 * 6 + 2] :
     <<b, a>> \in {<<0, 0>>, <<2, 2>>, <<-2, -2>>,
                   <<1, 2>>, <<2, 0>>, <<-2, 0>>, <<-1, -3>>}}
================================================================================
