------------------------------- MODULE MCAlarm -------------------------------
(***************************************************************************)
(* A parent and two children with alarms of one or two ticks, one of which  *)
(* reads the keyboard.                                                      *)
(***************************************************************************)
EXTENDS Alarm

CONSTANTS ak, p1, p2, p3

MCProc == {ak, p1, p2, p3}
MCRid == {Alarmr} \cup {Own(p) : p \in User} \cup {Io(p) : p \in Readers}
=============================================================================
