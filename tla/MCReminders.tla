---------------------------- MODULE MCReminders ----------------------------
(* The instance of Reminders with the code's own numbers, in ticks of five *)
(* minutes: the reminders of a day and of three hours, a plan of one day.  *)
EXTENDS Reminders
=============================================================================
