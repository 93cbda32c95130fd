---- MODULE MCMeetupAssignment ----
(***************************************************************************)
(* An instance of MeetupAssignment for TLC.                                *)
(***************************************************************************)
EXTENDS MeetupAssignment

MCMaxRegistered == [bootstrappers |-> 2, reputables |-> 11, endorsees |-> 5, newbies |-> 3]

====
