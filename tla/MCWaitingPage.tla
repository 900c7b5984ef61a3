---------------------------- MODULE MCWaitingPage ----------------------------
(***************************************************************************)
(* Three rooms: the one of which admission is promised, one that differs   *)
(* from it in every option that bears on the order of admission, and one   *)
(* whose template has no script.                                           *)
(***************************************************************************)
EXTENDS WaitingPage

Room(queueAll, queueingMethod, disableSessionRenewal, scripted) ==
  [queueAll |-> queueAll, queueingMethod |-> queueingMethod,
   disableSessionRenewal |-> disableSessionRenewal, scripted |-> scripted]

MCRooms ==
  {Room(TRUE, "fifo", TRUE, TRUE), Room(FALSE, "random", FALSE, TRUE), Room(TRUE, "random", TRUE, FALSE)}
=============================================================================
