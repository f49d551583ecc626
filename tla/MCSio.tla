------------------------------- MODULE MCSio -------------------------------
(***************************************************************************)
(* The SIO with firmware that uses its mailboxes, or its divider under a   *)
(* spinlock: the two share no state, so a behaviour takes one of them.  The*)
(* divider's begin once core 1 has been launched and the FIFOs are drained.*)
(***************************************************************************)
EXTENDS Sio

CONSTANTS
    MaxSent,    \* bound: words core 0 puts in its mailbox
    MaxReplies  \* bound: words core 1 puts in its mailbox

VARIABLE scenario

MCInit ==
    \/ Init /\ scenario = "mailbox"
    \/ Start(TRUE) /\ scenario = "divider"

MCNext ==
    /\ UNCHANGED scenario
    /\ \/ /\ scenario = "mailbox"
          /\ MailboxStep
          /\ Len(sent'[0]) <= MaxSent /\ Len(sent'[1]) <= MaxReplies
       \/ /\ scenario = "divider"
          /\ LockStep \/ DividerStep
       \/ ResetStep

MCSpec == MCInit /\ [][MCNext]_<<vars, scenario>>
=============================================================================
