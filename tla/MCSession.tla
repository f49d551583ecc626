----------------------------- MODULE MCSession -----------------------------
(***************************************************************************)
(* Two handler threads, and programs that spin, print, trap and lock up.   *)
(* One request may follow another without end; the first two that overlap  *)
(* are the last.                                                           *)
(***************************************************************************)
EXTENDS Session

MCImages ==
    {[p \in Pcs |-> IF p = 0 THEN "print" ELSE "plain"],
     [p \in Pcs |-> IF p = Length - 1 THEN "bkpt" ELSE "plain"],
     [p \in Pcs |-> IF p = 1 THEN "lockup" ELSE "print"]}

MCRequest(c) == at[c] = "idle" /\ at'[c] = "ask"

MCNext == Next /\ (overlapped => \A c \in Clients : ~MCRequest(c))

MCSpec ==
    Init /\ [][MCNext]_vars /\ WF_vars(RunLoop) /\ \A c \in Clients : WF_vars(Proceed(c))
=============================================================================
