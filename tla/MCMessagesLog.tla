---------------------------- MODULE MCMessagesLog --------------------------
(* Small instances of MessagesLog.                                           *)
EXTENDS MessagesLog

CONSTANTS owner, closer, w1

TwoHolders == {owner, closer}
OneWrite == {w1}

\* A session whose first turn is over and written, its owner still there.
OneTurnDone ==
  /\ log = <<Whole(1)>> /\ record = [pointer |-> PointerAt(1), tail |-> <<>>] /\ lock = NoHolder
  /\ copyOf = [h \in Holders |->
       IF h # LogOwner THEN NoCopy
       ELSE [NoCopy EXCEPT !.stage = "open", !.messages = log, !.logged = 1, !.pointer = PointerAt(1)]]
  /\ write = [h \in Holders |-> [w \in LogWrites |-> NoWrite]]
  /\ chain = [h \in Holders |-> <<>>]
  /\ said = 1 /\ talk = "none" /\ crashes = 0
  /\ written = {Whole(1)} /\ excused = FALSE

ResumedSpec == OneTurnDone /\ [][LogNext]_logVars
=============================================================================
