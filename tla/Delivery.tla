------------------------------ MODULE Delivery ------------------------------
(***************************************************************************)
(* What a session's owner promises about the prompts it accepts, whatever  *)
(* its queue, its turns and its closes do: an outcome that says "never     *)
(* reached the model" only of a prompt that never did, and as its only     *)
(* one; nothing forgotten by an owner that leaves on its own or on SIGTERM.*)
(* A second outcome is written in one case only: the turn a prompt joined  *)
(* ends, or the process is stopped, while the prompt's own answer is being *)
(* written; both then say that it may have reached the model.              *)
(***************************************************************************)
EXTENDS Sequences

CONSTANT Deliveries

VARIABLES
  stage,    \* where each prompt is
  verdict,  \* the outcomes written for it, in order
  owner     \* "up", or how it ended

Stages == {"unsent", "queued", "turn", "steered", "answering", "settled",
           "dropped"}

(* The outcomes a sender may take as "safe to send again". *)
NeverDelivered == {"told", "closed_undelivered", "shutdown"}
MayBeDelivered == {"refused", "settled", "at_close", "unknown"}

Init ==
  /\ stage = [d \in Deliveries |-> "unsent"]
  /\ verdict = [d \in Deliveries |-> <<>>]
  /\ owner = "up"

Stays(d) == stage'[d] = stage[d] /\ verdict'[d] = verdict[d]

Settles(d, outcomes) ==
  stage'[d] = "settled" /\ \E v \in outcomes : verdict'[d] = <<v>>

(* Accepted: held, with the agent, refused to its face, or dropped.        *)
Accepted(d) ==
  /\ stage[d] = "unsent"
  /\ \/ stage'[d] \in {"queued", "turn", "steered", "dropped"} /\ verdict'[d] = <<>>
     \/ Settles(d, {"told"})

(* A held prompt opens a turn or joins the one that runs.                  *)
Started(d) ==
  stage[d] = "queued" /\ stage'[d] \in {"turn", "steered"} /\ verdict'[d] = <<>>

Settled(d) ==
  \/ stage[d] = "queued" /\ Settles(d, NeverDelivered)
  \/ stage[d] \in {"turn", "steered"} /\ Settles(d, MayBeDelivered)

(* The agent has answered a prompt that joined a turn: nothing was written *)
(* for it yet, and its outcome now is.                                     *)
AnswerArrives(d) ==
  /\ stage[d] = "steered" /\ stage'[d] = "answering"
  /\ verdict[d] = <<>> /\ verdict'[d] = <<>>

(* The end of the turn speaks for it before that write lands.              *)
SpokenFor(d) ==
  /\ stage[d] = "answering" /\ stage'[d] = "answering"
  /\ verdict[d] = <<>> /\ \E v \in MayBeDelivered : verdict'[d] = <<v>>

Lands(d) ==
  /\ stage[d] = "answering" /\ stage'[d] = "settled"
  /\ \E v \in MayBeDelivered : verdict'[d] = Append(verdict[d], v)

(* The write lands, and who stops the process had spoken for it too.       *)
LandsBeside(d) ==
  /\ stage[d] = "answering" /\ stage'[d] = "settled"
  /\ verdict[d] = <<>> /\ \E v, w \in MayBeDelivered : verdict'[d] = <<v, w>>

(* The process that knew of it is gone: so is what nobody had spoken for.  *)
Lost(d) ==
  /\ stage[d] \in {"queued", "turn", "steered", "answering"}
  /\ stage'[d] = IF verdict[d] = <<>> THEN "dropped" ELSE "settled"
  /\ verdict'[d] = verdict[d]

Serve ==
  /\ owner = "up" /\ owner' = "up"
  /\ \A d \in Deliveries :
       \/ Stays(d) \/ Accepted(d) \/ Started(d) \/ Settled(d)
       \/ AnswerArrives(d) \/ SpokenFor(d) \/ Lands(d)

(* The owner leaves on its own: nothing it held, and no turn, is left.  A  *)
(* prompt that joined a turn may still have waited for the agent's word.   *)
Leave ==
  /\ owner = "up" /\ owner' = "exited"
  /\ \A d \in Deliveries :
       /\ stage[d] \notin {"queued", "turn"}
       /\ Stays(d) \/ Lost(d)

(* It is told to stop: all it holds is settled, the rest may be lost.      *)
Stop ==
  /\ owner = "up" /\ owner' = "stopped"
  /\ \A d \in Deliveries :
       \/ Settled(d) \/ Lands(d) \/ LandsBeside(d)
       \/ stage[d] # "queued" /\ (Stays(d) \/ Lost(d))

(* It dies at once. *)
Crash ==
  /\ owner = "up" /\ owner' = "crashed"
  /\ \A d \in Deliveries : Stays(d) \/ Lost(d)

Next == Serve \/ Leave \/ Stop \/ Crash

Spec == Init /\ [][Next]_<<stage, verdict, owner>>
=============================================================================
