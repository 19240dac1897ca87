----------------------------- MODULE SeatHolders -----------------------------
(* The holders of one seat: the activation of a successor, which retires the  *)
(* holder on its record, moves the seat's pointer in one hold of the store    *)
(* and marks the successor's record; the heal of an activation that was cut   *)
(* off; the backfill that points a vacant seat at a holder; and the close of  *)
(* the seat.  A step is one read or write of a record, or one hold of the     *)
(* store's lock.  A record's write carries the whole holder group of the copy *)
(* its process has read.                                                      *)
EXTENDS Naturals

CONSTANTS
  Sessions,      \* the sessions that are in the seat or join it
  FirstHolder,   \* the one the seat was minted for
  Activations,   \* processes that activate
  Nobody,        \* the pointer of a vacant seat
  MaxRuns,       \* bound on activations
  MaxFills,      \* bound on backfills
  MaxLifecycle,  \* bound on closes and reopens of sessions
  MaxCutOffs     \* bound on activations and backfills killed or refused by a file

ASSUME SeatHoldersConstants ==
  /\ FirstHolder \in Sessions /\ Nobody \notin Sessions
  /\ \A m \in {MaxRuns, MaxFills, MaxLifecycle, MaxCutOffs} : m \in Nat

VARIABLES
  seat,        \* the seat's row: its holder, the next ordinal, whether it is closed
  holding,     \* the sessions' records: the holder group and the lifecycle
  activation,  \* each activation: its step and what it has read
  filling,     \* the backfill: its step and the holder it planned
  closing,     \* the close of the seat: its step, the holder and whether it was open
  reopened,    \* sessions opened again since that close vetted its holder
  apart,       \* no two of activations and backfills have met, and no backfill that
               \* marked a record ended without its pointer
  leftover     \* what is left of each bound

seatHolderVars == <<seat, holding, activation, filling, closing, reopened, apart, leftover>>

NoOrdinal == 0

Joined == [there |-> TRUE, active |-> FALSE, ordinal |-> NoOrdinal, closed |-> FALSE]
Absent == [Joined EXCEPT !.there = FALSE]

IdleRun ==
  [at |-> "idle", to |-> Nobody, from |-> Nobody, mine |-> Absent, his |-> Absent,
   drawn |-> NoOrdinal, others |-> {}, other |-> Nobody]

\* The seat as it was minted, or a row of an older version whose pointer is empty.
SeatHoldersInit ==
  /\ seat \in {[holder |-> h, next |-> 2, closed |-> FALSE] : h \in {FirstHolder, Nobody}}
  /\ \E closed \in BOOLEAN :
       holding = [s \in Sessions |->
         IF s # FirstHolder THEN Absent
         ELSE [Joined EXCEPT !.active = (seat.holder = s), !.ordinal = 1, !.closed = closed]]
  /\ activation = [a \in Activations |-> IdleRun]
  /\ filling = [at |-> "idle", holder |-> Nobody]
  /\ closing = [at |-> "idle", holder |-> Nobody, open |-> FALSE]
  /\ reopened = {} /\ apart = TRUE
  /\ leftover = [runs |-> MaxRuns, fills |-> MaxFills, lifecycle |-> MaxLifecycle,
                 cutOffs |-> MaxCutOffs]

\* An activation or a backfill is under way.
AtWork == filling.at # "idle" \/ \E a \in Activations : activation[a].at # "idle"

RunTo(a, q, step) == activation' = [activation EXCEPT ![a] = [q EXCEPT !.at = step]]
RunEnds(a) == activation' = [activation EXCEPT ![a] = IdleRun]
OnlyRun == UNCHANGED <<seat, holding, filling, closing, reopened, apart, leftover>>

-----------------------------------------------------------------------------
(* Phase 0: every read and every refusal, before any write.                    *)

ActivationBegins(a, n) ==
  /\ activation[a].at = "idle" /\ leftover.runs > 0 /\ ~seat.closed
  /\ RunTo(a, [IdleRun EXCEPT !.to = n, !.from = seat.holder], "successor")
  /\ leftover' = [leftover EXCEPT !.runs = @ - 1]
  /\ apart' = (apart /\ ~AtWork)
  /\ UNCHANGED <<seat, holding, filling, closing, reopened>>

ReadSuccessor(a) ==
  LET n == activation[a].to IN
  /\ activation[a].at = "successor" /\ OnlyRun
  /\ IF holding[n].there /\ ~holding[n].closed
     THEN RunTo(a, [activation[a] EXCEPT !.mine = holding[n]],
                IF activation[a].from = Nobody THEN "hold" ELSE "predecessor")
     ELSE RunEnds(a)

\* A pointer that names the successor already: nothing to do, or an activation
\* that was cut off after its hold.
ReadPredecessor(a) ==
  LET q == activation[a] IN
  /\ q.at = "predecessor" /\ OnlyRun
  /\ IF q.from # q.to THEN RunTo(a, [q EXCEPT !.his = holding[q.from]], "retire")
     ELSE IF q.mine.active /\ q.mine.ordinal # NoOrdinal THEN RunEnds(a)
     ELSE RunTo(a, [q EXCEPT !.others = {s \in Sessions \ {q.to} : holding[s].there}], "heal")

-----------------------------------------------------------------------------
(* Phases 1 to 3.                                                              *)

\* One write of a holder group, from the copy that was read; the lifecycle on
\* disk is kept.
Written(copy, s, active, ordinal) ==
  holding' = [holding EXCEPT ![s] = [copy EXCEPT !.active = active, !.ordinal = ordinal,
                                               !.closed = holding[s].closed]]

(* Mutated form: the predecessor's record is left to a later heal. *)
RetireLater(a) ==
  /\ activation[a].at = "retire"
  /\ RunTo(a, activation[a], "hold") /\ OnlyRun

Retire(a) ==
  LET q == activation[a] IN
  /\ q.at = "retire"
  /\ Written(q.his, q.from, FALSE, q.his.ordinal)
  /\ RunTo(a, q, "hold")
  /\ UNCHANGED <<seat, filling, closing, reopened, apart, leftover>>

(* Mutated form: the counter follows only when the record has been numbered. *)
DrawUncounted(a) ==
  LET q == activation[a] IN
  /\ q.at = "hold"
  /\ IF seat.holder = q.from /\ ~seat.closed
     THEN /\ seat' = [seat EXCEPT !.holder = q.to]
          /\ RunTo(a, [q EXCEPT !.drawn = seat.next], "activate")
     ELSE RunEnds(a) /\ UNCHANGED seat
  /\ UNCHANGED <<holding, filling, closing, reopened, apart, leftover>>

\* The compare-and-swap.  A successor that has an ordinal keeps it.
DrawAndPoint(a) ==
  LET q == activation[a]
      kept == q.mine.ordinal # NoOrdinal
  IN
  /\ q.at = "hold"
  /\ IF seat.holder = q.from /\ ~seat.closed
     THEN /\ seat' = [seat EXCEPT !.holder = q.to, !.next = IF kept THEN @ ELSE @ + 1]
          /\ RunTo(a, [q EXCEPT !.drawn = IF kept THEN q.mine.ordinal ELSE seat.next], "activate")
     ELSE RunEnds(a) /\ UNCHANGED seat
  /\ UNCHANGED <<holding, filling, closing, reopened, apart, leftover>>

Activate(a) ==
  LET q == activation[a] IN
  /\ q.at = "activate"
  /\ Written(q.mine, q.to, TRUE, q.drawn)
  /\ RunEnds(a)
  /\ UNCHANGED <<seat, filling, closing, reopened, apart, leftover>>

-----------------------------------------------------------------------------
(* The heal: every other record of the seat that says active is retired, then *)
(* the successor gets an ordinal if it has none, and its mark.                 *)

HealReads(a, s) ==
  LET q == activation[a]
      rest == [q EXCEPT !.others = @ \ {s}]
  IN
  /\ q.at = "heal" /\ s \in q.others /\ OnlyRun
  /\ IF holding[s].active THEN RunTo(a, [rest EXCEPT !.his = holding[s], !.other = s], "healing")
     ELSE RunTo(a, rest, "heal")

HealRetires(a) ==
  LET q == activation[a] IN
  /\ q.at = "healing"
  /\ Written(q.his, q.other, FALSE, q.his.ordinal)
  /\ RunTo(a, q, "heal")
  /\ UNCHANGED <<seat, filling, closing, reopened, apart, leftover>>

\* "Gaps are legal, repeats are defects": the number of the run that was cut off
\* is not used again.
HealDraws(a) ==
  LET q == activation[a] IN
  /\ q.at = "heal" /\ q.others = {}
  /\ IF q.mine.ordinal # NoOrdinal
     THEN RunTo(a, [q EXCEPT !.drawn = q.mine.ordinal], "activate") /\ UNCHANGED seat
     ELSE /\ RunTo(a, [q EXCEPT !.drawn = seat.next], "activate")
          /\ seat' = [seat EXCEPT !.next = @ + 1]
  /\ UNCHANGED <<holding, filling, closing, reopened, apart, leftover>>

ActivationCutOff(a) ==
  /\ activation[a].at # "idle" /\ leftover.cutOffs > 0
  /\ RunEnds(a)
  /\ leftover' = [leftover EXCEPT !.cutOffs = @ - 1]
  /\ UNCHANGED <<seat, holding, filling, closing, reopened, apart>>

-----------------------------------------------------------------------------
(* The backfill of an empty pointer: the holder that is marked, else the one   *)
(* with the highest ordinal; its mark first, then the pointer.                 *)

There == {s \in Sessions : holding[s].there}

FillChoice(s) ==
  /\ s \in There
  /\ \/ holding[s].active
     \/ /\ \A t \in There : ~holding[t].active
        /\ \A t \in There : holding[t].ordinal <= holding[s].ordinal

FillPlans(s) ==
  /\ filling.at = "idle" /\ leftover.fills > 0
  /\ seat.holder = Nobody /\ ~seat.closed /\ FillChoice(s)
  /\ filling' = [at |-> IF holding[s].active THEN "pointer" ELSE "mirror", holder |-> s]
  /\ leftover' = [leftover EXCEPT !.fills = @ - 1]
  /\ apart' = (apart /\ ~AtWork)
  /\ UNCHANGED <<seat, holding, activation, closing, reopened>>

\* The record is read again just before it is written.
FillMarks ==
  /\ filling.at = "mirror"
  /\ holding' = [holding EXCEPT ![filling.holder].active = TRUE]
  /\ filling' = [filling EXCEPT !.at = "pointer"]
  /\ UNCHANGED <<seat, activation, closing, reopened, apart, leftover>>

FillPoints ==
  LET fills == seat.holder = Nobody /\ ~seat.closed IN
  /\ filling.at = "pointer"
  /\ seat' = IF fills THEN [seat EXCEPT !.holder = filling.holder] ELSE seat
  /\ filling' = [at |-> "idle", holder |-> Nobody]
  /\ apart' = (apart /\ fills)
  /\ UNCHANGED <<holding, activation, closing, reopened, leftover>>

FillCutOff ==
  /\ filling.at # "idle" /\ leftover.cutOffs > 0
  /\ filling' = [at |-> "idle", holder |-> Nobody]
  /\ apart' = (apart /\ filling.at = "mirror")
  /\ leftover' = [leftover EXCEPT !.cutOffs = @ - 1]
  /\ UNCHANGED <<seat, holding, activation, closing, reopened>>

-----------------------------------------------------------------------------
(* Sessions join, close and open again, and the seat is closed and reopened.   *)

Join(s) ==
  /\ ~holding[s].there /\ ~seat.closed
  /\ holding' = [holding EXCEPT ![s] = Joined]
  /\ UNCHANGED <<seat, activation, filling, closing, reopened, apart, leftover>>

\* A close or reopen of the session keeps the holder group on disk.
SessionLifecycle(s) ==
  /\ holding[s].there /\ leftover.lifecycle > 0
  /\ holding' = [holding EXCEPT ![s].closed = ~@]
  /\ reopened' = IF holding[s].closed /\ closing.at = "decide" THEN reopened \cup {s} ELSE reopened
  /\ leftover' = [leftover EXCEPT !.lifecycle = @ - 1]
  /\ UNCHANGED <<seat, activation, filling, closing, apart>>

SeatCloseReads ==
  /\ closing.at = "idle"
  /\ closing' = [closing EXCEPT !.at = "vet", !.holder = seat.holder]
  /\ UNCHANGED <<seat, holding, activation, filling, reopened, apart, leftover>>

SeatCloseVets ==
  /\ closing.at = "vet"
  /\ closing' = [closing EXCEPT !.at = "decide",
                   !.open = closing.holder # Nobody /\ ~holding[closing.holder].closed]
  /\ UNCHANGED <<seat, holding, activation, filling, reopened, apart, leftover>>

(* Mutated form: the pointer is not compared with the holder that was vetted. *)
CloseAsVetted ==
  /\ closing.at = "decide"
  /\ closing' = [at |-> "idle", holder |-> Nobody, open |-> FALSE]
  /\ seat' = [seat EXCEPT !.closed = @ \/ ~closing.open]
  /\ reopened' = {}
  /\ UNCHANGED <<holding, activation, filling, apart, leftover>>

SeatCloseDecides ==
  /\ closing.at = "decide"
  /\ closing' = [at |-> "idle", holder |-> Nobody, open |-> FALSE]
  /\ seat' = [seat EXCEPT !.closed = @ \/ (seat.holder = closing.holder /\ ~closing.open)]
  /\ reopened' = {}
  /\ UNCHANGED <<holding, activation, filling, apart, leftover>>

SeatReopens ==
  /\ seat.closed
  /\ seat' = [seat EXCEPT !.closed = FALSE]
  /\ UNCHANGED <<holding, activation, filling, closing, reopened, apart, leftover>>

SeatHoldersNext ==
  \/ \E a \in Activations :
       \/ \E s \in Sessions : ActivationBegins(a, s) \/ HealReads(a, s)
       \/ ReadSuccessor(a) \/ ReadPredecessor(a) \/ Retire(a) \/ DrawAndPoint(a) \/ Activate(a)
       \/ HealRetires(a) \/ HealDraws(a) \/ ActivationCutOff(a)
  \/ \E s \in Sessions : FillPlans(s) \/ Join(s) \/ SessionLifecycle(s)
  \/ FillMarks \/ FillPoints \/ FillCutOff
  \/ SeatCloseReads \/ SeatCloseVets \/ SeatCloseDecides \/ SeatReopens

SeatHoldersSpec == SeatHoldersInit /\ [][SeatHoldersNext]_seatHolderVars

-----------------------------------------------------------------------------
\* The state is well formed.
SeatHoldersTypeOK ==
  LET ordinals == 0 .. (MaxRuns + 2)
      records == [there : BOOLEAN, active : BOOLEAN, ordinal : ordinals, closed : BOOLEAN]
  IN
  /\ seat \in [holder : Sessions \cup {Nobody}, next : ordinals \ {0}, closed : BOOLEAN]
  /\ holding \in [Sessions -> records]
  /\ \A a \in Activations :
       /\ activation[a].at \in {"idle", "successor", "predecessor", "retire", "hold", "activate",
                         "heal", "healing"}
       /\ {activation[a].to, activation[a].from, activation[a].other} \subseteq Sessions \cup {Nobody}
       /\ {activation[a].mine, activation[a].his} \subseteq records
       /\ activation[a].drawn \in ordinals /\ activation[a].others \subseteq Sessions
  /\ filling \in [at : {"idle", "mirror", "pointer"}, holder : Sessions \cup {Nobody}]
  /\ closing \in [at : {"idle", "vet", "decide"}, holder : Sessions \cup {Nobody}, open : BOOLEAN]
  /\ reopened \subseteq Sessions /\ apart \in BOOLEAN

\* types.ts: at most one record of a seat may carry the mark at a time; it is the
\* order of the activation's writes that keeps it.
OneActiveMirror ==
  \A s, t \in Sessions : holding[s].active /\ holding[t].active => s = t

\* No torn state routes to a retired holder: where activations and backfills came
\* one after the other, cut off at whatever step, a record that says active is
\* the one the pointer names, unless a backfill is about to write the pointer.
MarkedIsHolder ==
  apart => \A s \in Sessions :
             holding[s].active => seat.holder = s \/ filling = [at |-> "pointer", holder |-> s]

\* "Gaps are legal, repeats are defects": no two holders have one ordinal, and the
\* counter is above every one, whatever overlapped.
OrdinalsDistinct ==
  /\ \A s, t \in Sessions :
       (holding[s].ordinal = holding[t].ordinal /\ holding[s].ordinal # NoOrdinal) => s = t
  /\ \A s \in Sessions : holding[s].ordinal < seat.next

\* An ordinal is a label, assigned once: it is neither changed nor lost, but by the
\* write of an activation that had read the record before another one numbered it.
OrdinalIsALabel ==
  [][apart => \A s \in Sessions :
       holding[s].ordinal # NoOrdinal => holding'[s].ordinal = holding[s].ordinal]_seatHolderVars

\* An activation that ends as it should leaves the seat settled, whatever it found:
\* the pointer and the only mark are its successor's, which has an ordinal.
ActivationSettles ==
  [][\A a \in Activations :
       (apart /\ leftover' = leftover /\ activation'[a] = IdleRun
              /\ (activation[a].at = "activate" \/ (activation[a].at = "predecessor" /\ activation[a].from = activation[a].to)))
         => /\ seat'.holder = activation[a].to
            /\ holding'[activation[a].to].active /\ holding'[activation[a].to].ordinal # NoOrdinal
            /\ \A s \in Sessions \ {activation[a].to} : ~holding'[s].active]_seatHolderVars

\* A seat is closed over no holder that is open, unless that session was opened
\* again after the close had vetted it.
ClosedOverNoOpenHolder ==
  [][(seat'.closed /\ ~seat.closed) =>
       \/ seat.holder = Nobody \/ holding[seat.holder].closed
       \/ seat.holder \in reopened]_seatHolderVars

\* The pointer, the marks and the numbers of a seat's holders (seat-activate.ts).
SeatHeld ==
  /\ [](SeatHoldersTypeOK /\ MarkedIsHolder /\ OrdinalsDistinct)
  /\ OrdinalIsALabel /\ ActivationSettles /\ ClosedOverNoOpenHolder
=============================================================================
