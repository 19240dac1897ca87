----------------------------- MODULE SeatArchive -----------------------------
(* A seat's row between the store of seats (seats.json) and the ledger of     *)
(* archived seats: the reconcile that waves, restores and a command of its    *)
(* own run, the commands that write the row, and the backfill that mints a    *)
(* missing one.  One seat.  A step is one call of the file system, or one hold*)
(* of the store's lock.                                                       *)
EXTENDS Naturals

CONSTANTS
  SeatSessions,  \* the sessions that may hold the seat
  Founder,       \* the one that holds it at first
  Reconciles,    \* processes that reconcile
  NoRow,         \* no row, or no ledger file
  MaxMoves,      \* bound on moves of a holder between the tiers
  MaxStarts,     \* bound on reconciles
  MaxEdits,      \* bound on commands that write the row
  MaxFailures,   \* bound on reconciles cut off (killed, or refused the lock)
  MaxBackfills   \* bound on backfills

ASSUME SeatArchiveConstants ==
  /\ Founder \in SeatSessions
  /\ \A m \in {MaxMoves, MaxStarts, MaxEdits, MaxFailures, MaxBackfills} : m \in Nat
  /\ NoRow \notin [holder : SeatSessions, starred : BOOLEAN, edit : Nat]

VARIABLES
  seatRow,   \* the seat's row in the store: its holder, its star, its last edit
  ledger,    \* the ledger file: a copy of the row
  tier,      \* where each holder's record file is
  rec,       \* each reconcile: where it is, its scope, and what it read
  mint,      \* the backfill
  budget,    \* what is left of each bound, and the number of the last edit
  quiet,     \* reconciles during which nobody else has moved since they began
  crossed,   \* how reconciles met on the ledger file: one "deleted" the file that
             \* another one's fold stands on, or "replaced" a file of another row
  mixed      \* a row was written beside a reconcile, or two reconciles overlapped

seatArchiveVars == <<seatRow, ledger, tier, rec, mint, budget, quiet, crossed, mixed>>

SeatRows == [holder : SeatSessions, starred : BOOLEAN, edit : 0 .. MaxEdits]

IdleReconcile ==
  [at |-> "idle", scope |-> {}, row |-> NoRow, entry |-> NoRow, hot |-> {},
   act |-> "none", removed |-> FALSE]

SeatArchiveInit ==
  /\ seatRow = [holder |-> Founder, starred |-> FALSE, edit |-> 0]
  /\ ledger = NoRow
  /\ tier = [h \in SeatSessions |-> "hot"]
  /\ rec = [r \in Reconciles |-> IdleReconcile]
  /\ mint = "idle"
  /\ budget = [moves |-> MaxMoves, starts |-> MaxStarts, edits |-> 0,
               failures |-> MaxFailures, backfills |-> MaxBackfills]
  /\ quiet = {} /\ crossed = {} /\ mixed = FALSE

UnderWay == {r \in Reconciles : rec[r].at # "idle"}
HotFiles == {h \in SeatSessions : tier[h] = "hot"}

\* A reconcile's step leaves it undisturbed and disturbs the others.
AlongOf(r) == quiet' = quiet \cap {r}

-----------------------------------------------------------------------------
(* Reconciles begin: after a wave, which moves a holder's files out and asks   *)
(* about every seat; after a restore, which moves them back and asks about the *)
(* seats of its holders; and by the command that is given one holder.          *)

ReconcileBegins(r, scope) ==
  /\ rec[r].at = "idle" /\ budget.starts > 0
  /\ rec' = [rec EXCEPT ![r] = [IdleReconcile EXCEPT !.at = "store", !.scope = scope]]
  /\ quiet' = {r}
  /\ mixed' = (mixed \/ UnderWay # {} \/ mint # "idle")
  /\ UNCHANGED <<seatRow, ledger, mint, crossed>>

WaveReconciles(r, h) ==
  /\ tier[h] = "hot" /\ budget.moves > 0
  /\ tier' = [tier EXCEPT ![h] = "archived"]
  /\ budget' = [budget EXCEPT !.moves = @ - 1, !.starts = @ - 1]
  /\ ReconcileBegins(r, SeatSessions)

RestoreReconciles(r, h) ==
  /\ tier[h] = "archived" /\ budget.moves > 0
  /\ tier' = [tier EXCEPT ![h] = "hot"]
  /\ budget' = [budget EXCEPT !.moves = @ - 1, !.starts = @ - 1]
  /\ ReconcileBegins(r, {h})

CommandReconciles(r, h) ==
  /\ budget' = [budget EXCEPT !.starts = @ - 1]
  /\ ReconcileBegins(r, {h}) /\ UNCHANGED tier

-----------------------------------------------------------------------------
(* One reconcile.                                                              *)

Reading(r, from, to, read) ==
  /\ rec[r].at = from
  /\ rec' = [rec EXCEPT ![r] = [read EXCEPT !.at = to]]
  /\ AlongOf(r)
  /\ UNCHANGED <<seatRow, ledger, tier, mint, budget, crossed, mixed>>

ReadSeatStore(r) == Reading(r, "store", "ledger", [rec[r] EXCEPT !.row = seatRow])
ReadLedger(r) == Reading(r, "ledger", "tiers", [rec[r] EXCEPT !.entry = ledger])
ReadHotFiles(r) == Reading(r, "tiers", "plan", [rec[r] EXCEPT !.hot = HotFiles])

\* What the plan says of the seat: the row's holder is looked up in the archive
\* now, in the hot directory as it was listed.
FoldPlanned(q) ==
  /\ q.row # NoRow /\ q.row.holder \in q.scope /\ ~q.row.starred
  /\ q.row.holder \notin q.hot /\ tier[q.row.holder] = "archived"

PlanFor(q) ==
  IF FoldPlanned(q) THEN "fold"
  ELSE IF q.entry = NoRow \/ (q.entry # NoRow /\ q.entry.holder \notin q.scope) THEN "none"
  ELSE IF q.row # NoRow THEN "beside"
  ELSE IF q.entry.holder \in q.hot THEN "unfold" ELSE "none"

PlanReconcile(r) ==
  LET act == PlanFor(rec[r])
      next == IF act = "fold" THEN "write" ELSE IF act = "none" THEN "idle" ELSE "hold"
  IN  Reading(r, "plan", next, [rec[r] EXCEPT !.act = act])

(* Mutated form: the fold goes on to its hold without the ledger file. *)
FoldWithoutLedger(r) ==
  /\ rec[r].at = "write"
  /\ rec' = [rec EXCEPT ![r].at = "hold"]
  /\ AlongOf(r)
  /\ UNCHANGED <<seatRow, ledger, tier, mint, budget, crossed, mixed>>

\* The ledger file of a fold lands before its row can go.
WriteLedgerFile(r) ==
  /\ rec[r].at = "write"
  /\ ledger' = rec[r].row
  /\ rec' = [rec EXCEPT ![r].at = "hold"]
  /\ crossed' = crossed
       \cup (IF \E o \in Reconciles \ {r} : rec[o].at = "finish" THEN {"deleted"} ELSE {})
       \cup (IF ledger \notin {NoRow, rec[r].row} THEN {"replaced"} ELSE {})
  /\ AlongOf(r)
  /\ UNCHANGED <<seatRow, tier, mint, budget, mixed>>

\* A fold removes the row if pointer and star are as planned; a row that is
\* already gone is left alone.
RemovesRow(q) ==
  q.act = "fold" /\ seatRow # NoRow /\ seatRow.holder = q.row.holder /\ ~seatRow.starred

InsertsRow(q) == q.act = "unfold" /\ seatRow = NoRow

(* Mutated form: what the plan saw decides. *)
LedgerGoesAsPlanned(q) == q.act \in {"beside", "unfold"}

\* The ledger file is redundant: beside a row that stands or was just inserted.
LedgerFileGoes(q) == (seatRow # NoRow /\ ~RemovesRow(q)) \/ InsertsRow(q)

\* The one write of the store, decided against the row as it is in the hold.
ApplyInOneWrite(r) ==
  LET q == rec[r] IN
  /\ q.at = "hold"
  /\ seatRow' = IF RemovesRow(q) THEN NoRow ELSE IF InsertsRow(q) THEN q.entry ELSE seatRow
  /\ rec' = [rec EXCEPT ![r].at = IF LedgerFileGoes(q) THEN "finish" ELSE "recheck",
                        ![r].removed = RemovesRow(q)]
  /\ LET folding == {o \in Reconciles \ {r} : rec[o].at = "hold" /\ rec[o].act = "fold"}
     IN  crossed' = crossed \cup (IF LedgerFileGoes(q) /\ folding # {} THEN {"deleted"} ELSE {})
  /\ AlongOf(r)
  /\ UNCHANGED <<ledger, tier, mint, budget, mixed>>

DeleteLedgerFile(r) ==
  /\ rec[r].at = "finish"
  /\ ledger' = NoRow
  /\ rec' = [rec EXCEPT ![r].at = "recheck"]
  /\ AlongOf(r)
  /\ UNCHANGED <<seatRow, tier, mint, budget, crossed, mixed>>

(* Mutated form: a holder that came back meanwhile is left to the next run. *)
EndWithoutRecheck(r) == Reading(r, "recheck", "idle", rec[r])

\* A holder that came back during the fold has its seat reconciled again.
UnfoldRacedHolders(r) ==
  LET q == rec[r]
      raced == q.removed /\ tier[q.row.holder] = "hot"
  IN  Reading(r, "recheck", IF raced THEN "store" ELSE "idle",
              IF raced THEN [IdleReconcile EXCEPT !.scope = {q.row.holder}] ELSE q)

\* Killed, or refused the lock: the files stay as they are.
ReconcileFails(r) ==
  /\ r \in UnderWay /\ budget.failures > 0
  /\ rec' = [rec EXCEPT ![r] = IdleReconcile]
  /\ budget' = [budget EXCEPT !.failures = @ - 1]
  /\ quiet' = quiet \ {r}
  /\ UNCHANGED <<seatRow, ledger, tier, mint, crossed, mixed>>

-----------------------------------------------------------------------------
(* The commands that write a row that stands.  Each is one hold of the store.  *)

RowWritten(row) ==
  /\ seatRow # NoRow /\ budget.edits < MaxEdits
  /\ seatRow' = [row EXCEPT !.edit = budget.edits + 1]
  /\ budget' = [budget EXCEPT !.edits = @ + 1]
  /\ quiet' = {}
  /\ mixed' = (mixed \/ UnderWay # {})
  /\ UNCHANGED <<ledger, tier, rec, mint, crossed>>

\* A name, a close, a brick, an alarm level.
EditSeat == RowWritten(seatRow)
StarSeat == seatRow # NoRow /\ RowWritten([seatRow EXCEPT !.starred = ~@])

\* A succession among holders that are not archived.
ActivateSeat(h) ==
  /\ seatRow # NoRow
  /\ h # seatRow.holder /\ {h, seatRow.holder} \subseteq HotFiles
  /\ RowWritten([seatRow EXCEPT !.holder = h])

-----------------------------------------------------------------------------
(* The backfill: it skips the seats of the ledger it read, then looks for the  *)
(* row, then mints one from the records where there is still none.             *)

BackfillReads ==
  /\ mint = "idle" /\ budget.backfills > 0 /\ HotFiles # {} /\ ledger = NoRow
  /\ mint' = "planning"
  /\ budget' = [budget EXCEPT !.backfills = @ - 1]
  /\ quiet' = {}
  /\ mixed' = (mixed \/ UnderWay # {})
  /\ UNCHANGED <<seatRow, ledger, tier, rec, crossed>>

BackfillPlans ==
  /\ mint = "planning"
  /\ mint' = IF seatRow = NoRow THEN "minting" ELSE "idle"
  /\ quiet' = {}
  /\ UNCHANGED <<seatRow, ledger, tier, rec, budget, crossed, mixed>>

BackfillMints(h) ==
  /\ mint = "minting"
  /\ mint' = "idle"
  /\ seatRow' = IF seatRow = NoRow THEN [holder |-> h, starred |-> FALSE, edit |-> 0] ELSE seatRow
  /\ quiet' = {}
  /\ UNCHANGED <<ledger, tier, rec, budget, crossed, mixed>>

SeatArchiveNext ==
  \/ \E r \in Reconciles, h \in SeatSessions :
       WaveReconciles(r, h) \/ RestoreReconciles(r, h) \/ CommandReconciles(r, h)
  \/ \E r \in Reconciles :
       \/ ReadSeatStore(r) \/ ReadLedger(r) \/ ReadHotFiles(r) \/ PlanReconcile(r)
       \/ WriteLedgerFile(r) \/ ApplyInOneWrite(r) \/ DeleteLedgerFile(r)
       \/ UnfoldRacedHolders(r) \/ ReconcileFails(r)
  \/ EditSeat \/ StarSeat \/ \E h \in SeatSessions : ActivateSeat(h)
  \/ BackfillReads \/ BackfillPlans \/ \E h \in SeatSessions : BackfillMints(h)

SeatArchiveSpec == SeatArchiveInit /\ [][SeatArchiveNext]_seatArchiveVars

-----------------------------------------------------------------------------
\* The state is well formed.
SeatArchiveTypeOK ==
  /\ {seatRow, ledger} \subseteq SeatRows \cup {NoRow}
  /\ tier \in [SeatSessions -> {"hot", "archived"}]
  /\ \A r \in Reconciles :
       /\ rec[r].at \in {"idle", "store", "ledger", "tiers", "plan", "write", "hold",
                         "finish", "recheck"}
       /\ rec[r].scope \subseteq SeatSessions /\ rec[r].hot \subseteq SeatSessions
       /\ {rec[r].row, rec[r].entry} \subseteq SeatRows \cup {NoRow}
       /\ rec[r].act \in {"none", "fold", "unfold", "beside"}
  /\ mint \in {"idle", "planning", "minting"}
  /\ quiet \subseteq Reconciles /\ crossed \subseteq {"deleted", "replaced"} /\ mixed \in BOOLEAN

\* The header of seat-archive.ts: the row is never in neither place, at any
\* instant, whatever is killed.
NeverInNeither == seatRow # NoRow \/ ledger # NoRow

\* The row is lost only where one reconcile deletes the ledger file that another
\* one's fold has written for a row it is about to remove.
LostOnlyWhereCrossed == NeverInNeither \/ "deleted" \in crossed

\* The last edit of the row is kept, in the store or else in the ledger, unless
\* the row was written beside a reconcile that had read it.
LastEditKept ==
  ~mixed =>
    LET copy == IF seatRow # NoRow THEN seatRow ELSE ledger
    IN  copy # NoRow => copy.edit = budget.edits

\* A reconcile beside which nobody else moves settles the seats of its scope,
\* whatever was left behind before it: a seat waits in the ledger alone and for
\* a holder that is archived, and a row stands for a holder that is hot or is
\* starred.
SettledAlone ==
  \A r \in quiet :
    rec[r].at = "idle" =>
      /\ (ledger # NoRow /\ ledger.holder \in rec[r].scope)
           => (seatRow = NoRow /\ tier[ledger.holder] = "archived")
      /\ (seatRow # NoRow /\ seatRow.holder \in rec[r].scope /\ tier[seatRow.holder] = "archived")
           => seatRow.starred

\* Where no reconcile was cut off, none is under way and none deleted or replaced
\* another's file, no seat waits in the ledger behind a hot holder.
NoneBehindHotHolder ==
  (UnderWay = {} /\ budget.failures = MaxFailures /\ crossed = {})
    => ~(seatRow = NoRow /\ ledger # NoRow /\ tier[ledger.holder] = "hot")

\* The row of a seat is kept between the store and the ledger (seat-archive.ts).
SeatRowKept == LostOnlyWhereCrossed /\ LastEditKept /\ SettledAlone /\ NoneBehindHotHolder
=============================================================================
