------------------------------ MODULE SeatProofs ------------------------------
(* A seat keeps its row (SeatArchive), for any holders, reconciles, edits and  *)
(* backfills, and whatever is cut off; its pointer, its mark and its numbers   *)
(* are in order (SeatHolders), for any sessions and activations.               *)
EXTENDS SeatArchive, SeatHolders, FiniteSetTheorems, TLAPS

(* ---- SeatArchive: where the row is ---------------------------------------- *)

Copies == SeatRows \cup {NoRow}
Runs ==
  [at : {"idle", "store", "ledger", "tiers", "plan", "write", "hold", "finish", "recheck"},
   scope : SUBSET SeatSessions, row : Copies, entry : Copies, hot : SUBSET SeatSessions,
   act : {"none", "fold", "unfold", "beside"}, removed : BOOLEAN]

\* The state is well formed.
SeatShape ==
  /\ seatRow \in Copies /\ ledger \in Copies
  /\ tier \in [SeatSessions -> {"hot", "archived"}]
  /\ rec \in [Reconciles -> Runs]
  /\ mint \in {"idle", "planning", "minting"}
  /\ budget \in [moves : Nat, starts : Nat, edits : 0 .. MaxEdits, failures : 0 .. MaxFailures,
                 backfills : Nat]
  /\ quiet \subseteq Reconciles /\ crossed \subseteq {"deleted", "replaced"} /\ mixed \in BOOLEAN

Folding(r) == rec[r].at = "hold" /\ rec[r].act = "fold"

\* What a reconcile has planned, it has read.
PlansRead ==
  \A r \in Reconciles :
    LET q == rec[r] IN
    /\ q.at = "write" => q.act = "fold"
    /\ q.at \in {"write", "hold"} =>
         /\ q.act = "fold" => q.row # NoRow /\ q.row.holder \in q.scope /\ ~q.row.starred
         /\ q.act = "unfold" => q.row = NoRow /\ q.entry # NoRow
         /\ q.act # "none"
    /\ (q.at = "recheck" /\ q.removed) => q.row # NoRow
    /\ q.at = "finish" => ~q.removed

\* Until a ledger file is deleted under a fold, the row is somewhere: a fold in its hold has its
\* file, and a reconcile deletes one only while the row stands and no fold counts on the file.
RowSomewhere ==
  "deleted" \notin crossed =>
    /\ seatRow # NoRow \/ ledger # NoRow
    /\ \A r \in Reconciles : Folding(r) => ledger # NoRow
    /\ \A o \in Reconciles :
         rec[o].at = "finish" => seatRow # NoRow /\ \A r \in Reconciles : ~Folding(r)

\* And until two folds write different rows, that file is the fold's own.
FoldsStand == crossed = {} => \A r \in Reconciles : Folding(r) => ledger = rec[r].row

\* A reconcile that will yet bring the row back, or has just removed it and looks again.
BringsBack(r) ==
  LET q == rec[r] IN
  \/ q.at = "store" /\ ledger.holder \in q.scope
  \/ q.at = "ledger" /\ ledger.holder \in q.scope /\ q.row = NoRow
  \/ q.at = "tiers" /\ ledger.holder \in q.scope /\ q.row = NoRow /\ q.entry = ledger
  \/ /\ q.at = "plan" /\ ledger.holder \in q.scope /\ q.row = NoRow /\ q.entry = ledger
     /\ ledger.holder \in q.hot
  \/ q.at = "hold" /\ q.act = "unfold"
  \/ q.at = "recheck" /\ q.removed /\ q.row.holder = ledger.holder

\* Where nothing was cut off or crossed, a seat in the ledger behind a hot holder is waited for.
Covered ==
  (crossed = {} /\ budget.failures = MaxFailures /\ seatRow = NoRow /\ ledger # NoRow
     /\ tier[ledger.holder] = "hot")
    => \E r \in Reconciles : BringsBack(r)

\* What a reconcile undisturbed since its reads knows of the two places.
ReadsHold(r) ==
  LET q == rec[r] IN
  /\ q.at \in {"ledger", "tiers", "plan", "write", "hold"} => q.row = seatRow
  /\ q.at \in {"tiers", "plan", "write"} => q.entry = ledger
  /\ q.at = "hold" => ledger = IF q.act = "fold" THEN q.row ELSE q.entry

\* Where no row was written beside a reconcile, reconciles and backfills come one after the other,
OneByOne ==
  ~mixed =>
    /\ \A r, s \in UnderWay : r = s
    /\ UnderWay # {} => mint = "idle"
    /\ mint # "idle" => ledger = NoRow
    /\ "deleted" \notin crossed

\* what they have read still holds,
ReadsStand == ~mixed => \A r \in Reconciles : ReadsHold(r)

\* and the copy that counts has the last edit.
EditStands ==
  ~mixed =>
    /\ seatRow # NoRow => seatRow.edit = budget.edits
    /\ seatRow = NoRow => ledger.edit = budget.edits

\* A row that stands in the scope of a reconcile stands for a hot holder, or is starred.
RowSettled(r) ==
  (seatRow # NoRow /\ seatRow.holder \in rec[r].scope /\ tier[seatRow.holder] = "archived")
    => seatRow.starred

\* A reconcile that is left alone knows its way to a settled seat at every step.
QuietKnows ==
  \A r \in quiet :
    LET q == rec[r] IN
    /\ ReadsHold(r)
    /\ q.at = "plan" => q.hot = HotFiles
    /\ (q.at \in {"write", "hold"} /\ q.act = "fold") => tier[q.row.holder] = "archived"
    /\ (q.at = "hold" /\ q.act = "unfold") => tier[q.entry.holder] = "hot"
    /\ (q.at = "hold" /\ q.act = "beside") => seatRow # NoRow /\ RowSettled(r)
    /\ q.at = "finish" => seatRow # NoRow /\ RowSettled(r)
    /\ (q.at = "recheck" /\ q.removed) =>
         seatRow = NoRow /\ ledger = q.row /\ tier[q.row.holder] = "archived"
    /\ (q.at = "recheck" /\ ~q.removed) => ledger = NoRow /\ RowSettled(r)
    /\ q.at = "idle" =>
         /\ RowSettled(r)
         /\ (ledger # NoRow /\ ledger.holder \in q.scope)
              => seatRow = NoRow /\ tier[ledger.holder] = "archived"

SeatInv ==
  SeatShape /\ PlansRead /\ RowSomewhere /\ FoldsStand /\ Covered /\ OneByOne /\ ReadsStand
  /\ EditStands /\ QuietKnows

\* A wave begins a reconcile; it uncovers no seat, as it makes no holder hot.
LEMMA WaveReconcilesKeeps ==
  ASSUME SeatInv, NEW r \in Reconciles, NEW h \in SeatSessions, WaveReconciles(r, h)
  PROVE  SeatInv'
<1> USE SeatArchiveConstants DEF SeatInv, Folding, UnderWay
<1>1. /\ rec' \in [Reconciles -> Runs]
      /\ \A s \in Reconciles : s # r => rec'[s] = rec[s]
      /\ rec[r].at = "idle" /\ rec'[r].at = "store" /\ rec'[r].scope = SeatSessions
      /\ ~rec'[r].removed
  <2>1. /\ rec' = [rec EXCEPT ![r] = [IdleReconcile EXCEPT !.at = "store", !.scope = SeatSessions]]
        /\ rec[r].at = "idle"
    BY DEF WaveReconciles, ReconcileBegins
  <2>2. [IdleReconcile EXCEPT !.at = "store", !.scope = SeatSessions] \in Runs
    BY DEF IdleReconcile, Runs, Copies
  <2> QED
    BY <2>1, <2>2 DEF SeatShape, IdleReconcile
<1>2. /\ quiet' = {r} /\ mixed' \in BOOLEAN
      /\ ~mixed' => ~mixed /\ mint = "idle" /\ \A s \in Reconciles : rec[s].at = "idle"
      /\ UNCHANGED <<seatRow, ledger, mint, crossed>>
  BY DEF WaveReconciles, ReconcileBegins, SeatShape
<1>3. tier' \in [SeatSessions -> {"hot", "archived"}] /\ tier'[h] = "archived"
      /\ \A s \in SeatSessions : s # h => tier'[s] = tier[s]
  BY DEF WaveReconciles, SeatShape
<1>4. /\ budget' \in [moves : Nat, starts : Nat, edits : 0 .. MaxEdits, failures : 0 .. MaxFailures,
                     backfills : Nat]
      /\ budget'.edits = budget.edits /\ budget'.failures = budget.failures
  <2>1. /\ budget' = [budget EXCEPT !.moves = @ - 1, !.starts = @ - 1]
        /\ budget.moves > 0 /\ budget.starts > 0
    BY DEF WaveReconciles, ReconcileBegins
  <2>2. budget.moves - 1 \in Nat /\ budget.starts - 1 \in Nat
    BY <2>1 DEF SeatShape
  <2> QED
    BY <2>1, <2>2 DEF SeatShape
<1>SeatShape. SeatShape'
  BY <1>1, <1>2, <1>3, <1>4 DEF SeatShape
<1>PlansRead. PlansRead'
  BY <1>1 DEF PlansRead
<1>RowSomewhere. RowSomewhere'
  BY <1>1, <1>2 DEF RowSomewhere
<1>FoldsStand. FoldsStand'
  BY <1>1, <1>2 DEF FoldsStand
<1>Covered. Covered'
  <2>1. \A s \in Reconciles : BringsBack(s) => BringsBack(s)'
    BY <1>1, <1>2 DEF BringsBack
  <2>2. ledger.holder = h /\ rec'[r].scope = {h} => BringsBack(r)'
    BY <1>1, <1>2 DEF BringsBack
  <2>3. ledger # NoRow => ledger.holder \in SeatSessions
    BY DEF SeatShape, Copies, SeatRows
  <2> QED
    BY <1>1, <1>2, <1>3, <1>4, <2>1, <2>2, <2>3 DEF Covered, SeatShape
<1>OneByOne. OneByOne'
  BY <1>1, <1>2 DEF OneByOne
<1>ReadsStand. ReadsStand'
  BY <1>1, <1>2 DEF ReadsStand, ReadsHold
<1>EditStands. EditStands'
  BY <1>2, <1>4 DEF EditStands
<1>QuietKnows. QuietKnows'
  BY <1>1, <1>2 DEF QuietKnows, ReadsHold
<1> QED
  BY <1>SeatShape, <1>PlansRead, <1>RowSomewhere, <1>FoldsStand, <1>Covered, <1>OneByOne,
     <1>ReadsStand, <1>EditStands, <1>QuietKnows

\* A restore makes a holder hot and begins the reconcile that covers its seat.
LEMMA RestoreReconcilesKeeps ==
  ASSUME SeatInv, NEW r \in Reconciles, NEW h \in SeatSessions, RestoreReconciles(r, h)
  PROVE  SeatInv'
<1> USE SeatArchiveConstants DEF SeatInv, Folding, UnderWay
<1>1. /\ rec' \in [Reconciles -> Runs]
      /\ \A s \in Reconciles : s # r => rec'[s] = rec[s]
      /\ rec[r].at = "idle" /\ rec'[r].at = "store" /\ rec'[r].scope = {h} /\ ~rec'[r].removed
  <2>1. /\ rec' = [rec EXCEPT ![r] = [IdleReconcile EXCEPT !.at = "store", !.scope = {h}]]
        /\ rec[r].at = "idle"
    BY DEF RestoreReconciles, ReconcileBegins
  <2>2. [IdleReconcile EXCEPT !.at = "store", !.scope = {h}] \in Runs
    BY DEF IdleReconcile, Runs, Copies
  <2> QED
    BY <2>1, <2>2 DEF SeatShape, IdleReconcile
<1>2. /\ quiet' = {r} /\ mixed' \in BOOLEAN
      /\ ~mixed' => ~mixed /\ mint = "idle" /\ \A s \in Reconciles : rec[s].at = "idle"
      /\ UNCHANGED <<seatRow, ledger, mint, crossed>>
  BY DEF RestoreReconciles, ReconcileBegins, SeatShape
<1>3. tier' \in [SeatSessions -> {"hot", "archived"}] /\ tier'[h] = "hot"
      /\ \A s \in SeatSessions : s # h => tier'[s] = tier[s]
  BY DEF RestoreReconciles, SeatShape
<1>4. /\ budget' \in [moves : Nat, starts : Nat, edits : 0 .. MaxEdits, failures : 0 .. MaxFailures,
                     backfills : Nat]
      /\ budget'.edits = budget.edits /\ budget'.failures = budget.failures
  <2>1. /\ budget' = [budget EXCEPT !.moves = @ - 1, !.starts = @ - 1]
        /\ budget.moves > 0 /\ budget.starts > 0
    BY DEF RestoreReconciles, ReconcileBegins
  <2>2. budget.moves - 1 \in Nat /\ budget.starts - 1 \in Nat
    BY <2>1 DEF SeatShape
  <2> QED
    BY <2>1, <2>2 DEF SeatShape
<1>SeatShape. SeatShape'
  BY <1>1, <1>2, <1>3, <1>4 DEF SeatShape
<1>PlansRead. PlansRead'
  BY <1>1 DEF PlansRead
<1>RowSomewhere. RowSomewhere'
  BY <1>1, <1>2 DEF RowSomewhere
<1>FoldsStand. FoldsStand'
  BY <1>1, <1>2 DEF FoldsStand
<1>Covered. Covered'
  <2>1. \A s \in Reconciles : BringsBack(s) => BringsBack(s)'
    BY <1>1, <1>2 DEF BringsBack
  <2>2. ledger.holder = h /\ rec'[r].scope = {h} => BringsBack(r)'
    BY <1>1, <1>2 DEF BringsBack
  <2>3. ledger # NoRow => ledger.holder \in SeatSessions
    BY DEF SeatShape, Copies, SeatRows
  <2> QED
    BY <1>1, <1>2, <1>3, <1>4, <2>1, <2>2, <2>3 DEF Covered, SeatShape
<1>OneByOne. OneByOne'
  BY <1>1, <1>2 DEF OneByOne
<1>ReadsStand. ReadsStand'
  BY <1>1, <1>2 DEF ReadsStand, ReadsHold
<1>EditStands. EditStands'
  BY <1>2, <1>4 DEF EditStands
<1>QuietKnows. QuietKnows'
  BY <1>1, <1>2 DEF QuietKnows, ReadsHold
<1> QED
  BY <1>SeatShape, <1>PlansRead, <1>RowSomewhere, <1>FoldsStand, <1>Covered, <1>OneByOne,
     <1>ReadsStand, <1>EditStands, <1>QuietKnows

\* The command begins a reconcile.
LEMMA CommandReconcilesKeeps ==
  ASSUME SeatInv, NEW r \in Reconciles, NEW h \in SeatSessions, CommandReconciles(r, h)
  PROVE  SeatInv'
<1> USE SeatArchiveConstants DEF SeatInv, Folding, UnderWay
<1>1. /\ rec' \in [Reconciles -> Runs]
      /\ \A s \in Reconciles : s # r => rec'[s] = rec[s]
      /\ rec[r].at = "idle" /\ rec'[r].at = "store" /\ rec'[r].scope = {h} /\ ~rec'[r].removed
  <2>1. /\ rec' = [rec EXCEPT ![r] = [IdleReconcile EXCEPT !.at = "store", !.scope = {h}]]
        /\ rec[r].at = "idle"
    BY DEF CommandReconciles, ReconcileBegins
  <2>2. [IdleReconcile EXCEPT !.at = "store", !.scope = {h}] \in Runs
    BY DEF IdleReconcile, Runs, Copies
  <2> QED
    BY <2>1, <2>2 DEF SeatShape, IdleReconcile
<1>2. /\ quiet' = {r} /\ mixed' \in BOOLEAN
      /\ ~mixed' => ~mixed /\ mint = "idle" /\ \A s \in Reconciles : rec[s].at = "idle"
      /\ UNCHANGED <<seatRow, ledger, mint, crossed>>
  BY DEF CommandReconciles, ReconcileBegins, SeatShape
<1>3. tier' = tier
  BY DEF CommandReconciles, SeatShape
<1>4. /\ budget' \in [moves : Nat, starts : Nat, edits : 0 .. MaxEdits, failures : 0 .. MaxFailures,
                     backfills : Nat]
      /\ budget'.edits = budget.edits /\ budget'.failures = budget.failures
  BY DEF CommandReconciles, ReconcileBegins, SeatShape
<1>SeatShape. SeatShape'
  BY <1>1, <1>2, <1>3, <1>4 DEF SeatShape
<1>PlansRead. PlansRead'
  BY <1>1 DEF PlansRead
<1>RowSomewhere. RowSomewhere'
  BY <1>1, <1>2 DEF RowSomewhere
<1>FoldsStand. FoldsStand'
  BY <1>1, <1>2 DEF FoldsStand
<1>Covered. Covered'
  <2>1. \A s \in Reconciles : BringsBack(s) => BringsBack(s)'
    BY <1>1, <1>2 DEF BringsBack
  <2>2. ledger.holder = h /\ rec'[r].scope = {h} => BringsBack(r)'
    BY <1>1, <1>2 DEF BringsBack
  <2>3. ledger # NoRow => ledger.holder \in SeatSessions
    BY DEF SeatShape, Copies, SeatRows
  <2> QED
    BY <1>1, <1>2, <1>3, <1>4, <2>1, <2>2, <2>3 DEF Covered, SeatShape
<1>OneByOne. OneByOne'
  BY <1>1, <1>2 DEF OneByOne
<1>ReadsStand. ReadsStand'
  BY <1>1, <1>2 DEF ReadsStand, ReadsHold
<1>EditStands. EditStands'
  BY <1>2, <1>4 DEF EditStands
<1>QuietKnows. QuietKnows'
  BY <1>1, <1>2 DEF QuietKnows, ReadsHold
<1> QED
  BY <1>SeatShape, <1>PlansRead, <1>RowSomewhere, <1>FoldsStand, <1>Covered, <1>OneByOne,
     <1>ReadsStand, <1>EditStands, <1>QuietKnows

\* A reconcile that goes on with what it has read, planned or done is well formed.
LEMMA RunGoesOn ==
  ASSUME NEW q \in Runs,
         NEW at \in {"idle", "store", "ledger", "tiers", "plan", "write", "hold", "finish", "recheck"}
  PROVE  /\ \A c \in Copies : /\ [[q EXCEPT !.row = c] EXCEPT !.at = at] \in Runs
                            /\ [[q EXCEPT !.entry = c] EXCEPT !.at = at] \in Runs
         /\ \A held \in SUBSET SeatSessions : [[q EXCEPT !.hot = held] EXCEPT !.at = at] \in Runs
         /\ \A act \in {"none", "fold", "unfold", "beside"} :
              [[q EXCEPT !.act = act] EXCEPT !.at = at] \in Runs
         /\ \A gone \in BOOLEAN : [[q EXCEPT !.at = at] EXCEPT !.removed = gone] \in Runs
<1>1. \A c \in Copies : [[q EXCEPT !.row = c] EXCEPT !.at = at] \in Runs
  BY DEF Runs
<1>2. \A c \in Copies : [[q EXCEPT !.entry = c] EXCEPT !.at = at] \in Runs
  BY DEF Runs
<1>3. \A held \in SUBSET SeatSessions : [[q EXCEPT !.hot = held] EXCEPT !.at = at] \in Runs
  BY DEF Runs
<1>4. \A act \in {"none", "fold", "unfold", "beside"} :
        [[q EXCEPT !.act = act] EXCEPT !.at = at] \in Runs
  BY DEF Runs
<1>5. \A gone \in BOOLEAN : [[q EXCEPT !.at = at] EXCEPT !.removed = gone] \in Runs
  BY DEF Runs
<1> QED
  BY <1>1, <1>2, <1>3, <1>4, <1>5

\* The row is read.
LEMMA ReadSeatStoreKeeps ==
  ASSUME SeatInv, NEW r \in Reconciles, ReadSeatStore(r)
  PROVE  SeatInv'
<1> USE SeatArchiveConstants DEF SeatInv, Folding, UnderWay
<1>1. /\ rec[r].at = "store" /\ quiet' = quiet \cap {r}
      /\ rec' = [rec EXCEPT ![r] = [[rec[r] EXCEPT !.row = seatRow] EXCEPT !.at = "ledger"]]
      /\ UNCHANGED <<seatRow, ledger, tier, mint, budget, crossed, mixed>>
  BY DEF ReadSeatStore, Reading, AlongOf
<1>2. /\ rec' \in [Reconciles -> Runs]
      /\ \A s \in Reconciles : s # r => rec'[s] = rec[s]
      /\ rec'[r].at = "ledger" /\ rec'[r].row = seatRow
      /\ rec'[r].scope = rec[r].scope /\ rec'[r].entry = rec[r].entry
      /\ rec'[r].hot = rec[r].hot
      /\ rec'[r].act = rec[r].act /\ rec'[r].removed = rec[r].removed
  <2>1. rec \in [Reconciles -> Runs] /\ rec[r] \in Runs /\ seatRow \in Copies
    BY DEF SeatShape
  <2>2. PICK n \in Runs : n = [[rec[r] EXCEPT !.row = seatRow] EXCEPT !.at = "ledger"]
    BY <2>1, RunGoesOn
  <2>3. /\ n.at = "ledger" /\ n.row = seatRow
        /\ n.scope = rec[r].scope /\ n.entry = rec[r].entry /\ n.hot = rec[r].hot
        /\ n.act = rec[r].act /\ n.removed = rec[r].removed
    BY <2>1, <2>2 DEF Runs
  <2>4. rec' = [rec EXCEPT ![r] = n]
    BY <1>1, <2>2
  <2> QED
    BY <2>1, <2>2, <2>3, <2>4
<1>SeatShape. SeatShape'
  BY <1>1, <1>2 DEF SeatShape
<1>PlansRead. PlansRead'
  BY <1>1 DEF PlansRead
<1>RowSomewhere. RowSomewhere'
  BY <1>1 DEF RowSomewhere
<1>FoldsStand. FoldsStand'
  BY <1>1 DEF FoldsStand
<1>Covered. Covered'
  BY <1>1 DEF Covered, BringsBack
<1>OneByOne. OneByOne'
  BY <1>1 DEF OneByOne
<1>ReadsStand. ReadsStand'
  BY <1>1 DEF ReadsStand, ReadsHold
<1>EditStands. EditStands'
  BY <1>1 DEF EditStands
<1>QuietKnows. QuietKnows'
  BY <1>1 DEF QuietKnows, ReadsHold
<1> QED
  BY <1>SeatShape, <1>PlansRead, <1>RowSomewhere, <1>FoldsStand, <1>Covered, <1>OneByOne,
     <1>ReadsStand, <1>EditStands, <1>QuietKnows

\* The ledger file is read after it.
LEMMA ReadLedgerKeeps ==
  ASSUME SeatInv, NEW r \in Reconciles, ReadLedger(r)
  PROVE  SeatInv'
<1> USE SeatArchiveConstants DEF SeatInv, Folding, UnderWay
<1>1. /\ rec[r].at = "ledger" /\ quiet' = quiet \cap {r}
      /\ rec' = [rec EXCEPT ![r] = [[rec[r] EXCEPT !.entry = ledger] EXCEPT !.at = "tiers"]]
      /\ UNCHANGED <<seatRow, ledger, tier, mint, budget, crossed, mixed>>
  BY DEF ReadLedger, Reading, AlongOf
<1>2. /\ rec' \in [Reconciles -> Runs]
      /\ \A s \in Reconciles : s # r => rec'[s] = rec[s]
      /\ rec'[r].at = "tiers" /\ rec'[r].entry = ledger
      /\ rec'[r].scope = rec[r].scope /\ rec'[r].row = rec[r].row
      /\ rec'[r].hot = rec[r].hot
      /\ rec'[r].act = rec[r].act /\ rec'[r].removed = rec[r].removed
  <2>1. rec \in [Reconciles -> Runs] /\ rec[r] \in Runs /\ ledger \in Copies
    BY DEF SeatShape
  <2>2. PICK n \in Runs : n = [[rec[r] EXCEPT !.entry = ledger] EXCEPT !.at = "tiers"]
    BY <2>1, RunGoesOn
  <2>3. /\ n.at = "tiers" /\ n.entry = ledger
        /\ n.scope = rec[r].scope /\ n.row = rec[r].row /\ n.hot = rec[r].hot
        /\ n.act = rec[r].act /\ n.removed = rec[r].removed
    BY <2>1, <2>2 DEF Runs
  <2>4. rec' = [rec EXCEPT ![r] = n]
    BY <1>1, <2>2
  <2> QED
    BY <2>1, <2>2, <2>3, <2>4
<1>SeatShape. SeatShape'
  BY <1>1, <1>2 DEF SeatShape
<1>PlansRead. PlansRead'
  BY <1>1 DEF PlansRead
<1>RowSomewhere. RowSomewhere'
  BY <1>1 DEF RowSomewhere
<1>FoldsStand. FoldsStand'
  BY <1>1 DEF FoldsStand
<1>Covered. Covered'
  BY <1>1 DEF Covered, BringsBack
<1>OneByOne. OneByOne'
  BY <1>1 DEF OneByOne
<1>ReadsStand. ReadsStand'
  BY <1>1 DEF ReadsStand, ReadsHold
<1>EditStands. EditStands'
  BY <1>1 DEF EditStands
<1>QuietKnows. QuietKnows'
  BY <1>1 DEF QuietKnows, ReadsHold
<1> QED
  BY <1>SeatShape, <1>PlansRead, <1>RowSomewhere, <1>FoldsStand, <1>Covered, <1>OneByOne,
     <1>ReadsStand, <1>EditStands, <1>QuietKnows

\* The hot files are listed.
LEMMA ReadHotFilesKeeps ==
  ASSUME SeatInv, NEW r \in Reconciles, ReadHotFiles(r)
  PROVE  SeatInv'
<1> USE SeatArchiveConstants DEF SeatInv, Folding, UnderWay
<1>1. /\ rec[r].at = "tiers" /\ quiet' = quiet \cap {r}
      /\ rec' = [rec EXCEPT ![r] = [[rec[r] EXCEPT !.hot = HotFiles] EXCEPT !.at = "plan"]]
      /\ UNCHANGED <<seatRow, ledger, tier, mint, budget, crossed, mixed>>
  BY DEF ReadHotFiles, Reading, AlongOf
<1>2. /\ rec' \in [Reconciles -> Runs]
      /\ \A s \in Reconciles : s # r => rec'[s] = rec[s]
      /\ rec'[r].at = "plan" /\ rec'[r].hot = HotFiles
      /\ rec'[r].scope = rec[r].scope /\ rec'[r].row = rec[r].row /\ rec'[r].entry = rec[r].entry
      /\ rec'[r].act = rec[r].act /\ rec'[r].removed = rec[r].removed
  <2>1. rec \in [Reconciles -> Runs] /\ rec[r] \in Runs /\ HotFiles \in SUBSET SeatSessions
    BY DEF SeatShape, HotFiles
  <2>2. PICK n \in Runs : n = [[rec[r] EXCEPT !.hot = HotFiles] EXCEPT !.at = "plan"]
    BY <2>1, RunGoesOn
  <2>3. /\ n.at = "plan" /\ n.hot = HotFiles
        /\ n.scope = rec[r].scope /\ n.row = rec[r].row /\ n.entry = rec[r].entry
        /\ n.act = rec[r].act /\ n.removed = rec[r].removed
    BY <2>1, <2>2 DEF Runs
  <2>4. rec' = [rec EXCEPT ![r] = n]
    BY <1>1, <2>2
  <2> QED
    BY <2>1, <2>2, <2>3, <2>4
<1>SeatShape. SeatShape'
  BY <1>1, <1>2 DEF SeatShape
<1>PlansRead. PlansRead'
  BY <1>1 DEF PlansRead
<1>RowSomewhere. RowSomewhere'
  BY <1>1 DEF RowSomewhere
<1>FoldsStand. FoldsStand'
  BY <1>1 DEF FoldsStand
<1>Covered. Covered'
  <2>1. \A s \in Reconciles : s # r /\ BringsBack(s) => BringsBack(s)'
    BY <1>1, <1>2 DEF BringsBack
  <2>2. ledger # NoRow /\ tier[ledger.holder] = "hot" /\ BringsBack(r) => BringsBack(r)'
    BY <1>1, <1>2 DEF BringsBack, SeatShape, Copies, SeatRows, HotFiles
  <2> QED
    BY <1>1, <2>1, <2>2 DEF Covered
<1>OneByOne. OneByOne'
  BY <1>1 DEF OneByOne
<1>ReadsStand. ReadsStand'
  BY <1>1 DEF ReadsStand, ReadsHold
<1>EditStands. EditStands'
  BY <1>1 DEF EditStands
<1>QuietKnows. QuietKnows'
  BY <1>1 DEF QuietKnows, ReadsHold, HotFiles
<1> QED
  BY <1>SeatShape, <1>PlansRead, <1>RowSomewhere, <1>FoldsStand, <1>Covered, <1>OneByOne,
     <1>ReadsStand, <1>EditStands, <1>QuietKnows

\* The plan is made of what was read, and of the tier of the row's holder as it is now.
LEMMA PlanReconcileKeeps ==
  ASSUME SeatInv, NEW r \in Reconciles, PlanReconcile(r)
  PROVE  SeatInv'
<1> USE SeatArchiveConstants DEF SeatInv, Folding, UnderWay
<1> DEFINE q == rec[r]
           act == PlanFor(q)
           next == IF act = "fold" THEN "write" ELSE IF act = "none" THEN "idle" ELSE "hold"
<1>1. /\ q.at = "plan" /\ quiet' = quiet \cap {r}
      /\ rec' = [rec EXCEPT ![r] = [[q EXCEPT !.act = act] EXCEPT !.at = next]]
      /\ UNCHANGED <<seatRow, ledger, tier, mint, budget, crossed, mixed>>
  BY DEF PlanReconcile, Reading, AlongOf
<1>2. /\ act \in {"none", "fold", "unfold", "beside"}
      /\ act = "fold" <=> FoldPlanned(q)
      /\ act \in {"unfold", "beside"} => q.entry # NoRow /\ q.entry.holder \in q.scope
      /\ act = "beside" => q.row # NoRow
      /\ act = "unfold" => q.row = NoRow /\ q.entry.holder \in q.hot
      /\ act = "none" => (q.entry = NoRow \/ q.entry.holder \notin q.scope
                          \/ (q.row = NoRow /\ q.entry.holder \notin q.hot))
  BY DEF PlanFor, FoldPlanned
<1> HIDE DEF act
<1>3. /\ rec' \in [Reconciles -> Runs]
      /\ \A s \in Reconciles : s # r => rec'[s] = rec[s]
      /\ rec'[r].at = next /\ rec'[r].act = act /\ rec'[r].scope = q.scope /\ rec'[r].row = q.row
      /\ rec'[r].entry = q.entry /\ rec'[r].hot = q.hot /\ rec'[r].removed = q.removed
  <2>1. rec \in [Reconciles -> Runs] /\ q \in Runs
    BY DEF SeatShape
  <2>2. next \in {"idle", "plan", "write", "hold", "finish", "recheck"}
    OBVIOUS
  <2> HIDE DEF next
  <2>3. PICK n \in Runs : n = [[q EXCEPT !.act = act] EXCEPT !.at = next]
    BY <1>2, <2>1, <2>2, RunGoesOn
  <2>4. /\ n.at = next /\ n.act = act /\ n.scope = q.scope /\ n.row = q.row
        /\ n.entry = q.entry /\ n.hot = q.hot /\ n.removed = q.removed
    BY <2>1, <2>3 DEF Runs
  <2>5. rec' = [rec EXCEPT ![r] = n]
    BY <1>1, <2>3
  <2> QED
    BY <2>1, <2>3, <2>4, <2>5
<1>SeatShape. SeatShape'
  BY <1>1, <1>3 DEF SeatShape
<1>PlansRead. PlansRead'
  BY <1>1, <1>2 DEF PlansRead, FoldPlanned
<1>RowSomewhere. RowSomewhere'
  BY <1>1 DEF RowSomewhere
<1>FoldsStand. FoldsStand'
  BY <1>1 DEF FoldsStand
<1>Covered. Covered'
  <2>1. \A s \in Reconciles : s # r /\ BringsBack(s) => BringsBack(s)'
    BY <1>1, <1>3 DEF BringsBack
  <2>2. ledger # NoRow /\ BringsBack(r) => BringsBack(r)'
    BY <1>1, <1>2, <1>3 DEF BringsBack, FoldPlanned
  <2> QED
    BY <1>1, <2>1, <2>2 DEF Covered
<1>OneByOne. OneByOne'
  BY <1>1 DEF OneByOne
<1>ReadsStand. ReadsStand'
  BY <1>1 DEF ReadsStand, ReadsHold
<1>EditStands. EditStands'
  BY <1>1 DEF EditStands
<1>QuietKnows. QuietKnows'
  BY <1>1, <1>2 DEF SeatShape, QuietKnows, ReadsHold, RowSettled, HotFiles, FoldPlanned, Copies,
     SeatRows
<1> QED
  BY <1>SeatShape, <1>PlansRead, <1>RowSomewhere, <1>FoldsStand, <1>Covered, <1>OneByOne,
     <1>ReadsStand, <1>EditStands, <1>QuietKnows

\* The file of a fold lands.
LEMMA WriteLedgerFileKeeps ==
  ASSUME SeatInv, NEW r \in Reconciles, WriteLedgerFile(r)
  PROVE  SeatInv'
<1> USE SeatArchiveConstants DEF SeatInv, Folding, UnderWay
<1>1. /\ rec[r].at = "write" /\ quiet' = quiet \cap {r} /\ ledger' = rec[r].row
      /\ rec' = [rec EXCEPT ![r].at = "hold"]
      /\ UNCHANGED <<seatRow, tier, mint, budget, mixed>>
      /\ crossed \subseteq crossed' /\ crossed' \subseteq crossed \cup {"deleted", "replaced"}
      /\ "replaced" \notin crossed' => ledger \in {NoRow, rec[r].row}
      /\ "deleted" \notin crossed' => \A o \in Reconciles : o # r => rec[o].at # "finish"
      /\ (\A o \in Reconciles : o # r => rec[o].at = "idle") /\ "deleted" \notin crossed
           => "deleted" \notin crossed'
  BY DEF WriteLedgerFile, AlongOf
<1>2. /\ rec' \in [Reconciles -> Runs]
      /\ \A s \in Reconciles : s # r => rec'[s] = rec[s]
      /\ rec'[r].at = "hold" /\ rec'[r].act = rec[r].act /\ rec'[r].scope = rec[r].scope
      /\ rec'[r].row = rec[r].row /\ rec'[r].entry = rec[r].entry /\ rec'[r].hot = rec[r].hot
      /\ rec'[r].removed = rec[r].removed
  BY <1>1 DEF SeatShape, Runs
<1>3. rec[r].row \in Copies
  BY DEF SeatShape, Runs
<1>SeatShape. SeatShape'
  BY <1>1, <1>2, <1>3 DEF SeatShape
<1>PlansRead. PlansRead'
  BY <1>1 DEF PlansRead
<1>RowSomewhere. RowSomewhere'
  BY <1>1 DEF PlansRead, RowSomewhere
<1>FoldsStand. FoldsStand'
  BY <1>1 DEF PlansRead, FoldsStand
<1>Covered. Covered'
  BY <1>1 DEF RowSomewhere, Covered, BringsBack
<1>OneByOne. OneByOne'
  BY <1>1 DEF OneByOne
<1>ReadsStand. ReadsStand'
  BY <1>1, <1>2 DEF PlansRead, OneByOne, ReadsStand, ReadsHold
<1>EditStands. EditStands'
  BY <1>1 DEF PlansRead, ReadsStand, EditStands, ReadsHold
<1>QuietKnows. QuietKnows'
  BY <1>1, <1>2 DEF PlansRead, QuietKnows, ReadsHold
<1> QED
  BY <1>SeatShape, <1>PlansRead, <1>RowSomewhere, <1>FoldsStand, <1>Covered, <1>OneByOne,
     <1>ReadsStand, <1>EditStands, <1>QuietKnows

\* The hold decides against the row as it is.
LEMMA ApplyInOneWriteKeeps ==
  ASSUME SeatInv, NEW r \in Reconciles, ApplyInOneWrite(r)
  PROVE  SeatInv'
<1> USE SeatArchiveConstants DEF SeatInv, Folding, UnderWay
<1> DEFINE q == rec[r]
<1>1. /\ q.at = "hold" /\ quiet' = quiet \cap {r}
      /\ seatRow' = (IF RemovesRow(q) THEN NoRow ELSE IF InsertsRow(q) THEN q.entry ELSE seatRow)
      /\ rec' = [rec EXCEPT ![r].at = IF LedgerFileGoes(q) THEN "finish" ELSE "recheck",
                            ![r].removed = RemovesRow(q)]
      /\ UNCHANGED <<ledger, tier, mint, budget, mixed>>
      /\ crossed \subseteq crossed' /\ crossed' \subseteq crossed \cup {"deleted", "replaced"}
      /\ "deleted" \notin crossed' /\ LedgerFileGoes(q)
           => \A o \in Reconciles : o # r => ~Folding(o)
      /\ (\A o \in Reconciles : o # r => rec[o].at = "idle") /\ "deleted" \notin crossed
           => "deleted" \notin crossed'
  BY DEF ApplyInOneWrite, AlongOf
<1>2. RemovesRow(q) \in BOOLEAN
  BY DEF RemovesRow
<1>3. /\ rec' \in [Reconciles -> Runs]
      /\ \A s \in Reconciles : s # r => rec'[s] = rec[s]
      /\ rec'[r].at = (IF LedgerFileGoes(q) THEN "finish" ELSE "recheck")
      /\ rec'[r].removed = RemovesRow(q) /\ rec'[r].act = q.act /\ rec'[r].scope = q.scope
      /\ rec'[r].row = q.row /\ rec'[r].entry = q.entry /\ rec'[r].hot = q.hot
  <2> DEFINE next == IF LedgerFileGoes(q) THEN "finish" ELSE "recheck"
             gone == RemovesRow(q)
  <2>1. rec' = [rec EXCEPT ![r].at = next, ![r].removed = gone]
    BY <1>1
  <2>2. next \in {"finish", "recheck"} /\ gone \in BOOLEAN
    BY <1>2
  <2>3. next = (IF LedgerFileGoes(q) THEN "finish" ELSE "recheck") /\ gone = RemovesRow(q)
    OBVIOUS
  <2> HIDE DEF next, gone
  <2>4. rec \in [Reconciles -> Runs] /\ q \in Runs
    BY DEF SeatShape
  <2>5. PICK n \in Runs : n = [[q EXCEPT !.at = next] EXCEPT !.removed = gone]
    BY <2>2, <2>4, RunGoesOn
  <2>6. /\ n.at = next /\ n.act = q.act /\ n.scope = q.scope /\ n.row = q.row
        /\ n.entry = q.entry /\ n.hot = q.hot /\ n.removed = gone
    BY <2>4, <2>5 DEF Runs
  <2>7. rec' = [rec EXCEPT ![r] = n]
    BY <2>1, <2>4, <2>5
  <2> QED
    BY <2>3, <2>4, <2>5, <2>6, <2>7
<1>4. q.row \in Copies /\ q.entry \in Copies
  BY DEF SeatShape, Runs
<1> USE DEF RemovesRow, InsertsRow, LedgerFileGoes
<1>SeatShape. SeatShape'
  <2>1. seatRow' \in Copies
    BY <1>1, <1>4 DEF SeatShape, Copies
  <2> QED
    BY <1>1, <1>3, <2>1 DEF SeatShape
<1>PlansRead. PlansRead'
  <2>1. RemovesRow(q) => ~LedgerFileGoes(q) /\ q.row # NoRow
    BY <1>1 DEF PlansRead
  <2>2. /\ rec'[r].at \in {"finish", "recheck"} /\ rec'[r].row = q.row
        /\ rec'[r].removed => rec'[r].at = "recheck" /\ q.row # NoRow
    <3>1. CASE RemovesRow(q)
      BY <1>3, <2>1, <3>1
    <3>2. CASE ~RemovesRow(q)
      BY <1>3, <3>2
    <3> QED
      BY <3>1, <3>2
  <2> QED
    BY <1>3, <2>2 DEF PlansRead
<1>RowSomewhere. RowSomewhere'
  <2>1. seatRow # NoRow => seatRow' # NoRow \/ (RemovesRow(q) /\ Folding(r) /\ ~LedgerFileGoes(q))
    BY <1>1
  <2>2. InsertsRow(q) => seatRow' # NoRow
    BY <1>1 DEF PlansRead
  <2>3. rec'[r].at = "finish" => seatRow' # NoRow
    BY <1>1, <1>3, <2>1, <2>2
  <2>4. \A o \in Reconciles : Folding(o)' => Folding(o) /\ o # r
    BY <1>3
  <2>5. \A o \in Reconciles : rec'[o].at = "finish" => (o = r /\ LedgerFileGoes(q)) \/ (o # r /\ rec[o].at = "finish")
    BY <1>3
  <2>6. "deleted" \notin crossed' => "deleted" \notin crossed
    BY <1>1
  <2> HIDE DEF RemovesRow, InsertsRow, LedgerFileGoes
  <2> QED
    BY <1>1, <1>3, <2>1, <2>2, <2>3, <2>4, <2>5, <2>6 DEF RowSomewhere
<1>FoldsStand. FoldsStand'
  BY <1>1, <1>3 DEF FoldsStand
<1>Covered. Covered'
  <2>1. \A s \in Reconciles : s # r /\ BringsBack(s) => BringsBack(s)'
    BY <1>1, <1>3 DEF BringsBack
  <2>2. crossed' = {} /\ RemovesRow(q) => BringsBack(r)'
    BY <1>1, <1>3 DEF BringsBack, FoldsStand
  <2>3. InsertsRow(q) => seatRow' # NoRow
    BY <1>1 DEF PlansRead
  <2>4. BringsBack(r) /\ seatRow = NoRow => InsertsRow(q)
    BY <1>1 DEF BringsBack
  <2> QED
    BY <1>1, <2>1, <2>2, <2>3, <2>4 DEF Covered
<1>5. UnderWay' = UnderWay /\ r \in UnderWay
  BY <1>1, <1>3
<1>OneByOne. OneByOne'
  <2>1. ~mixed => \A o \in Reconciles : o # r => rec[o].at = "idle"
    BY <1>1 DEF OneByOne
  <2>2. ~mixed => "deleted" \notin crossed'
    BY <1>1, <2>1 DEF OneByOne
  <2> HIDE DEF RemovesRow, InsertsRow, LedgerFileGoes, UnderWay
  <2> QED
    BY <1>1, <1>5, <2>2 DEF OneByOne
<1>ReadsStand. ReadsStand'
  <2>1. ~mixed => \A o \in Reconciles : o # r => rec[o].at = "idle"
    BY <1>1 DEF OneByOne
  <2>2. rec'[r].at \in {"finish", "recheck"}
    BY <1>3
  <2> HIDE DEF RemovesRow, InsertsRow, LedgerFileGoes, UnderWay
  <2> QED
    BY <1>1, <1>3, <2>1, <2>2 DEF ReadsStand, ReadsHold
<1>EditStands. EditStands'
  BY <1>1 DEF ReadsStand, EditStands, ReadsHold
<1>QuietKnows. QuietKnows'
  <2> SUFFICES ASSUME r \in quiet
               PROVE  QuietKnows'
    BY <1>1 DEF QuietKnows
  <2>1. q.row = seatRow /\ ledger = IF q.act = "fold" THEN q.row ELSE q.entry
    BY <1>1 DEF QuietKnows, ReadsHold
  <2>2. CASE q.act = "fold"
    <3>1. RemovesRow(q) /\ ~LedgerFileGoes(q) /\ tier[q.row.holder] = "archived"
      BY <1>1, <2>1, <2>2 DEF PlansRead, QuietKnows
    <3>2. rec'[r].at = "recheck" /\ rec'[r].removed /\ rec'[r].row = q.row /\ seatRow' = NoRow
      BY <1>1, <1>3, <3>1
    <3>3. ledger = q.row
      BY <2>1, <2>2
    <3> QED
      BY <1>1, <3>1, <3>2, <3>3 DEF QuietKnows, ReadsHold
  <2>3. CASE q.act = "unfold"
    <3>1. ~RemovesRow(q) /\ InsertsRow(q) /\ q.entry # NoRow /\ tier[q.entry.holder] = "hot"
      BY <1>1, <2>1, <2>3 DEF PlansRead, QuietKnows
    <3> QED
      BY <1>1, <1>3, <3>1 DEF QuietKnows, ReadsHold, RowSettled
  <2>4. CASE q.act = "beside"
    <3>1. ~RemovesRow(q) /\ ~InsertsRow(q) /\ LedgerFileGoes(q) /\ seatRow # NoRow /\ RowSettled(r)
      BY <1>1, <2>4 DEF QuietKnows
    <3>2. rec'[r].at = "finish" /\ rec'[r].scope = q.scope /\ seatRow' = seatRow
      BY <1>1, <1>3, <3>1
    <3>3. RowSettled(r)'
      BY <1>1, <3>1, <3>2 DEF RowSettled
    <3> QED
      BY <1>1, <1>3, <3>1, <3>2, <3>3 DEF QuietKnows, ReadsHold
  <2> QED
    BY <1>1, <2>2, <2>3, <2>4 DEF PlansRead, SeatShape, Runs
<1> QED
  BY <1>SeatShape, <1>PlansRead, <1>RowSomewhere, <1>FoldsStand, <1>Covered, <1>OneByOne,
     <1>ReadsStand, <1>EditStands, <1>QuietKnows

\* A redundant file goes, and the row stands beside it.
LEMMA DeleteLedgerFileKeeps ==
  ASSUME SeatInv, NEW r \in Reconciles, DeleteLedgerFile(r)
  PROVE  SeatInv'
<1> USE SeatArchiveConstants DEF SeatInv, Folding, UnderWay
<1>1. /\ rec[r].at = "finish" /\ quiet' = quiet \cap {r} /\ ledger' = NoRow
      /\ rec' = [rec EXCEPT ![r].at = "recheck"]
      /\ UNCHANGED <<seatRow, tier, mint, budget, crossed, mixed>>
  BY DEF DeleteLedgerFile, AlongOf
<1>2. /\ rec' \in [Reconciles -> Runs]
      /\ \A s \in Reconciles : s # r => rec'[s] = rec[s]
      /\ rec'[r].at = "recheck" /\ rec'[r].act = rec[r].act /\ rec'[r].scope = rec[r].scope
      /\ rec'[r].row = rec[r].row /\ rec'[r].entry = rec[r].entry /\ rec'[r].hot = rec[r].hot
      /\ rec'[r].removed = rec[r].removed
  BY <1>1 DEF SeatShape, Runs
<1>3. NoRow \in Copies
  BY DEF Copies
<1>SeatShape. SeatShape'
  BY <1>1, <1>2, <1>3 DEF SeatShape
<1>PlansRead. PlansRead'
  BY <1>1 DEF PlansRead
<1>RowSomewhere. RowSomewhere'
  BY <1>1 DEF RowSomewhere
<1>FoldsStand. FoldsStand'
  BY <1>1 DEF RowSomewhere, FoldsStand
<1>Covered. Covered'
  BY <1>1 DEF Covered
<1>OneByOne. OneByOne'
  BY <1>1 DEF OneByOne
<1>ReadsStand. ReadsStand'
  BY <1>1 DEF OneByOne, ReadsStand, ReadsHold
<1>EditStands. EditStands'
  BY <1>1 DEF RowSomewhere, OneByOne, EditStands
<1>QuietKnows. QuietKnows'
  BY <1>1 DEF PlansRead, QuietKnows, ReadsHold, RowSettled
<1> QED
  BY <1>SeatShape, <1>PlansRead, <1>RowSomewhere, <1>FoldsStand, <1>Covered, <1>OneByOne,
     <1>ReadsStand, <1>EditStands, <1>QuietKnows

\* A fold that is through looks for its holder again.
LEMMA UnfoldRacedHoldersKeeps ==
  ASSUME SeatInv, NEW r \in Reconciles, UnfoldRacedHolders(r)
  PROVE  SeatInv'
<1> USE SeatArchiveConstants DEF SeatInv, Folding, UnderWay
<1> DEFINE q == rec[r]
           raced == q.removed /\ tier[q.row.holder] = "hot"
<1>1. /\ q.at = "recheck" /\ quiet' = quiet \cap {r}
      /\ UNCHANGED <<seatRow, ledger, tier, mint, budget, crossed, mixed>>
  BY DEF UnfoldRacedHolders, Reading, AlongOf
<1>2. q.removed => q.row.holder \in SeatSessions
  BY <1>1 DEF SeatShape, Runs, Copies, SeatRows, PlansRead
<1>3. /\ rec' \in [Reconciles -> Runs]
      /\ \A s \in Reconciles : s # r => rec'[s] = rec[s]
      /\ raced => rec'[r].at = "store" /\ rec'[r].scope = {q.row.holder} /\ ~rec'[r].removed
      /\ ~raced => /\ rec'[r].at = "idle" /\ rec'[r].scope = q.scope /\ rec'[r].row = q.row
                   /\ rec'[r].entry = q.entry /\ rec'[r].hot = q.hot /\ rec'[r].act = q.act
                   /\ rec'[r].removed = q.removed
  <2>1. CASE raced
    <3>1. rec' = [rec EXCEPT
                    ![r] = [[IdleReconcile EXCEPT !.scope = {q.row.holder}] EXCEPT !.at = "store"]]
      BY <2>1 DEF UnfoldRacedHolders, Reading
    <3>2. [[IdleReconcile EXCEPT !.scope = {q.row.holder}] EXCEPT !.at = "store"] \in Runs
      BY <1>2, <2>1 DEF IdleReconcile, Runs, Copies
    <3> QED
      BY <2>1, <3>1, <3>2 DEF SeatShape, IdleReconcile
  <2>2. CASE ~raced
    <3>1. rec' = [rec EXCEPT ![r] = [q EXCEPT !.at = "idle"]]
      BY <2>2 DEF UnfoldRacedHolders, Reading
    <3> QED
      BY <2>2, <3>1 DEF SeatShape, Runs
  <2> QED
    BY <2>1, <2>2
<1>SeatShape. SeatShape'
  BY <1>1, <1>3 DEF SeatShape
<1>PlansRead. PlansRead'
  BY <1>3 DEF PlansRead
<1>RowSomewhere. RowSomewhere'
  BY <1>1, <1>3 DEF RowSomewhere
<1>FoldsStand. FoldsStand'
  BY <1>1, <1>3 DEF FoldsStand
<1>Covered. Covered'
  BY <1>1, <1>3 DEF Covered, BringsBack
<1>OneByOne. OneByOne'
  BY <1>1, <1>3 DEF OneByOne
<1>ReadsStand. ReadsStand'
  BY <1>1, <1>3 DEF ReadsStand, ReadsHold
<1>EditStands. EditStands'
  BY <1>1 DEF EditStands
<1>QuietKnows. QuietKnows'
  BY <1>1, <1>3 DEF QuietKnows, ReadsHold, RowSettled
<1> QED
  BY <1>SeatShape, <1>PlansRead, <1>RowSomewhere, <1>FoldsStand, <1>Covered, <1>OneByOne,
     <1>ReadsStand, <1>EditStands, <1>QuietKnows

\* A reconcile that is cut off leaves the files as they are.
LEMMA ReconcileFailsKeeps ==
  ASSUME SeatInv, NEW r \in Reconciles, ReconcileFails(r)
  PROVE  SeatInv'
<1> USE SeatArchiveConstants DEF SeatInv, Folding, UnderWay
<1>1. /\ budget.failures > 0 /\ rec' = [rec EXCEPT ![r] = IdleReconcile] /\ quiet' = quiet \ {r}
      /\ budget' = [budget EXCEPT !.failures = @ - 1]
      /\ UNCHANGED <<seatRow, ledger, tier, mint, crossed, mixed>>
  BY DEF ReconcileFails
<1>2. IdleReconcile \in Runs /\ IdleReconcile.at = "idle"
  BY DEF IdleReconcile, Runs, Copies
<1>3. /\ rec' \in [Reconciles -> Runs] /\ rec'[r].at = "idle"
      /\ \A s \in Reconciles : s # r => rec'[s] = rec[s]
  BY <1>1, <1>2 DEF SeatShape
<1>4. /\ budget' \in [moves : Nat, starts : Nat, edits : 0 .. MaxEdits, failures : 0 .. MaxFailures,
                     backfills : Nat]
      /\ budget'.edits = budget.edits /\ budget'.failures < MaxFailures
  BY <1>1 DEF SeatShape
<1>SeatShape. SeatShape'
  BY <1>1, <1>3 DEF SeatShape
<1>PlansRead. PlansRead'
  BY <1>3 DEF PlansRead
<1>RowSomewhere. RowSomewhere'
  BY <1>1, <1>3 DEF RowSomewhere
<1>FoldsStand. FoldsStand'
  BY <1>1, <1>3 DEF FoldsStand
<1>Covered. Covered'
  BY <1>4 DEF Covered
<1>OneByOne. OneByOne'
  BY <1>1, <1>3 DEF OneByOne
<1>ReadsStand. ReadsStand'
  BY <1>1, <1>3 DEF ReadsStand, ReadsHold
<1>EditStands. EditStands'
  BY <1>1 DEF EditStands
<1>QuietKnows. QuietKnows'
  BY <1>1 DEF QuietKnows, ReadsHold, RowSettled, HotFiles
<1> QED
  BY <1>SeatShape, <1>PlansRead, <1>RowSomewhere, <1>FoldsStand, <1>Covered, <1>OneByOne,
     <1>ReadsStand, <1>EditStands, <1>QuietKnows

\* A command writes the row, which stands.
LEMMA RowWrittenKeeps ==
  ASSUME SeatInv, NEW row \in SeatRows, RowWritten(row)
  PROVE  SeatInv'
<1> USE SeatArchiveConstants DEF SeatInv, Folding, UnderWay
<1>1. /\ seatRow # NoRow /\ quiet' = {} /\ mixed' = (mixed \/ UnderWay # {})
      /\ seatRow' = [row EXCEPT !.edit = budget.edits + 1]
      /\ budget' = [budget EXCEPT !.edits = @ + 1] /\ budget.edits < MaxEdits
      /\ UNCHANGED <<ledger, tier, rec, mint, crossed>>
  BY DEF RowWritten
<1>2. budget.edits + 1 \in 0 .. MaxEdits
  BY <1>1 DEF SeatShape
<1>3. seatRow' \in SeatRows /\ seatRow'.edit = budget.edits + 1
  BY <1>1, <1>2 DEF SeatRows
<1>4. seatRow' # NoRow
  BY <1>3 DEF SeatRows
<1>5. /\ budget' \in [moves : Nat, starts : Nat, edits : 0 .. MaxEdits, failures : 0 .. MaxFailures,
                     backfills : Nat]
      /\ budget'.edits = budget.edits + 1 /\ budget'.failures = budget.failures
  BY <1>1, <1>2 DEF SeatShape
<1>SeatShape. SeatShape'
  BY <1>1, <1>3 DEF SeatShape, Copies
<1>PlansRead. PlansRead'
  BY <1>1 DEF PlansRead
<1>RowSomewhere. RowSomewhere'
  BY <1>1, <1>4 DEF RowSomewhere
<1>FoldsStand. FoldsStand'
  BY <1>1 DEF FoldsStand
<1>Covered. Covered'
  BY <1>4 DEF Covered
<1>OneByOne. OneByOne'
  BY <1>1 DEF OneByOne
<1>ReadsStand. ReadsStand'
  BY <1>1 DEF ReadsStand, ReadsHold
<1>EditStands. EditStands'
  BY <1>1, <1>4 DEF EditStands
<1>QuietKnows. QuietKnows'
  BY <1>1 DEF QuietKnows
<1> QED
  BY <1>SeatShape, <1>PlansRead, <1>RowSomewhere, <1>FoldsStand, <1>Covered, <1>OneByOne,
     <1>ReadsStand, <1>EditStands, <1>QuietKnows

\* A backfill looks at the ledger first.
LEMMA BackfillReadsKeeps ==
  ASSUME SeatInv, BackfillReads
  PROVE  SeatInv'
<1> USE SeatArchiveConstants DEF SeatInv, Folding, UnderWay
<1>1. /\ quiet' = {}
      /\ ledger = NoRow /\ mint' = "planning" /\ mixed' = (mixed \/ UnderWay # {})
      /\ UNCHANGED <<seatRow, ledger, tier, rec, crossed>>
  BY DEF BackfillReads
<1>2. /\ budget' \in [moves : Nat, starts : Nat, edits : 0 .. MaxEdits, failures : 0 .. MaxFailures,
                     backfills : Nat]
      /\ budget'.edits = budget.edits /\ budget'.failures = budget.failures
  BY DEF BackfillReads, SeatShape
<1>SeatShape. SeatShape'
  BY <1>1, <1>2 DEF SeatShape
<1>PlansRead. PlansRead'
  BY <1>1 DEF PlansRead
<1>RowSomewhere. RowSomewhere'
  BY <1>1 DEF RowSomewhere
<1>FoldsStand. FoldsStand'
  BY <1>1 DEF FoldsStand
<1>Covered. Covered'
  BY <1>1 DEF Covered
<1>OneByOne. OneByOne'
  BY <1>1 DEF OneByOne
<1>ReadsStand. ReadsStand'
  BY <1>1 DEF ReadsStand, ReadsHold
<1>EditStands. EditStands'
  BY <1>1, <1>2 DEF EditStands
<1>QuietKnows. QuietKnows'
  BY <1>1 DEF QuietKnows
<1> QED
  BY <1>SeatShape, <1>PlansRead, <1>RowSomewhere, <1>FoldsStand, <1>Covered, <1>OneByOne,
     <1>ReadsStand, <1>EditStands, <1>QuietKnows

\* Then at the row.
LEMMA BackfillPlansKeeps ==
  ASSUME SeatInv, BackfillPlans
  PROVE  SeatInv'
<1> USE SeatArchiveConstants DEF SeatInv, Folding, UnderWay
<1>1. /\ quiet' = {}
      /\ mint # "idle" /\ mint' \in {"idle", "minting"}
      /\ UNCHANGED <<seatRow, ledger, tier, rec, crossed, mixed>>
  BY DEF BackfillPlans
<1>2. /\ budget' \in [moves : Nat, starts : Nat, edits : 0 .. MaxEdits, failures : 0 .. MaxFailures,
                     backfills : Nat]
      /\ budget'.edits = budget.edits /\ budget'.failures = budget.failures
  BY DEF BackfillPlans, SeatShape
<1>SeatShape. SeatShape'
  BY <1>1, <1>2 DEF SeatShape
<1>PlansRead. PlansRead'
  BY <1>1 DEF PlansRead
<1>RowSomewhere. RowSomewhere'
  BY <1>1 DEF RowSomewhere
<1>FoldsStand. FoldsStand'
  BY <1>1 DEF FoldsStand
<1>Covered. Covered'
  BY <1>1, <1>2 DEF Covered, BringsBack
<1>OneByOne. OneByOne'
  BY <1>1 DEF OneByOne
<1>ReadsStand. ReadsStand'
  BY <1>1 DEF ReadsStand, ReadsHold
<1>EditStands. EditStands'
  BY <1>1, <1>2 DEF EditStands
<1>QuietKnows. QuietKnows'
  BY <1>1 DEF QuietKnows
<1> QED
  BY <1>SeatShape, <1>PlansRead, <1>RowSomewhere, <1>FoldsStand, <1>Covered, <1>OneByOne,
     <1>ReadsStand, <1>EditStands, <1>QuietKnows

\* A row is minted where there is still none.
LEMMA BackfillMintsKeeps ==
  ASSUME SeatInv, NEW h \in SeatSessions, BackfillMints(h)
  PROVE  SeatInv'
<1> USE SeatArchiveConstants DEF SeatInv, Folding, UnderWay
<1> DEFINE minted == [holder |-> h, starred |-> FALSE, edit |-> 0]
<1>1. /\ quiet' = {} /\ mint # "idle" /\ mint' = "idle"
      /\ seatRow' = (IF seatRow = NoRow THEN minted ELSE seatRow)
      /\ UNCHANGED <<ledger, tier, rec, budget, crossed, mixed>>
  BY DEF BackfillMints
<1>2. minted \in SeatRows
  BY DEF SeatRows
<1>3. minted # NoRow
  <2>1. minted \in [holder : SeatSessions, starred : BOOLEAN, edit : Nat]
    OBVIOUS
  <2> QED
    BY <2>1
<1> HIDE DEF minted
<1>SeatShape. SeatShape'
  BY <1>1, <1>2 DEF SeatShape, Copies
<1>PlansRead. PlansRead'
  BY <1>1 DEF PlansRead
<1>RowSomewhere. RowSomewhere'
  BY <1>1 DEF RowSomewhere
<1>FoldsStand. FoldsStand'
  BY <1>1 DEF FoldsStand
<1>Covered. Covered'
  BY <1>1, <1>3 DEF Covered
<1>OneByOne. OneByOne'
  BY <1>1 DEF OneByOne
<1>ReadsStand. ReadsStand'
  BY <1>1 DEF OneByOne, ReadsStand, ReadsHold
<1>EditStands. EditStands'
  BY <1>1 DEF RowSomewhere, OneByOne, EditStands
<1>QuietKnows. QuietKnows'
  BY <1>1 DEF QuietKnows
<1> QED
  BY <1>SeatShape, <1>PlansRead, <1>RowSomewhere, <1>FoldsStand, <1>Covered, <1>OneByOne,
     <1>ReadsStand, <1>EditStands, <1>QuietKnows

\* The invariant holds at first, when no reconcile runs,
LEMMA InvariantStarts == SeatArchiveInit => SeatInv
<1> SUFFICES ASSUME SeatArchiveInit PROVE SeatInv
  OBVIOUS
<1> USE SeatArchiveConstants DEF SeatArchiveInit
<1>1. IdleReconcile \in Runs /\ IdleReconcile.at = "idle"
  BY DEF IdleReconcile, Runs, Copies
<1>2. /\ rec \in [Reconciles -> Runs]
      /\ \A r \in Reconciles : rec[r].at = "idle"
  BY <1>1
<1>3. seatRow \in SeatRows /\ seatRow.edit = 0
  BY DEF SeatRows
<1>4. seatRow # NoRow
  <2>1. seatRow \in [holder : SeatSessions, starred : BOOLEAN, edit : Nat]
    OBVIOUS
  <2> QED
    BY <2>1
<1>5. /\ budget \in [moves : Nat, starts : Nat, edits : 0 .. MaxEdits, failures : 0 .. MaxFailures,
                    backfills : Nat]
      /\ budget.edits = 0
  OBVIOUS
<1>6. SeatShape
  BY <1>2, <1>3, <1>5 DEF SeatShape, Copies
<1>7. PlansRead /\ RowSomewhere /\ FoldsStand /\ Covered
  BY <1>2, <1>4 DEF PlansRead, RowSomewhere, FoldsStand, Covered, Folding
<1>8. OneByOne /\ ReadsStand /\ EditStands /\ QuietKnows
  BY <1>2, <1>3, <1>4, <1>5 DEF OneByOne, UnderWay, ReadsStand, ReadsHold, EditStands, QuietKnows
<1> QED
  BY <1>6, <1>7, <1>8 DEF SeatInv

\* and every step keeps it,
LEMMA InvariantSteps == SeatInv /\ [SeatArchiveNext]_seatArchiveVars => SeatInv'
<1> SUFFICES ASSUME SeatInv, [SeatArchiveNext]_seatArchiveVars PROVE SeatInv'
  OBVIOUS
<1>1. ASSUME NEW r \in Reconciles, NEW h \in SeatSessions,
             WaveReconciles(r, h) \/ RestoreReconciles(r, h) \/ CommandReconciles(r, h)
      PROVE  SeatInv'
  BY <1>1, WaveReconcilesKeeps, RestoreReconcilesKeeps, CommandReconcilesKeeps
<1>2. ASSUME NEW r \in Reconciles,
             \/ ReadSeatStore(r) \/ ReadLedger(r) \/ ReadHotFiles(r) \/ PlanReconcile(r)
             \/ WriteLedgerFile(r) \/ ApplyInOneWrite(r) \/ DeleteLedgerFile(r)
             \/ UnfoldRacedHolders(r) \/ ReconcileFails(r)
      PROVE  SeatInv'
  BY <1>2, ReadSeatStoreKeeps, ReadLedgerKeeps, ReadHotFilesKeeps, PlanReconcileKeeps,
     WriteLedgerFileKeeps, ApplyInOneWriteKeeps, DeleteLedgerFileKeeps, UnfoldRacedHoldersKeeps,
     ReconcileFailsKeeps
<1>3. seatRow # NoRow => seatRow \in SeatRows
  BY DEF SeatInv, SeatShape, Copies
<1>4. CASE EditSeat
  <2>1. seatRow \in SeatRows /\ RowWritten(seatRow)
    BY <1>3, <1>4 DEF EditSeat, RowWritten
  <2> QED
    BY <2>1, RowWrittenKeeps
<1>5. CASE StarSeat
  <2>1. [seatRow EXCEPT !.starred = ~@] \in SeatRows /\ RowWritten([seatRow EXCEPT !.starred = ~@])
    BY <1>3, <1>5 DEF StarSeat, SeatRows
  <2> QED
    BY <2>1, RowWrittenKeeps
<1>6. ASSUME NEW h \in SeatSessions, ActivateSeat(h)
      PROVE  SeatInv'
  <2>1. [seatRow EXCEPT !.holder = h] \in SeatRows /\ RowWritten([seatRow EXCEPT !.holder = h])
    BY <1>3, <1>6 DEF ActivateSeat, SeatRows
  <2> QED
    BY <2>1, RowWrittenKeeps
<1>7. CASE BackfillReads \/ BackfillPlans
  BY <1>7, BackfillReadsKeeps, BackfillPlansKeeps
<1>8. ASSUME NEW h \in SeatSessions, BackfillMints(h)
      PROVE  SeatInv'
  BY <1>8, BackfillMintsKeeps
<1>9. CASE UNCHANGED seatArchiveVars
  BY <1>9 DEF seatArchiveVars, SeatInv, SeatShape, PlansRead, RowSomewhere, FoldsStand, Folding,
     Covered, BringsBack, OneByOne, UnderWay, ReadsStand, ReadsHold, EditStands, QuietKnows,
     RowSettled, HotFiles
<1> QED
  BY <1>1, <1>2, <1>4, <1>5, <1>6, <1>7, <1>8, <1>9 DEF SeatArchiveNext

\* so it always holds.
LEMMA InvariantAlways == SeatArchiveSpec => []SeatInv
  BY InvariantStarts, InvariantSteps, PTL DEF SeatArchiveSpec

\* The row of a seat is always kept between seats.json and the ledger of its archive: it is in one
\* of them unless one reconcile deleted the file that another one's fold stood on, with its last
\* edit unless it was written beside a reconcile that had read it; a reconcile that is left alone
\* settles the seat; and where nothing was cut off or crossed no seat stays behind a hot holder.
THEOREM SeatRowAlwaysKept == SeatArchiveSpec => []SeatRowKept
<1>1. SeatInv => SeatRowKept
  <2> SUFFICES ASSUME SeatInv PROVE SeatRowKept
    OBVIOUS
  <2>1. LostOnlyWhereCrossed
    BY DEF SeatInv, RowSomewhere, LostOnlyWhereCrossed, NeverInNeither
  <2>2. LastEditKept
    BY DEF SeatInv, EditStands, LastEditKept
  <2>3. SettledAlone
    BY DEF SeatInv, QuietKnows, RowSettled, SettledAlone
  <2>4. NoneBehindHotHolder
    BY DEF SeatInv, Covered, BringsBack, UnderWay, NoneBehindHotHolder
  <2> QED
    BY <2>1, <2>2, <2>3, <2>4 DEF SeatRowKept
<1> QED
  BY <1>1, InvariantAlways, PTL

(* ---- SeatHolders: who holds a seat --------------------------------------- *)

HolderGroups == [there : BOOLEAN, active : BOOLEAN, ordinal : Nat, closed : BOOLEAN]
SomeHolder == Sessions \cup {Nobody}
ActivationSteps == {"idle", "successor", "predecessor", "retire", "hold", "activate", "heal", "healing"}
ActivationStates ==
  [at : ActivationSteps, to : SomeHolder, from : SomeHolder, mine : HolderGroups, his : HolderGroups,
   drawn : Nat, others : SUBSET Sessions, other : SomeHolder]

\* The state is well formed, but for the bound on the ordinals.
HoldersShape ==
  /\ seat \in [holder : SomeHolder, next : Nat \ {0}, closed : BOOLEAN]
  /\ holding \in [Sessions -> HolderGroups]
  /\ activation \in [Activations -> ActivationStates]
  /\ filling \in [at : {"idle", "mirror", "pointer"}, holder : SomeHolder]
  /\ closing \in [at : {"idle", "vet", "decide"}, holder : SomeHolder, open : BOOLEAN]
  /\ reopened \subseteq Sessions /\ apart \in BOOLEAN
  /\ leftover \in [runs : Nat, fills : Nat, lifecycle : Nat, cutOffs : Nat]

\* Each activation draws one number at most: the activations still to draw one.
ToDraw == {a \in Activations : activation[a].at \notin {"idle", "activate"}}
NumbersBounded ==
  /\ IsFiniteSet(ToDraw)
  /\ seat.next + leftover.runs + Cardinality(ToDraw) <= MaxRuns + 2

\* A number is claimed for a session by its record and by every copy that may be written to it.
ClaimedBy(q, s, n) ==
  \/ q.to = s /\ q.mine.ordinal = n
  \/ q.at = "retire" /\ q.from = s /\ q.his.ordinal = n
  \/ q.at = "healing" /\ q.other = s /\ q.his.ordinal = n
  \/ q.at = "activate" /\ q.to = s /\ q.drawn = n
Claimed(s, n) ==
  \/ holding[s].ordinal = n
  \/ \E a \in Activations : ClaimedBy(activation[a], s, n)

\* A number is claimed for one session at most, and was drawn.
ClaimsDistinct ==
  \A s \in Sessions : \A n \in Nat \ {0} :
    Claimed(s, n) => n < seat.next /\ \A t \in Sessions : Claimed(t, n) => s = t

\* So was every number a process remembers.
Remembers(q) == q.mine.ordinal < seat.next /\ q.his.ordinal < seat.next /\ q.drawn < seat.next
AllDrawn == \A a \in Activations : Remembers(activation[a])

\* Whoever the pointer or a process names is there, and what a process has read of it says so.
NamesExist(q) ==
  /\ q.at = "idle" => q = IdleRun
  /\ q.at # "idle" => q.to \in Sessions
  /\ q.from # Nobody => holding[q.from].there
  /\ \A s \in q.others : holding[s].there
  /\ q.at \notin {"idle", "successor"} => q.mine.there /\ holding[q.to].there
  /\ q.at \in {"predecessor", "retire"} => q.from \in Sessions
  /\ q.at = "retire" => q.his.there
  /\ q.at \in {"heal", "healing"} => q.from = q.to
  /\ q.at = "healing" => q.other \in Sessions /\ q.his.there /\ holding[q.other].there
  /\ q.at = "activate" => q.drawn # 0 /\ q.mine.ordinal \in {0, q.drawn}
NamedAreThere ==
  /\ seat.holder # Nobody => holding[seat.holder].there
  /\ filling.at # "idle" => filling.holder \in Sessions /\ holding[filling.holder].there
  /\ closing.holder # Nobody => holding[closing.holder].there
  /\ \A s \in Sessions : ~holding[s].there => holding[s].ordinal = 0
  /\ \A a \in Activations : NamesExist(activation[a])

\* One after another: whoever is at work is so alone, the pointer is where it found or put it, and
\* what it has read is what is on disk.
InPlace(q) ==
  /\ q.at \notin {"idle", "activate"} => seat.holder = q.from
  /\ q.at = "activate" => seat.holder = q.to
  /\ q.at = "hold" => \A s \in Sessions : ~holding[s].active
  /\ q.at \notin {"idle", "successor"} => q.mine.ordinal = holding[q.to].ordinal
  /\ q.at = "predecessor" => q.mine.active = holding[q.to].active
  /\ q.at = "retire" => q.his.ordinal = holding[q.from].ordinal
  /\ q.at = "healing" => q.his.ordinal = holding[q.other].ordinal
OneAfterAnother ==
  apart =>
    /\ \A a, b \in Activations : activation[a].at # "idle" /\ activation[b].at # "idle" => a = b
    /\ filling.at # "idle" => /\ seat.holder = Nobody
                              /\ \A a \in Activations : activation[a].at = "idle"
    /\ \A a \in Activations : InPlace(activation[a])

\* A close that may close the seat has seen its holder closed, or somebody opened it since.
VettedClosed ==
  closing.at = "decide" /\ ~closing.open /\ closing.holder # Nobody =>
    holding[closing.holder].closed \/ closing.holder \in reopened

HoldersInv ==
  /\ HoldersShape /\ NumbersBounded /\ ClaimsDistinct /\ AllDrawn
  /\ NamedAreThere /\ OneAfterAnother /\ MarkedIsHolder /\ VettedClosed

\* What is claimed after a step was claimed before it, or is the number just drawn.
LEMMA ClaimsKept ==
  ASSUME HoldersShape, HoldersShape', ClaimsDistinct, NEW to \in Sessions,
         \/ /\ seat'.next = seat.next
            /\ \A s \in Sessions : \A n \in Nat \ {0} : Claimed(s, n)' => Claimed(s, n)
         \/ /\ seat'.next = seat.next + 1
            /\ \A s \in Sessions : \A n \in Nat \ {0} :
                 Claimed(s, n)' => Claimed(s, n) \/ (s = to /\ n = seat.next)
  PROVE  ClaimsDistinct'
<1>1. seat.next \in Nat \ {0} /\ seat'.next \in Nat \ {0}
  BY DEF HoldersShape
<1> SUFFICES ASSUME NEW s \in Sessions, NEW n \in Nat \ {0}, Claimed(s, n)'
             PROVE  n < seat'.next /\ \A t \in Sessions : Claimed(t, n)' => s = t
  BY DEF ClaimsDistinct
<1>2. CASE Claimed(s, n)
  <2>1. n < seat.next /\ \A t \in Sessions : Claimed(t, n) => s = t
    BY <1>2 DEF ClaimsDistinct
  <2> QED
    BY <1>1, <2>1
<1>3. CASE ~Claimed(s, n)
  <2>1. s = to /\ n = seat.next /\ seat'.next = seat.next + 1
    BY <1>3
  <2>2. \A t \in Sessions : ~Claimed(t, n)
    BY <1>1, <2>1 DEF ClaimsDistinct
  <2> QED
    BY <1>1, <2>1, <2>2
<1> QED
  BY <1>2, <1>3

\* The activations still to draw are as many as before, or one less.
LEMMA NumbersStayBounded ==
  ASSUME HoldersShape, HoldersShape', NumbersBounded, leftover'.runs = leftover.runs,
         NEW a \in Activations, \A b \in Activations \ {a} : activation'[b] = activation[b],
         \/ seat'.next = seat.next /\ (a \in ToDraw' => a \in ToDraw)
         \/ seat'.next = seat.next + 1 /\ a \in ToDraw /\ a \notin ToDraw'
  PROVE  NumbersBounded'
<1>1. /\ IsFiniteSet(ToDraw) /\ Cardinality(ToDraw) \in Nat
      /\ IsFiniteSet(ToDraw \ {a})
      /\ Cardinality(ToDraw \ {a}) = IF a \in ToDraw THEN Cardinality(ToDraw) - 1
                                                     ELSE Cardinality(ToDraw)
  BY FS_CardinalityType, FS_RemoveElement DEF NumbersBounded
<1>2. ToDraw' = ToDraw \/ (a \in ToDraw /\ ToDraw' = ToDraw \ {a})
  <2>1. \A b \in Activations \ {a} : b \in ToDraw' <=> b \in ToDraw
    BY DEF ToDraw
  <2>2. ToDraw \subseteq Activations /\ ToDraw' \subseteq Activations
    BY DEF ToDraw
  <2> QED
    BY <2>1, <2>2
<1>3. /\ seat.next \in Nat /\ seat'.next \in Nat /\ leftover.runs \in Nat
      /\ seat.next + leftover.runs + Cardinality(ToDraw) <= MaxRuns + 2 /\ MaxRuns \in Nat
  BY SeatHoldersConstants DEF HoldersShape, NumbersBounded
<1>4. /\ IsFiniteSet(ToDraw') /\ Cardinality(ToDraw') \in Nat
      /\ \/ Cardinality(ToDraw') = Cardinality(ToDraw)
         \/ Cardinality(ToDraw') = Cardinality(ToDraw) - 1
      /\ a \in ToDraw /\ a \notin ToDraw' => Cardinality(ToDraw') = Cardinality(ToDraw) - 1
  BY <1>1, <1>2, FS_CardinalityType
<1>5. seat'.next + leftover.runs + Cardinality(ToDraw') <= MaxRuns + 2
  BY <1>1, <1>3, <1>4
<1> QED
  BY <1>4, <1>5 DEF NumbersBounded

\* A step of an activation keeps the invariant if where it goes fits the pointer and the records.
LEMMA RunKeeps ==
  ASSUME HoldersInv, NEW a \in Activations, NEW r \in ActivationStates,
         activation' = [activation EXCEPT ![a] = r], activation[a].at # "idle",
         UNCHANGED <<filling, closing, reopened, apart>>, leftover' \in [runs : {leftover.runs}, fills : Nat, lifecycle : Nat, cutOffs : Nat],
         seat' \in [holder : SomeHolder, next : Nat \ {0}, closed : BOOLEAN],
         holding' \in [Sessions -> HolderGroups],
         \A s \in Sessions : /\ holding[s].there => holding'[s].there
                             /\ ~holding'[s].there => holding'[s].ordinal = 0
                             /\ holding'[s].closed = holding[s].closed,
         seat'.holder # Nobody => holding'[seat'.holder].there,
         \/ /\ seat'.next = seat.next /\ (a \in ToDraw \/ r.at \in {"idle", "activate"})
            /\ \A s \in Sessions : \A n \in Nat \ {0} :
                 holding'[s].ordinal = n \/ ClaimedBy(r, s, n) => Claimed(s, n)
         \/ /\ seat'.next = seat.next + 1 /\ a \in ToDraw /\ r.at \in {"idle", "activate"}
            /\ \A s \in Sessions : \A n \in Nat \ {0} :
                 holding'[s].ordinal = n \/ ClaimedBy(r, s, n) =>
                   Claimed(s, n) \/ (s = activation[a].to /\ n = seat.next),
         NamesExist(r)', Remembers(r)', apart => InPlace(r)', MarkedIsHolder'
  PROVE  HoldersInv'
<1> USE DEF HoldersInv
<1>1. /\ activation \in [Activations -> ActivationStates] /\ activation'[a] = r
      /\ \A b \in Activations \ {a} : activation'[b] = activation[b]
  BY DEF HoldersShape
<1>2. HoldersShape'
  BY <1>1 DEF HoldersShape
<1>3. NumbersBounded'
  <2>1. a \in ToDraw' <=> r.at \notin {"idle", "activate"}
    BY <1>1 DEF ToDraw
  <2> QED
    BY <1>1, <1>2, <2>1, NumbersStayBounded
<1>4. ClaimsDistinct'
  <2>1. activation[a].to \in Sessions
    BY DEF NamedAreThere, NamesExist
  <2>2. \A s \in Sessions : \A n \in Nat \ {0} :
          Claimed(s, n)' => \/ Claimed(s, n)
                            \/ holding'[s].ordinal = n
                            \/ ClaimedBy(r, s, n)
    BY <1>1 DEF Claimed, ClaimedBy
  <2>3. \/ /\ seat'.next = seat.next
           /\ \A s \in Sessions : \A n \in Nat \ {0} : Claimed(s, n)' => Claimed(s, n)
        \/ /\ seat'.next = seat.next + 1
           /\ \A s \in Sessions : \A n \in Nat \ {0} :
                Claimed(s, n)' => Claimed(s, n) \/ (s = activation[a].to /\ n = seat.next)
    <3>1. CASE seat'.next = seat.next /\ \A s \in Sessions : \A n \in Nat \ {0} :
                 holding'[s].ordinal = n \/ ClaimedBy(r, s, n) => Claimed(s, n)
      BY <2>2, <3>1
    <3>2. CASE seat'.next = seat.next + 1 /\ \A s \in Sessions : \A n \in Nat \ {0} :
                 holding'[s].ordinal = n \/ ClaimedBy(r, s, n) =>
                   Claimed(s, n) \/ (s = activation[a].to /\ n = seat.next)
      BY <2>2, <3>2
    <3> QED
      BY <3>1, <3>2
  <2> QED
    BY <1>2, <2>1, <2>3, ClaimsKept
<1>5. NamedAreThere'
  <2>1. ASSUME NEW b \in Activations PROVE NamesExist(activation[b])'
    <3>1. CASE b = a
      BY <1>1, <3>1
    <3>2. CASE b # a
      BY <1>1, <3>2 DEF NamedAreThere, NamesExist, HoldersShape, ActivationStates, SomeHolder
    <3> QED
      BY <3>1, <3>2
  <2> QED
    BY <2>1 DEF NamedAreThere, HoldersShape, SomeHolder
<1>6. OneAfterAnother'
  BY <1>1 DEF OneAfterAnother, InPlace
<1>7. VettedClosed'
  BY DEF VettedClosed, HoldersShape, SomeHolder
<1>8. AllDrawn'
  <2>1. ASSUME NEW b \in Activations, b # a PROVE Remembers(activation[b])'
    <3>1. activation'[b] = activation[b] /\ activation[b] \in ActivationStates
      BY <1>1, <2>1
    <3>2. /\ activation[b].mine.ordinal \in Nat /\ activation[b].his.ordinal \in Nat
          /\ activation[b].drawn \in Nat /\ seat.next \in Nat
      BY <3>1 DEF ActivationStates, HolderGroups, HoldersShape
    <3> QED
      BY <3>1, <3>2 DEF AllDrawn, Remembers
  <2> QED
    BY <1>1, <2>1 DEF AllDrawn
<1> QED
  BY <1>2, <1>3, <1>4, <1>5, <1>6, <1>7, <1>8

\* What is well formed, in the parts a step uses.
LEMMA ShapeOf ==
  ASSUME HoldersInv, NEW a \in Activations
  PROVE  /\ activation \in [Activations -> ActivationStates] /\ activation[a] \in ActivationStates
         /\ holding \in [Sessions -> HolderGroups] /\ IdleRun \in ActivationStates
         /\ seat \in [holder : SomeHolder, next : Nat \ {0}, closed : BOOLEAN]
         /\ leftover \in [runs : Nat, fills : Nat, lifecycle : Nat, cutOffs : Nat]
         /\ activation[a].at # "idle" => activation[a].to \in Sessions
BY DEF HoldersInv, HoldersShape, ActivationStates, ActivationSteps, HolderGroups, IdleRun, Absent, Joined,
   SomeHolder, NoOrdinal, NamedAreThere, NamesExist

\* Every number that is written or remembered was drawn.
LEMMA DrawnOf ==
  ASSUME HoldersInv
  PROVE  /\ \A a \in Activations : Remembers(activation[a])
         /\ \A s \in Sessions : holding[s].ordinal < seat.next
<1>1. ASSUME NEW s \in Sessions PROVE holding[s].ordinal < seat.next
  <2>1. holding[s].ordinal \in Nat /\ seat.next \in Nat \ {0}
    BY DEF HoldersInv, HoldersShape, HolderGroups
  <2>2. holding[s].ordinal # 0 => holding[s].ordinal < seat.next
    BY <2>1 DEF HoldersInv, ClaimsDistinct, Claimed
  <2> QED
    BY <2>1, <2>2
<1> QED
  BY <1>1 DEF HoldersInv, AllDrawn

\* An activation that has drawn its number goes on to activate.
LEMMA Drawn ==
  ASSUME NEW q \in ActivationStates, NEW n \in Nat
  PROVE  [q EXCEPT !.drawn = n, !.at = "activate"] \in ActivationStates
BY DEF ActivationStates, ActivationSteps

\* An activation may end wherever it is: no torn state routes to a retired holder.
LEMMA EndKeeps ==
  ASSUME HoldersInv, NEW a \in Activations, activation[a].at # "idle", RunEnds(a),
         UNCHANGED <<seat, holding, filling, closing, reopened, apart>>,
         leftover' \in [runs : {leftover.runs}, fills : Nat, lifecycle : Nat, cutOffs : Nat]
  PROVE  HoldersInv'
<1> USE ShapeOf
<1>1. NamesExist(IdleRun)' /\ Remembers(IdleRun)' /\ InPlace(IdleRun)'
  BY DEF NamesExist, Remembers, InPlace, IdleRun, Absent, Joined, NoOrdinal
<1>2. IdleRun.at = "idle" /\ \A s \in Sessions : \A n \in Nat \ {0} : ~ClaimedBy(IdleRun, s, n)
  BY DEF IdleRun, ClaimedBy, Absent, Joined, NoOrdinal
<1>3. \A s \in Sessions : /\ ~holding[s].there => holding[s].ordinal = 0
                          /\ \A n \in Nat \ {0} : holding[s].ordinal = n => Claimed(s, n)
  BY DEF HoldersInv, NamedAreThere, Claimed
<1>4. (seat.holder # Nobody => holding[seat.holder].there) /\ MarkedIsHolder'
  BY DEF HoldersInv, NamedAreThere, MarkedIsHolder
<1> QED
  BY <1>1, <1>2, <1>3, <1>4, RunKeeps DEF RunEnds

\* A read goes on with what it has found.
LEMMA ReadKeeps ==
  ASSUME HoldersInv, NEW a \in Activations, NEW r \in ActivationStates,
         activation[a].at \notin {"idle", "activate"}, activation' = [activation EXCEPT ![a] = r],
         OnlyRun, r.to = activation[a].to,
         \A s \in Sessions : \A n \in Nat \ {0} : ClaimedBy(r, s, n) => Claimed(s, n),
         NamesExist(r), Remembers(r), apart => InPlace(r)
  PROVE  HoldersInv'
<1> USE ShapeOf
<1>1. NamesExist(r)' /\ Remembers(r)' /\ (apart => InPlace(r)')
  BY DEF NamesExist, Remembers, InPlace, OnlyRun
<1>2. \A s \in Sessions : /\ ~holding[s].there => holding[s].ordinal = 0
                          /\ \A n \in Nat \ {0} : holding[s].ordinal = n => Claimed(s, n)
  BY DEF HoldersInv, NamedAreThere, Claimed
<1>3. (seat.holder # Nobody => holding[seat.holder].there) /\ MarkedIsHolder'
  BY DEF HoldersInv, NamedAreThere, MarkedIsHolder, OnlyRun
<1>4. a \in ToDraw
  BY DEF ToDraw
<1> QED
  BY <1>1, <1>2, <1>3, <1>4, RunKeeps DEF OnlyRun

\* The successor is read: it goes on if it is there and open.
LEMMA ReadSuccessorKeeps ==
  ASSUME HoldersInv, NEW a \in Activations, ReadSuccessor(a)
  PROVE  HoldersInv'
<1> USE ShapeOf
<1> DEFINE q == activation[a]
           step == IF q.from = Nobody THEN "hold" ELSE "predecessor"
           r == [q EXCEPT !.mine = holding[q.to], !.at = step]
<1>1. q.at = "successor" /\ OnlyRun /\ q.to \in Sessions
  BY DEF ReadSuccessor
<1>2. CASE RunEnds(a)
  BY <1>1, <1>2, EndKeeps DEF OnlyRun
<1>3. CASE holding[q.to].there /\ ~holding[q.to].closed /\ ~RunEnds(a)
  <2>1. activation' = [activation EXCEPT ![a] = r]
    BY <1>1, <1>3 DEF ReadSuccessor, RunTo, ActivationStates
  <2>2. /\ r \in ActivationStates /\ r.to = q.to /\ r.mine = holding[q.to] /\ r.at = step
        /\ r.from = q.from /\ r.others = q.others /\ r.his = q.his /\ r.drawn = q.drawn
    BY <1>1 DEF ActivationStates, ActivationSteps
  <2>3. \A s \in Sessions : \A n \in Nat \ {0} : ClaimedBy(r, s, n) => Claimed(s, n)
    BY <2>2 DEF ClaimedBy, Claimed
  <2>4. NamesExist(r)
    BY <1>1, <1>3, <2>2 DEF HoldersInv, NamedAreThere, NamesExist, ActivationStates, SomeHolder
  <2>5. apart => InPlace(r)
    BY <1>1, <2>2, SeatHoldersConstants DEF HoldersInv, OneAfterAnother, InPlace, MarkedIsHolder
  <2>6. Remembers(r)
    BY <1>1, <2>2, DrawnOf DEF Remembers
  <2> HIDE DEF r
  <2> QED
    BY <1>1, <2>1, <2>2, <2>3, <2>4, <2>5, <2>6, ReadKeeps
<1> QED
  BY <1>2, <1>3 DEF ReadSuccessor

\* The predecessor is read, or the others a heal looks through.
LEMMA ReadPredecessorKeeps ==
  ASSUME HoldersInv, NEW a \in Activations, ReadPredecessor(a)
  PROVE  HoldersInv'
<1> USE ShapeOf
<1> DEFINE q == activation[a]
<1>1. /\ q.at = "predecessor" /\ OnlyRun /\ q.to \in Sessions /\ q.from \in Sessions
      /\ holding[q.from].there /\ holding[q.to].there /\ q.mine.there
      /\ apart => InPlace(q)
  BY SeatHoldersConstants
     DEF ReadPredecessor, HoldersInv, NamedAreThere, NamesExist, OneAfterAnother
<1>2. CASE RunEnds(a)
  BY <1>1, <1>2, EndKeeps DEF OnlyRun
<1>3. CASE q.from # q.to /\ ~RunEnds(a)
  <2> DEFINE r == [q EXCEPT !.his = holding[q.from], !.at = "retire"]
  <2>1. activation' = [activation EXCEPT ![a] = r]
    BY <1>1, <1>3 DEF ReadPredecessor, RunTo, ActivationStates
  <2>2. /\ r \in ActivationStates /\ r.to = q.to /\ r.mine = q.mine /\ r.at = "retire"
        /\ r.from = q.from /\ r.his = holding[q.from] /\ r.others = q.others
        /\ r.drawn = q.drawn
    BY <1>1 DEF ActivationStates, ActivationSteps
  <2>3. \A s \in Sessions : \A n \in Nat \ {0} : ClaimedBy(r, s, n) => Claimed(s, n)
    BY <2>2 DEF ClaimedBy, Claimed
  <2>4. NamesExist(r)
    BY <1>1, <2>2 DEF HoldersInv, NamedAreThere, NamesExist
  <2>5. apart => InPlace(r)
    BY <1>1, <2>2 DEF InPlace
  <2>6. Remembers(r)
    BY <1>1, <2>2, DrawnOf DEF Remembers
  <2> HIDE DEF r
  <2> QED
    BY <1>1, <2>1, <2>2, <2>3, <2>4, <2>5, <2>6, ReadKeeps
<1>4. CASE q.from = q.to /\ ~RunEnds(a)
  <2> DEFINE r == [q EXCEPT !.others = {s \in Sessions \ {q.to} : holding[s].there}, !.at = "heal"]
  <2>1. activation' = [activation EXCEPT ![a] = r]
    BY <1>1, <1>4 DEF ReadPredecessor, RunTo, ActivationStates
  <2>2. /\ r \in ActivationStates /\ r.to = q.to /\ r.mine = q.mine /\ r.at = "heal"
        /\ r.from = q.from /\ r.his = q.his /\ r.drawn = q.drawn
        /\ \A s \in r.others : holding[s].there
    BY <1>1 DEF ActivationStates, ActivationSteps
  <2>3. \A s \in Sessions : \A n \in Nat \ {0} : ClaimedBy(r, s, n) => Claimed(s, n)
    BY <2>2 DEF ClaimedBy, Claimed
  <2>4. NamesExist(r)
    BY <1>1, <1>4, <2>2 DEF NamesExist
  <2>5. apart => InPlace(r)
    BY <1>1, <2>2 DEF InPlace
  <2>6. Remembers(r)
    BY <1>1, <2>2, DrawnOf DEF Remembers
  <2> HIDE DEF r
  <2> QED
    BY <1>1, <2>1, <2>2, <2>3, <2>4, <2>5, <2>6, ReadKeeps
<1> QED
  BY <1>2, <1>3, <1>4

\* A heal reads one of the others.
LEMMA HealReadsKeeps ==
  ASSUME HoldersInv, NEW a \in Activations, NEW s \in Sessions, HealReads(a, s)
  PROVE  HoldersInv'
<1> USE ShapeOf
<1> DEFINE q == activation[a]
           rest == [q EXCEPT !.others = @ \ {s}]
           r == IF holding[s].active THEN [rest EXCEPT !.his = holding[s], !.other = s, !.at = "healing"]
                ELSE [rest EXCEPT !.at = "heal"]
<1>1. /\ q.at = "heal" /\ s \in q.others /\ OnlyRun /\ q.to \in Sessions /\ NamesExist(q)
      /\ apart => InPlace(q)
  BY DEF HealReads, HoldersInv, NamedAreThere, OneAfterAnother
<1>2. activation' = [activation EXCEPT ![a] = r]
  BY DEF HealReads, RunTo, ActivationStates
<1>3. /\ r \in ActivationStates /\ r.to = q.to /\ r.mine = q.mine /\ r.from = q.from
      /\ r.others = q.others \ {s} /\ r.drawn = q.drawn
      /\ \/ r.at = "heal" /\ r.his = q.his
         \/ r.at = "healing" /\ r.other = s /\ r.his = holding[s]
  BY DEF ActivationStates, ActivationSteps, SomeHolder
<1>4. \A t \in Sessions : \A n \in Nat \ {0} : ClaimedBy(r, t, n) => Claimed(t, n)
  BY <1>3 DEF ClaimedBy, Claimed
<1>5. NamesExist(r) /\ (apart => InPlace(r))
  BY <1>1, <1>3 DEF NamesExist, InPlace
<1>6. Remembers(r)
  BY <1>3, DrawnOf DEF Remembers
<1> HIDE DEF r
<1> QED
  BY <1>1, <1>2, <1>3, <1>4, <1>5, <1>6, ReadKeeps

\* An activation is cut off wherever it is.
LEMMA ActivationCutOffKeeps ==
  ASSUME HoldersInv, NEW a \in Activations, ActivationCutOff(a)
  PROVE  HoldersInv'
<1>1. leftover' \in [runs : {leftover.runs}, fills : Nat, lifecycle : Nat, cutOffs : Nat]
  BY ShapeOf DEF ActivationCutOff
<1> QED
  BY <1>1, EndKeeps DEF ActivationCutOff

\* What a write of a holder group moves: nothing but the one record, and no number that was not claimed.
Rewrites(t, active, n) ==
  /\ holding' \in [Sessions -> HolderGroups]
  /\ \A s \in Sessions : /\ holding[s].there => holding'[s].there
                         /\ ~holding'[s].there => holding'[s].ordinal = 0
                         /\ holding'[s].closed = holding[s].closed
                         /\ \A m \in Nat \ {0} : holding'[s].ordinal = m => Claimed(s, m)
                         /\ s # t => holding'[s] = holding[s]
  /\ holding'[t].active = active /\ holding'[t].ordinal = n
  /\ seat.holder # Nobody => holding'[seat.holder].there

\* So does the write of a copy that was read from a session that is there.
LEMMA WriteKeeps ==
  ASSUME HoldersInv, NEW a \in Activations, NEW t \in Sessions, NEW copy \in HolderGroups,
         NEW active \in BOOLEAN, NEW n \in Nat, Written(copy, t, active, n), copy.there,
         Claimed(t, n), activation[a].at # "idle"
  PROVE  Rewrites(t, active, n)
<1> USE ShapeOf
<1>1. /\ holding' \in [Sessions -> HolderGroups]
      /\ \A s \in Sessions : s # t => holding'[s] = holding[s]
      /\ holding'[t].active = active /\ holding'[t].ordinal = n /\ holding'[t].there
      /\ holding'[t].closed = holding[t].closed
  BY DEF Written, HolderGroups
<1>2. \A s \in Sessions : /\ ~holding[s].there => holding[s].ordinal = 0
                          /\ \A m \in Nat \ {0} : holding[s].ordinal = m => Claimed(s, m)
  BY DEF HoldersInv, NamedAreThere, Claimed
<1>3. seat.holder # Nobody => seat.holder \in Sessions /\ holding[seat.holder].there
  BY DEF HoldersInv, NamedAreThere, SomeHolder
<1> QED
  BY <1>1, <1>2, <1>3 DEF Rewrites

\* The holder is retired with the number it was read with.
LEMMA RetireKeeps ==
  ASSUME HoldersInv, NEW a \in Activations, Retire(a)
  PROVE  HoldersInv'
<1> USE ShapeOf
<1> DEFINE q == activation[a]
<1>1. /\ q.at = "retire" /\ q.to \in Sessions /\ q.from \in Sessions /\ NamesExist(q)
      /\ apart => InPlace(q)
      /\ apart => filling.at = "idle"
  BY DEF Retire, HoldersInv, NamedAreThere, OneAfterAnother, NamesExist
<1>2. PICK r \in ActivationStates : r = [q EXCEPT !.at = "hold"]
  BY DEF ActivationStates, ActivationSteps
<1>3. /\ r.at = "hold" /\ r.to = q.to /\ r.from = q.from /\ r.mine = q.mine /\ r.others = q.others
      /\ r.his = q.his /\ r.drawn = q.drawn
      /\ q.his \in HolderGroups
  BY <1>2 DEF ActivationStates
<1>4. q.his.ordinal \in Nat /\ q.his.there
  BY <1>1, <1>3 DEF NamesExist, HolderGroups
<1>5. /\ activation' = [activation EXCEPT ![a] = r] /\ Written(q.his, q.from, FALSE, q.his.ordinal)
      /\ UNCHANGED <<seat, filling, closing, reopened, apart, leftover>>
  BY <1>2 DEF Retire, RunTo
<1>6. Claimed(q.from, q.his.ordinal)
  BY <1>1 DEF Claimed, ClaimedBy
<1>7. \A s \in Sessions : \A n \in Nat \ {0} : ClaimedBy(r, s, n) => Claimed(s, n)
  BY <1>3 DEF ClaimedBy, Claimed
<1>8. Rewrites(q.from, FALSE, q.his.ordinal)
  BY <1>1, <1>3, <1>4, <1>5, <1>6, WriteKeeps
<1>9. NamesExist(r)'
  BY <1>1, <1>3, <1>8 DEF NamesExist, Rewrites, ActivationStates
<1>10. MarkedIsHolder' /\ (apart => InPlace(r)')
  BY <1>1, <1>3, <1>5, <1>8 DEF HoldersInv, MarkedIsHolder, InPlace, Rewrites
<1>12. Remembers(r)'
  BY <1>3, <1>5, DrawnOf DEF Remembers
<1>11. a \in ToDraw
  BY <1>1 DEF ToDraw
<1> QED
  BY <1>1, <1>3, <1>5, <1>7, <1>8, <1>9, <1>10, <1>11, <1>12, RunKeeps DEF Rewrites

\* So is another one that is marked.
LEMMA HealRetiresKeeps ==
  ASSUME HoldersInv, NEW a \in Activations, HealRetires(a)
  PROVE  HoldersInv'
<1> USE ShapeOf
<1> DEFINE q == activation[a]
<1>1. /\ q.at = "healing" /\ q.to \in Sessions /\ q.other \in Sessions /\ NamesExist(q)
      /\ apart => InPlace(q)
      /\ apart => filling.at = "idle"
  BY DEF HealRetires, HoldersInv, NamedAreThere, OneAfterAnother, NamesExist
<1>2. PICK r \in ActivationStates : r = [q EXCEPT !.at = "heal"]
  BY DEF ActivationStates, ActivationSteps
<1>3. /\ r.at = "heal" /\ r.to = q.to /\ r.from = q.from /\ r.mine = q.mine /\ r.others = q.others
      /\ r.his = q.his /\ r.drawn = q.drawn
      /\ q.his \in HolderGroups /\ q.others \subseteq Sessions
  BY <1>2 DEF ActivationStates
<1>4. q.his.ordinal \in Nat /\ q.his.there
  BY <1>1, <1>3 DEF NamesExist, HolderGroups
<1>5. /\ activation' = [activation EXCEPT ![a] = r] /\ Written(q.his, q.other, FALSE, q.his.ordinal)
      /\ UNCHANGED <<seat, filling, closing, reopened, apart, leftover>>
  BY <1>2 DEF HealRetires, RunTo
<1>6. Claimed(q.other, q.his.ordinal)
  BY <1>1 DEF Claimed, ClaimedBy
<1>7. \A s \in Sessions : \A n \in Nat \ {0} : ClaimedBy(r, s, n) => Claimed(s, n)
  BY <1>3 DEF ClaimedBy, Claimed
<1>8. Rewrites(q.other, FALSE, q.his.ordinal)
  BY <1>1, <1>3, <1>4, <1>5, <1>6, WriteKeeps
<1>9. NamesExist(r)'
  BY <1>1, <1>3, <1>8 DEF NamesExist, Rewrites
<1>10. MarkedIsHolder' /\ (apart => InPlace(r)')
  BY <1>1, <1>3, <1>5, <1>8 DEF HoldersInv, MarkedIsHolder, InPlace, Rewrites
<1>12. Remembers(r)'
  BY <1>3, <1>5, DrawnOf DEF Remembers
<1>11. a \in ToDraw
  BY <1>1 DEF ToDraw
<1> QED
  BY <1>1, <1>3, <1>5, <1>7, <1>8, <1>9, <1>10, <1>11, <1>12, RunKeeps DEF Rewrites

\* The successor is marked where the pointer names it.
LEMMA ActivateKeeps ==
  ASSUME HoldersInv, NEW a \in Activations, Activate(a)
  PROVE  HoldersInv'
<1> USE ShapeOf
<1> DEFINE q == activation[a]
<1>1. /\ q.at = "activate" /\ q.to \in Sessions /\ NamesExist(q) /\ q.mine.there
      /\ apart => InPlace(q)
      /\ apart => filling.at = "idle"
  BY DEF Activate, HoldersInv, NamedAreThere, OneAfterAnother, NamesExist
<1>2. q.mine \in HolderGroups /\ q.drawn \in Nat
  BY DEF ActivationStates
<1>3. /\ activation' = [activation EXCEPT ![a] = IdleRun] /\ Written(q.mine, q.to, TRUE, q.drawn)
      /\ UNCHANGED <<seat, filling, closing, reopened, apart, leftover>>
  BY DEF Activate, RunEnds
<1>4. Claimed(q.to, q.drawn)
  BY <1>1 DEF Claimed, ClaimedBy
<1>5. /\ NamesExist(IdleRun)' /\ Remembers(IdleRun)' /\ InPlace(IdleRun)' /\ IdleRun.at = "idle"
      /\ \A s \in Sessions : \A n \in Nat \ {0} : ~ClaimedBy(IdleRun, s, n)
  BY <1>3, ShapeOf DEF NamesExist, Remembers, InPlace, IdleRun, ClaimedBy, Absent, Joined, NoOrdinal
<1>6. Rewrites(q.to, TRUE, q.drawn)
  BY <1>1, <1>2, <1>3, <1>4, WriteKeeps
<1>7. MarkedIsHolder'
  BY <1>1, <1>3, <1>6 DEF HoldersInv, MarkedIsHolder, InPlace, Rewrites
<1> QED
  BY <1>1, <1>3, <1>5, <1>6, <1>7, RunKeeps DEF Rewrites

\* The hold draws a number for a successor that has none, and moves the pointer to it.
LEMMA DrawAndPointKeeps ==
  ASSUME HoldersInv, NEW a \in Activations, DrawAndPoint(a)
  PROVE  HoldersInv'
<1> USE ShapeOf
<1> DEFINE q == activation[a]
           kept == q.mine.ordinal # 0
           drawn == IF kept THEN q.mine.ordinal ELSE seat.next
<1>1. /\ q.at = "hold" /\ q.to \in Sessions /\ NamesExist(q)
      /\ apart => InPlace(q)
      /\ apart => filling.at = "idle"
      /\ UNCHANGED <<holding, filling, closing, reopened, apart, leftover>>
  BY DEF DrawAndPoint, HoldersInv, NamedAreThere, OneAfterAnother, NamesExist
<1>2. CASE ~(seat.holder = q.from /\ ~seat.closed)
  <2>1. RunEnds(a) /\ UNCHANGED seat
    BY <1>2 DEF DrawAndPoint
  <2> QED
    BY <1>1, <2>1, EndKeeps
<1>3. CASE seat.holder = q.from /\ ~seat.closed
  <2>1. PICK r \in ActivationStates : r = [q EXCEPT !.drawn = drawn, !.at = "activate"]
    <3>1. q.mine.ordinal \in Nat /\ seat.next \in Nat
      BY DEF ActivationStates, HolderGroups
    <3> QED
      BY <3>1, Drawn
  <2>2. /\ r.at = "activate" /\ r.to = q.to /\ r.from = q.from /\ r.mine = q.mine
        /\ r.others = q.others /\ r.drawn = drawn /\ r.his = q.his /\ q.mine.ordinal \in Nat
        /\ q.his.ordinal \in Nat
    BY <2>1 DEF ActivationStates, HolderGroups
  <2>3. /\ activation' = [activation EXCEPT ![a] = r]
        /\ seat' = [seat EXCEPT !.holder = q.to, !.next = IF kept THEN @ ELSE @ + 1]
    BY <1>3, <2>1 DEF DrawAndPoint, RunTo, NoOrdinal, ActivationStates
  <2>4. /\ seat' \in [holder : SomeHolder, next : Nat \ {0}, closed : BOOLEAN]
        /\ seat'.holder = q.to /\ seat'.next = (IF kept THEN seat.next ELSE seat.next + 1)
    <3>1. seat.next + 1 \in Nat \ {0} /\ q.to \in SomeHolder
      BY <1>1 DEF SomeHolder
    <3> QED
      BY <2>3, <3>1
  <2>5. \A s \in Sessions : \A n \in Nat \ {0} :
          ClaimedBy(r, s, n) => \/ Claimed(s, n)
                                \/ ~kept /\ s = q.to /\ n = seat.next
    BY <2>2 DEF ClaimedBy, Claimed
  <2>6. NamesExist(r)'
    BY <1>1, <2>2 DEF NamesExist
  <2>7. holding[q.to].there
    BY <1>1 DEF NamesExist
  <2>8. \A s \in Sessions : /\ ~holding[s].there => holding[s].ordinal = 0
                            /\ \A n \in Nat \ {0} : holding[s].ordinal = n => Claimed(s, n)
    BY DEF HoldersInv, NamedAreThere, Claimed
  <2>9. MarkedIsHolder' /\ (apart => InPlace(r)')
    BY <1>1, <2>2, <2>4 DEF MarkedIsHolder, InPlace
  <2>11. Remembers(r)'
    BY <2>2, <2>4, DrawnOf DEF Remembers
  <2>10. a \in ToDraw
    BY <1>1 DEF ToDraw
  <2> HIDE DEF drawn
  <2> QED
    BY <1>1, <2>2, <2>3, <2>4, <2>5, <2>6, <2>7, <2>8, <2>9, <2>10, <2>11, RunKeeps
<1> QED
  BY <1>2, <1>3

\* A heal draws a number for a successor that has none.
LEMMA HealDrawsKeeps ==
  ASSUME HoldersInv, NEW a \in Activations, HealDraws(a)
  PROVE  HoldersInv'
<1> USE ShapeOf
<1> DEFINE q == activation[a]
           kept == q.mine.ordinal # 0
           drawn == IF kept THEN q.mine.ordinal ELSE seat.next
<1>1. /\ q.at = "heal" /\ q.to \in Sessions /\ NamesExist(q)
      /\ apart => InPlace(q)
      /\ UNCHANGED <<holding, filling, closing, reopened, apart, leftover>>
  BY DEF HealDraws, HoldersInv, NamedAreThere, OneAfterAnother, NamesExist
<1>2. PICK r \in ActivationStates : r = [q EXCEPT !.drawn = drawn, !.at = "activate"]
  <2>1. q.mine.ordinal \in Nat /\ seat.next \in Nat
    BY DEF ActivationStates, HolderGroups
  <2> QED
    BY <2>1, Drawn
<1>3. /\ r.at = "activate" /\ r.to = q.to /\ r.from = q.from /\ r.mine = q.mine
      /\ r.others = q.others /\ r.drawn = drawn /\ r.his = q.his /\ q.mine.ordinal \in Nat
      /\ q.his.ordinal \in Nat
  BY <1>2 DEF ActivationStates, HolderGroups
<1>4. /\ activation' = [activation EXCEPT ![a] = r]
      /\ seat' = [seat EXCEPT !.next = IF kept THEN @ ELSE @ + 1]
  BY <1>2 DEF HealDraws, RunTo, NoOrdinal, ActivationStates
<1>5. /\ seat' \in [holder : SomeHolder, next : Nat \ {0}, closed : BOOLEAN]
      /\ seat'.holder = seat.holder /\ seat'.next = (IF kept THEN seat.next ELSE seat.next + 1)
  BY <1>4
<1>6. \A s \in Sessions : \A n \in Nat \ {0} :
        ClaimedBy(r, s, n) => \/ Claimed(s, n)
                              \/ ~kept /\ s = q.to /\ n = seat.next
  BY <1>3 DEF ClaimedBy, Claimed
<1>7. NamesExist(r)'
  BY <1>1, <1>3 DEF NamesExist
<1>8. seat.holder # Nobody => holding[seat.holder].there
  BY DEF HoldersInv, NamedAreThere
<1>9. \A s \in Sessions : /\ ~holding[s].there => holding[s].ordinal = 0
                          /\ \A n \in Nat \ {0} : holding[s].ordinal = n => Claimed(s, n)
  BY DEF HoldersInv, NamedAreThere, Claimed
<1>10. MarkedIsHolder'
  BY <1>1, <1>5 DEF HoldersInv, MarkedIsHolder
<1>11. apart => InPlace(r)'
  BY <1>1, <1>3, <1>5 DEF InPlace, NamesExist
<1>13. Remembers(r)'
  BY <1>3, <1>5, DrawnOf DEF Remembers
<1>12. a \in ToDraw
  BY <1>1 DEF ToDraw
<1>14. \/ /\ seat'.next = seat.next
         /\ \A s \in Sessions : \A n \in Nat \ {0} :
              holding'[s].ordinal = n \/ ClaimedBy(r, s, n) => Claimed(s, n)
      \/ /\ seat'.next = seat.next + 1
         /\ \A s \in Sessions : \A n \in Nat \ {0} :
              holding'[s].ordinal = n \/ ClaimedBy(r, s, n) =>
                Claimed(s, n) \/ (s = q.to /\ n = seat.next)
  <2>1. CASE kept
    BY <1>1, <1>5, <1>6, <1>9, <2>1
  <2>2. CASE ~kept
    BY <1>1, <1>5, <1>6, <1>9, <2>2
  <2> QED
    BY <2>1, <2>2
<1>15. /\ holding' \in [Sessions -> HolderGroups]
       /\ \A s \in Sessions : /\ holding[s].there => holding'[s].there
                             /\ ~holding'[s].there => holding'[s].ordinal = 0
                             /\ holding'[s].closed = holding[s].closed
       /\ seat'.holder # Nobody => holding'[seat'.holder].there
       /\ leftover' \in [runs : {leftover.runs}, fills : Nat, lifecycle : Nat, cutOffs : Nat]
  BY <1>1, <1>5, <1>8, <1>9
<1> HIDE DEF drawn, kept
<1> QED
  BY <1>1, <1>3, <1>4, <1>5, <1>7, <1>10, <1>11, <1>12, <1>13, <1>14, <1>15, RunKeeps

\* An activation begins with the pointer, and has one number to draw.
LEMMA ActivationBeginsKeeps ==
  ASSUME HoldersInv, NEW a \in Activations, NEW n \in Sessions, ActivationBegins(a, n)
  PROVE  HoldersInv'
<1> USE ShapeOf
<1>1. /\ activation[a].at = "idle" /\ leftover.runs > 0
      /\ UNCHANGED <<seat, holding, filling, closing, reopened>>
      /\ leftover' = [leftover EXCEPT !.runs = @ - 1]
      /\ apart' = (apart /\ ~AtWork) /\ apart \in BOOLEAN
  BY DEF ActivationBegins, HoldersInv, HoldersShape
<1>2. PICK r \in ActivationStates :
        r = [IdleRun EXCEPT !.to = n, !.from = seat.holder, !.at = "successor"]
  BY DEF ActivationStates, ActivationSteps, SomeHolder, IdleRun
<1>3. /\ r.at = "successor" /\ r.to = n /\ r.from = seat.holder /\ r.others = {}
      /\ r.mine.ordinal = 0
  BY <1>2 DEF IdleRun, Absent, Joined, NoOrdinal
<1>4. /\ activation' = [activation EXCEPT ![a] = r] /\ activation'[a] = r
      /\ \A b \in Activations : b # a => activation'[b] = activation[b]
  <2>1. activation' = [activation EXCEPT ![a] = r]
    BY <1>2 DEF ActivationBegins, RunTo, IdleRun
  <2> QED
    BY <2>1
<1>5. leftover' \in [runs : Nat, fills : Nat, lifecycle : Nat, cutOffs : Nat]
      /\ leftover'.runs = leftover.runs - 1
  BY <1>1
<1>6. HoldersShape'
  BY <1>1, <1>4, <1>5 DEF HoldersInv, HoldersShape
<1>7. NumbersBounded'
  <2>1. ToDraw' = ToDraw \cup {a} /\ a \notin ToDraw
    BY <1>1, <1>3, <1>4 DEF ToDraw
  <2>2. IsFiniteSet(ToDraw) /\ Cardinality(ToDraw) \in Nat
    BY FS_CardinalityType DEF HoldersInv, NumbersBounded
  <2>3. IsFiniteSet(ToDraw') /\ Cardinality(ToDraw') = Cardinality(ToDraw) + 1
    BY <2>1, <2>2, FS_AddElement
  <2>4. seat'.next + leftover'.runs + Cardinality(ToDraw') <= MaxRuns + 2
    BY <1>1, <1>5, <2>2, <2>3, SeatHoldersConstants DEF HoldersInv, NumbersBounded
  <2> QED
    BY <2>3, <2>4 DEF NumbersBounded
<1>8. ClaimsDistinct'
  <2>1. \A s \in Sessions : \A m \in Nat \ {0} : Claimed(s, m)' => Claimed(s, m)
    BY <1>1, <1>3, <1>4 DEF Claimed, ClaimedBy
  <2> QED
    BY <1>1, <1>6, <2>1, ClaimsKept DEF HoldersInv
<1>9. NamedAreThere'
  <2>1. ASSUME NEW b \in Activations PROVE NamesExist(activation[b])'
    <3>1. CASE b = a
      BY <1>1, <1>3, <1>4, <3>1 DEF NamesExist, HoldersInv, NamedAreThere
    <3>2. CASE b # a
      BY <1>1, <1>4, <3>2 DEF HoldersInv, NamedAreThere, NamesExist
    <3> QED
      BY <3>1, <3>2
  <2> QED
    BY <1>1, <2>1 DEF HoldersInv, NamedAreThere
<1>10. OneAfterAnother' /\ MarkedIsHolder'
  <2>1. MarkedIsHolder'
    BY <1>1, <1>3, <1>4 DEF HoldersInv, MarkedIsHolder, AtWork
  <2>2. OneAfterAnother'
    <3>1. SUFFICES ASSUME apart'
                   PROVE  OneAfterAnother'
      BY DEF OneAfterAnother
    <3>2. filling.at = "idle" /\ \A b \in Activations : activation[b].at = "idle"
      BY <1>1, <3>1 DEF AtWork
    <3>3. \A b \in Activations : InPlace(activation[b])
      BY <1>1, <3>1 DEF HoldersInv, OneAfterAnother
    <3>4. InPlace(activation[a])'
      BY <1>1, <1>3, <1>4 DEF InPlace
    <3>5. \A b \in Activations : b # a => InPlace(activation[b])'
      BY <1>1, <1>4, <3>3 DEF InPlace
    <3> QED
      BY <1>1, <1>4, <3>2, <3>4, <3>5 DEF OneAfterAnother
  <2> QED
    BY <2>1, <2>2
<1>12. AllDrawn'
  <2>1. Remembers(r)
    BY <1>2 DEF Remembers, IdleRun, Absent, Joined, NoOrdinal
  <2> QED
    BY <1>1, <1>4, <2>1, DrawnOf DEF AllDrawn, Remembers
<1>11. VettedClosed'
  BY <1>1 DEF HoldersInv, VettedClosed
<1> QED
  BY <1>6, <1>7, <1>8, <1>9, <1>10, <1>11, <1>12 DEF HoldersInv

\* What moves no activation and no number disturbs neither the numbers nor what was read of them.
LEMMA OthersKeep ==
  ASSUME HoldersInv, HoldersShape', UNCHANGED activation, seat'.next = seat.next,
         leftover'.runs = leftover.runs,
         \A s \in Sessions : /\ holding[s].there => holding'[s].there
                             /\ holding'[s].ordinal = holding[s].ordinal,
         seat'.holder # Nobody => holding'[seat'.holder].there,
         filling'.at # "idle" => filling'.holder \in Sessions /\ holding'[filling'.holder].there,
         closing'.holder # Nobody => holding'[closing'.holder].there,
         OneAfterAnother', MarkedIsHolder', VettedClosed'
  PROVE  HoldersInv'
<1>1. NumbersBounded'
  BY DEF HoldersInv, NumbersBounded, ToDraw
<1>2. ClaimsDistinct'
  BY DEF HoldersInv, ClaimsDistinct, Claimed
<1>3. NamedAreThere'
  <2>1. ASSUME NEW b \in Activations PROVE NamesExist(activation[b])'
    BY DEF HoldersInv, NamedAreThere, NamesExist, HoldersShape, ActivationStates, SomeHolder
  <2>2. \A s \in Sessions : ~holding'[s].there => holding'[s].ordinal = 0
    BY DEF HoldersInv, NamedAreThere
  <2> QED
    BY <2>1, <2>2 DEF NamedAreThere
<1>4. AllDrawn'
  BY DEF HoldersInv, AllDrawn, Remembers
<1> QED
  BY <1>1, <1>2, <1>3, <1>4 DEF HoldersInv

\* The backfill marks a record only when nobody is marked, and points only where it marked.
LEMMA FillsKeep ==
  ASSUME HoldersInv, NEW s \in Sessions, FillPlans(s) \/ FillMarks \/ FillPoints \/ FillCutOff
  PROVE  HoldersInv'
<1> USE DEF HoldersInv
<1>1. /\ UNCHANGED <<activation, closing, reopened>> /\ seat'.next = seat.next
      /\ leftover' \in [runs : {leftover.runs}, fills : Nat, lifecycle : Nat, cutOffs : Nat]
      /\ apart' \in BOOLEAN /\ (apart' => apart)
      /\ seat' \in [holder : SomeHolder, next : Nat \ {0}, closed : BOOLEAN]
      /\ filling' \in [at : {"idle", "mirror", "pointer"}, holder : SomeHolder]
  <2>1. /\ seat \in [holder : SomeHolder, next : Nat \ {0}, closed : BOOLEAN] /\ apart \in BOOLEAN
        /\ leftover \in [runs : Nat, fills : Nat, lifecycle : Nat, cutOffs : Nat]
        /\ filling \in [at : {"idle", "mirror", "pointer"}, holder : SomeHolder]
        /\ s \in SomeHolder /\ Nobody \in SomeHolder
    BY DEF HoldersShape, SomeHolder
  <2>2. CASE FillPlans(s)
    BY <2>1, <2>2 DEF FillPlans
  <2>3. CASE FillMarks
    BY <2>1, <2>3 DEF FillMarks
  <2>4. CASE FillPoints
    BY <2>1, <2>4 DEF FillPoints
  <2>5. CASE FillCutOff
    BY <2>1, <2>5 DEF FillCutOff
  <2> QED
    BY <2>2, <2>3, <2>4, <2>5
<1>2. /\ holding' \in [Sessions -> HolderGroups]
      /\ \A t \in Sessions : /\ holding'[t].there = holding[t].there
                             /\ holding'[t].ordinal = holding[t].ordinal
                             /\ holding'[t].closed = holding[t].closed
  <2>1. holding \in [Sessions -> HolderGroups]
    BY DEF HoldersShape
  <2>2. CASE FillMarks
    <3>1. filling.holder \in Sessions /\ holding' = [holding EXCEPT ![filling.holder].active = TRUE]
      BY <2>2 DEF FillMarks, NamedAreThere
    <3> QED
      BY <2>1, <3>1 DEF HolderGroups
  <2>3. CASE FillPlans(s) \/ FillPoints \/ FillCutOff
    BY <2>1, <2>3 DEF FillPlans, FillPoints, FillCutOff
  <2> QED
    BY <2>2, <2>3
<1>3. HoldersShape'
  BY <1>1, <1>2 DEF HoldersShape
<1>4. CASE FillPlans(s)
  <2>1. /\ filling.at = "idle" /\ seat.holder = Nobody /\ FillChoice(s) /\ UNCHANGED <<seat, holding>>
        /\ filling' = [at |-> IF holding[s].active THEN "pointer" ELSE "mirror", holder |-> s]
        /\ apart' = (apart /\ ~AtWork)
    BY <1>4 DEF FillPlans
  <2>2. OneAfterAnother'
    BY <1>1, <2>1 DEF OneAfterAnother, InPlace, AtWork
  <2>a. MarkedIsHolder'
    BY <1>1, <2>1, SeatHoldersConstants DEF MarkedIsHolder
  <2>3. VettedClosed' /\ holding[s].there
    BY <1>1, <2>1 DEF VettedClosed, FillChoice, There
  <2> QED
    BY <1>1, <1>2, <1>3, <2>1, <2>2, <2>a, <2>3, OthersKeep DEF NamedAreThere
<1>5. CASE FillMarks
  <2>1. /\ filling.at = "mirror" /\ filling.holder \in Sessions /\ UNCHANGED <<seat, apart>>
        /\ \A t \in Sessions : t # filling.holder => holding'[t] = holding[t]
        /\ filling' = [filling EXCEPT !.at = "pointer"]
    BY <1>5 DEF FillMarks, HoldersShape, NamedAreThere
  <2>2. filling' = [at |-> "pointer", holder |-> filling.holder]
    BY <2>1 DEF HoldersShape
  <2>3. OneAfterAnother' /\ MarkedIsHolder'
    BY <1>1, <2>1, <2>2, SeatHoldersConstants DEF OneAfterAnother, InPlace, MarkedIsHolder
  <2>4. VettedClosed'
    BY <1>1, <1>2 DEF VettedClosed, HoldersShape, SomeHolder
  <2> QED
    BY <1>1, <1>2, <1>3, <2>1, <2>2, <2>3, <2>4, OthersKeep DEF NamedAreThere, HoldersShape, SomeHolder
<1>6. CASE FillPoints
  <2>1. /\ filling.at = "pointer" /\ UNCHANGED holding /\ filling' = [at |-> "idle", holder |-> Nobody]
        /\ seat'.holder = seat.holder \/ seat'.holder = filling.holder
        /\ apart' => seat'.holder = filling.holder
    BY <1>6 DEF FillPoints, HoldersShape
  <2>2. OneAfterAnother' /\ MarkedIsHolder'
    BY <1>1, <2>1, SeatHoldersConstants DEF OneAfterAnother, InPlace, MarkedIsHolder
  <2>3. VettedClosed'
    BY <1>1, <2>1 DEF VettedClosed
  <2> QED
    BY <1>1, <1>2, <1>3, <2>1, <2>2, <2>3, OthersKeep DEF NamedAreThere
<1>7. CASE FillCutOff
  <2>1. /\ filling.at # "idle" /\ UNCHANGED <<seat, holding>>
        /\ filling' = [at |-> "idle", holder |-> Nobody] /\ apart' = (apart /\ filling.at = "mirror")
    BY <1>7 DEF FillCutOff
  <2>2. OneAfterAnother'
    BY <1>1, <2>1 DEF OneAfterAnother, InPlace
  <2>a. MarkedIsHolder'
    <3> SUFFICES ASSUME apart', NEW t \in Sessions, holding[t].active PROVE FALSE
      BY <2>1 DEF MarkedIsHolder
    <3>1. apart /\ filling.at = "mirror"
      BY <2>1
    <3>2. seat.holder = Nobody
      BY <3>1 DEF OneAfterAnother
    <3>3. seat.holder = t
      BY <3>1 DEF MarkedIsHolder
    <3> QED
      BY <3>2, <3>3, SeatHoldersConstants
  <2>3. VettedClosed'
    BY <1>1, <2>1 DEF VettedClosed
  <2> QED
    BY <1>1, <1>2, <1>3, <2>1, <2>2, <2>a, <2>3, OthersKeep DEF NamedAreThere
<1> QED
  BY <1>4, <1>5, <1>6, <1>7

\* A session joins, closes or opens again; its record keeps its holder group.
LEMMA SessionsKeep ==
  ASSUME HoldersInv, NEW s \in Sessions, Join(s) \/ SessionLifecycle(s)
  PROVE  HoldersInv'
<1> USE DEF HoldersInv
<1>1. /\ UNCHANGED <<seat, activation, filling, closing, apart>>
      /\ holding \in [Sessions -> HolderGroups] /\ reopened \subseteq Sessions
      /\ leftover \in [runs : Nat, fills : Nat, lifecycle : Nat, cutOffs : Nat]
  BY DEF HoldersShape, Join, SessionLifecycle
<1>2. CASE Join(s)
  <2>1. /\ ~holding[s].there /\ holding' = [holding EXCEPT ![s] = Joined]
        /\ UNCHANGED <<reopened, leftover>>
    BY <1>2 DEF Join
  <2>2. Joined \in HolderGroups /\ ~Joined.active /\ Joined.ordinal = 0
    BY DEF Joined, HolderGroups, NoOrdinal
  <2>3. holding[s].ordinal = 0
    BY <2>1 DEF NamedAreThere
  <2>4. HoldersShape'
    BY <1>1, <2>1, <2>2 DEF HoldersShape
  <2>5. \A t \in Sessions : /\ holding[t].there => holding'[t] = holding[t]
                            /\ holding'[t].ordinal = holding[t].ordinal
                            /\ holding'[t].active => holding[t].active
    BY <1>1, <2>1, <2>2, <2>3
  <2>6. \A a \in Activations : InPlace(activation[a]) /\ NamesExist(activation[a]) => InPlace(activation[a])'
    BY <1>1, <2>5 DEF InPlace, NamesExist
  <2>7. OneAfterAnother' /\ MarkedIsHolder' /\ VettedClosed'
    BY <1>1, <2>1, <2>5, <2>6
       DEF OneAfterAnother, MarkedIsHolder, VettedClosed, NamedAreThere, HoldersShape, SomeHolder
  <2> QED
    BY <1>1, <2>1, <2>4, <2>5, <2>7, OthersKeep DEF NamedAreThere, HoldersShape, SomeHolder
<1>3. CASE SessionLifecycle(s)
  <2>1. /\ holding' = [holding EXCEPT ![s].closed = ~@]
        /\ reopened' = IF holding[s].closed /\ closing.at = "decide" THEN reopened \cup {s} ELSE reopened
        /\ leftover' = [leftover EXCEPT !.lifecycle = @ - 1] /\ leftover.lifecycle > 0
    BY <1>3 DEF SessionLifecycle
  <2>2. /\ holding' \in [Sessions -> HolderGroups]
        /\ \A t \in Sessions : /\ holding'[t].there = holding[t].there
                               /\ holding'[t].ordinal = holding[t].ordinal
                               /\ holding'[t].active = holding[t].active
                               /\ t # s => holding'[t] = holding[t]
        /\ holding'[s].closed = ~holding[s].closed
    BY <1>1, <2>1 DEF HolderGroups
  <2>3. /\ leftover' \in [runs : {leftover.runs}, fills : Nat, lifecycle : Nat, cutOffs : Nat]
        /\ reopened' \subseteq Sessions
    BY <1>1, <2>1
  <2>4. HoldersShape'
    BY <1>1, <2>2, <2>3 DEF HoldersShape
  <2>5. \A a \in Activations : InPlace(activation[a]) /\ NamesExist(activation[a]) => InPlace(activation[a])'
    BY <1>1, <2>2 DEF InPlace, NamesExist, HoldersShape, ActivationStates, SomeHolder
  <2>6. OneAfterAnother' /\ MarkedIsHolder'
    BY <1>1, <2>2, <2>5 DEF OneAfterAnother, MarkedIsHolder, NamedAreThere
  <2>7. VettedClosed'
    BY <1>1, <2>1, <2>2 DEF VettedClosed, HoldersShape, SomeHolder
  <2> QED
    BY <1>1, <2>2, <2>3, <2>4, <2>6, <2>7, OthersKeep DEF NamedAreThere, HoldersShape, SomeHolder
<1> QED
  BY <1>2, <1>3

\* The close reads the pointer, vets its holder, and closes the seat; a seat is opened again.
LEMMA SeatClosesKeep ==
  ASSUME HoldersInv, SeatCloseReads \/ SeatCloseVets \/ SeatCloseDecides \/ SeatReopens
  PROVE  HoldersInv'
<1> USE DEF HoldersInv
<1>1. /\ UNCHANGED <<holding, activation, filling, apart, leftover>>
      /\ seat' \in [holder : {seat.holder}, next : {seat.next}, closed : BOOLEAN]
      /\ reopened' \subseteq Sessions
  BY DEF HoldersShape, SeatCloseReads, SeatCloseVets, SeatCloseDecides, SeatReopens
<1>2. /\ closing' \in [at : {"idle", "vet", "decide"}, holder : SomeHolder, open : BOOLEAN]
      /\ closing'.holder \in {Nobody, seat.holder, closing.holder}
  <2>1. /\ closing \in [at : {"idle", "vet", "decide"}, holder : SomeHolder, open : BOOLEAN]
        /\ seat.holder \in SomeHolder /\ Nobody \in SomeHolder
        /\ (closing.holder # Nobody /\ ~holding[closing.holder].closed) \in BOOLEAN
    BY DEF HoldersShape, SomeHolder
  <2>2. CASE SeatCloseReads
    BY <2>1, <2>2 DEF SeatCloseReads
  <2>3. CASE SeatCloseVets
    BY <2>1, <2>3 DEF SeatCloseVets
  <2>4. CASE SeatCloseDecides
    BY <2>1, <2>4 DEF SeatCloseDecides
  <2>5. CASE SeatReopens
    BY <2>1, <2>5 DEF SeatReopens
  <2> QED
    BY <2>2, <2>3, <2>4, <2>5
<1>3. HoldersShape'
  BY <1>1, <1>2 DEF HoldersShape
<1>4. OneAfterAnother' /\ MarkedIsHolder'
  BY <1>1 DEF OneAfterAnother, InPlace, MarkedIsHolder
<1>5. VettedClosed'
  <2>1. CASE SeatCloseReads
    BY <1>1, <1>2, <2>1 DEF SeatCloseReads, VettedClosed, HoldersShape
  <2>2. CASE SeatCloseVets
    <3>1. /\ closing'.open = (closing.holder # Nobody /\ ~holding[closing.holder].closed)
          /\ closing'.holder = closing.holder
      BY <2>2 DEF SeatCloseVets, HoldersShape
    <3> QED
      BY <1>1, <3>1 DEF VettedClosed
  <2>3. CASE SeatCloseDecides
    BY <2>3 DEF SeatCloseDecides, VettedClosed
  <2>4. CASE SeatReopens
    BY <1>1, <2>4 DEF SeatReopens, VettedClosed
  <2> QED
    BY <2>1, <2>2, <2>3, <2>4
<1>6. closing'.holder # Nobody => holding'[closing'.holder].there
  BY <1>1, <1>2 DEF NamedAreThere
<1> QED
  BY <1>1, <1>3, <1>4, <1>5, <1>6, OthersKeep DEF NamedAreThere

\* As it was minted, a seat has one holder, numbered 1.
LEMMA HoldersStart == SeatHoldersInit => HoldersInv
<1> SUFFICES ASSUME SeatHoldersInit PROVE HoldersInv
  OBVIOUS
<1> USE SeatHoldersConstants
<1>1. /\ IdleRun \in ActivationStates /\ IdleRun.at = "idle" /\ IdleRun.to = Nobody
      /\ IdleRun.from = Nobody /\ IdleRun.others = {} /\ IdleRun.drawn = 0
      /\ IdleRun.mine.ordinal = 0 /\ IdleRun.his.ordinal = 0
  BY DEF ActivationStates, ActivationSteps, HolderGroups, IdleRun, Absent, Joined, SomeHolder, NoOrdinal
<1>2. \A a \in Activations : activation[a] = IdleRun
  BY DEF SeatHoldersInit
<1>3. /\ seat \in [holder : {FirstHolder, Nobody}, next : {2}, closed : {FALSE}]
      /\ filling = [at |-> "idle", holder |-> Nobody]
      /\ closing = [at |-> "idle", holder |-> Nobody, open |-> FALSE]
      /\ leftover = [runs |-> MaxRuns, fills |-> MaxFills, lifecycle |-> MaxLifecycle,
                     cutOffs |-> MaxCutOffs]
  <2>1. PICK h \in {FirstHolder, Nobody} : seat = [holder |-> h, next |-> 2, closed |-> FALSE]
    BY DEF SeatHoldersInit
  <2>2. seat \in [holder : {FirstHolder, Nobody}, next : {2}, closed : {FALSE}]
    BY <2>1
  <2> QED
    BY <2>2 DEF SeatHoldersInit
<1>4. /\ holding \in [Sessions -> HolderGroups]
      /\ holding[FirstHolder].active => seat.holder = FirstHolder
      /\ holding[FirstHolder].there /\ holding[FirstHolder].ordinal = 1
      /\ \A s \in Sessions : s # FirstHolder => ~holding[s].active /\ holding[s].ordinal = 0
  <2>1. PICK closed \in BOOLEAN :
          holding = [s \in Sessions |->
            IF s # FirstHolder THEN Absent
            ELSE [Joined EXCEPT !.active = (seat.holder = s), !.ordinal = 1, !.closed = closed]]
    BY DEF SeatHoldersInit
  <2>2. /\ Absent \in HolderGroups /\ ~Absent.active /\ Absent.ordinal = 0
        /\ Joined \in HolderGroups /\ Joined.there
    BY DEF Absent, Joined, HolderGroups, NoOrdinal
  <2>3. /\ holding[FirstHolder] = [Joined EXCEPT !.active = (seat.holder = FirstHolder),
                                                !.ordinal = 1, !.closed = closed]
        /\ \A s \in Sessions : s # FirstHolder => holding[s] = Absent
    BY <2>1
  <2>4. /\ holding[FirstHolder] \in HolderGroups /\ holding[FirstHolder].there
        /\ holding[FirstHolder].active = (seat.holder = FirstHolder)
        /\ holding[FirstHolder].ordinal = 1
    <3>1. \A b, c \in BOOLEAN :
            LET r == [Joined EXCEPT !.active = b, !.ordinal = 1, !.closed = c]
            IN  r \in HolderGroups /\ r.there /\ r.active = b /\ r.ordinal = 1
      BY DEF Joined, HolderGroups, NoOrdinal
    <3>2. (seat.holder = FirstHolder) \in BOOLEAN
      OBVIOUS
    <3> QED
      BY <2>1, <2>3, <3>1, <3>2
  <2> QED
    BY <2>1, <2>2, <2>3, <2>4
<1>5. HoldersShape
  <2>1. activation \in [Activations -> ActivationStates] /\ reopened = {} /\ apart = TRUE
    BY <1>1 DEF SeatHoldersInit
  <2>2. seat \in [holder : SomeHolder, next : Nat \ {0}, closed : BOOLEAN]
    <3>1. seat.holder \in SomeHolder /\ 2 \in Nat \ {0}
      BY <1>3 DEF SomeHolder
    <3> QED
      BY <1>3, <3>1
  <2>3. leftover \in [runs : Nat, fills : Nat, lifecycle : Nat, cutOffs : Nat]
    BY <1>3
  <2> QED
    BY <1>3, <1>4, <2>1, <2>2, <2>3 DEF HoldersShape, SomeHolder
<1>6. NumbersBounded
  <2>1. ToDraw = {}
    BY <1>1, <1>2 DEF ToDraw
  <2> QED
    BY <1>3, <2>1, FS_EmptySet DEF NumbersBounded
<1>7. ClaimsDistinct
  <2>1. \A s \in Sessions : \A n \in Nat \ {0} : Claimed(s, n) => s = FirstHolder /\ n = 1
    BY <1>1, <1>2, <1>4 DEF Claimed, ClaimedBy
  <2> QED
    BY <1>3, <2>1 DEF ClaimsDistinct
<1>8. NamedAreThere /\ AllDrawn
  BY <1>1, <1>2, <1>3, <1>4 DEF NamedAreThere, NamesExist, AllDrawn, Remembers
<1>9. OneAfterAnother
  BY <1>1, <1>2, <1>3 DEF OneAfterAnother, InPlace
<1>10. MarkedIsHolder /\ VettedClosed
  BY <1>3, <1>4 DEF MarkedIsHolder, VettedClosed
<1> QED
  BY <1>5, <1>6, <1>7, <1>8, <1>9, <1>10 DEF HoldersInv

\* Every step keeps the invariant.
LEMMA HoldersStep == HoldersInv /\ [SeatHoldersNext]_seatHolderVars => HoldersInv'
<1> SUFFICES ASSUME HoldersInv, [SeatHoldersNext]_seatHolderVars PROVE HoldersInv'
  OBVIOUS
<1>1. ASSUME NEW a \in Activations, NEW s \in Sessions, ActivationBegins(a, s) \/ HealReads(a, s)
      PROVE  HoldersInv'
  BY <1>1, ActivationBeginsKeeps, HealReadsKeeps
<1>2. ASSUME NEW a \in Activations,
             \/ ReadSuccessor(a) \/ ReadPredecessor(a) \/ Retire(a) \/ DrawAndPoint(a) \/ Activate(a)
             \/ HealRetires(a) \/ HealDraws(a) \/ ActivationCutOff(a)
      PROVE  HoldersInv'
  BY <1>2, ReadSuccessorKeeps, ReadPredecessorKeeps, RetireKeeps, DrawAndPointKeeps, ActivateKeeps,
     HealRetiresKeeps, HealDrawsKeeps, ActivationCutOffKeeps
<1>3. ASSUME NEW s \in Sessions, FillPlans(s) \/ Join(s) \/ SessionLifecycle(s) PROVE HoldersInv'
  BY <1>3, FillsKeep, SessionsKeep
<1>4. CASE FillMarks \/ FillPoints \/ FillCutOff
  BY <1>4, FillsKeep, SeatHoldersConstants
<1>5. CASE SeatCloseReads \/ SeatCloseVets \/ SeatCloseDecides \/ SeatReopens
  BY <1>5, SeatClosesKeep
<1>6. CASE UNCHANGED seatHolderVars
  BY <1>6 DEF seatHolderVars, HoldersInv, HoldersShape, NumbersBounded, ToDraw, ClaimsDistinct, Claimed,
     NamedAreThere, NamesExist, OneAfterAnother, InPlace, MarkedIsHolder, VettedClosed, AllDrawn, Remembers
<1> QED
  BY <1>1, <1>2, <1>3, <1>4, <1>5, <1>6 DEF SeatHoldersNext

\* With the bound on the numbers, the state is as its type says.
LEMMA HoldersTyped == HoldersInv => SeatHoldersTypeOK
<1> SUFFICES ASSUME HoldersInv PROVE SeatHoldersTypeOK
  OBVIOUS
<1> DEFINE ordinals == 0 .. (MaxRuns + 2)
           records == [there : BOOLEAN, active : BOOLEAN, ordinal : ordinals, closed : BOOLEAN]
<1> USE SeatHoldersConstants
<1>1. seat.next \in Nat \ {0} /\ seat.next <= MaxRuns + 2
  <2>1. seat.next \in Nat \ {0} /\ leftover.runs \in Nat /\ Cardinality(ToDraw) \in Nat
    BY FS_CardinalityType DEF HoldersInv, HoldersShape, NumbersBounded
  <2> QED
    BY <2>1 DEF HoldersInv, NumbersBounded
<1>2. \A n \in Nat : n < seat.next => n \in ordinals
  BY <1>1
<1>3. \A g \in HolderGroups : g.ordinal < seat.next => g \in records
  BY <1>2 DEF HolderGroups
<1>4. holding \in [Sessions -> records]
  BY <1>3, DrawnOf DEF HoldersInv, HoldersShape
<1>5. ASSUME NEW a \in Activations
      PROVE  /\ activation[a].at \in {"idle", "successor", "predecessor", "retire", "hold", "activate",
                         "heal", "healing"}
             /\ {activation[a].to, activation[a].from, activation[a].other} \subseteq Sessions \cup {Nobody}
             /\ {activation[a].mine, activation[a].his} \subseteq records
             /\ activation[a].drawn \in ordinals /\ activation[a].others \subseteq Sessions
  <2>1. activation[a] \in ActivationStates /\ Remembers(activation[a])
    BY ShapeOf, DrawnOf
  <2>2. /\ activation[a].mine \in HolderGroups /\ activation[a].his \in HolderGroups
        /\ activation[a].drawn \in Nat
    BY <2>1 DEF ActivationStates
  <2>3. {activation[a].mine, activation[a].his} \subseteq records /\ activation[a].drawn \in ordinals
    BY <1>2, <1>3, <2>1, <2>2 DEF Remembers
  <2> HIDE DEF ordinals, records
  <2> QED
    BY <2>1, <2>3 DEF ActivationStates, ActivationSteps, SomeHolder
<1>6. seat \in [holder : Sessions \cup {Nobody}, next : ordinals \ {0}, closed : BOOLEAN]
  BY <1>1 DEF HoldersInv, HoldersShape, SomeHolder
<1>7. /\ filling \in [at : {"idle", "mirror", "pointer"}, holder : Sessions \cup {Nobody}]
      /\ closing \in [at : {"idle", "vet", "decide"}, holder : Sessions \cup {Nobody}, open : BOOLEAN]
      /\ reopened \subseteq Sessions /\ apart \in BOOLEAN
  BY DEF HoldersInv, HoldersShape, SomeHolder
<1> QED
  BY <1>4, <1>5, <1>6, <1>7 DEF SeatHoldersTypeOK

\* No number is twice on disk.
LEMMA HoldersNumbered == HoldersInv => OrdinalsDistinct
<1> SUFFICES ASSUME HoldersInv PROVE OrdinalsDistinct
  OBVIOUS
<1>1. \A s \in Sessions : holding[s].ordinal \in Nat
  BY DEF HoldersInv, HoldersShape, HolderGroups
<1> QED
  BY <1>1, DrawnOf DEF OrdinalsDistinct, HoldersInv, ClaimsDistinct, Claimed, NoOrdinal

\* One record says this now, and the others say what they said.
Moved(t, active, n) ==
  /\ \A s \in Sessions : s # t => holding'[s] = holding[s]
  /\ holding'[t].active = active /\ holding'[t].ordinal = n
\* A write moves the one record.
LEMMA WrittenMoves ==
  ASSUME HoldersInv, NEW t \in Sessions, NEW copy \in HolderGroups, NEW active \in BOOLEAN, NEW n \in Nat,
         Written(copy, t, active, n)
  PROVE  Moved(t, active, n)
  BY DEF Moved, Written, HoldersInv, HoldersShape, HolderGroups

\* An activation that is alone writes the numbers it has read.
LEMMA WritesStay ==
  ASSUME HoldersInv, apart, NEW a \in Activations, Retire(a) \/ HealRetires(a) \/ Activate(a),
         NEW s \in Sessions, holding[s].ordinal # NoOrdinal
  PROVE  holding'[s].ordinal = holding[s].ordinal
<1> USE ShapeOf
<1> DEFINE q == activation[a]
<1>1. /\ InPlace(q) /\ NamesExist(q) /\ q.mine \in HolderGroups /\ q.his \in HolderGroups /\ q.drawn \in Nat
      /\ q.his.ordinal \in Nat
  BY DEF HoldersInv, OneAfterAnother, NamedAreThere, ActivationStates, HolderGroups
<1>2. CASE Retire(a)
  <2>1. Written(q.his, q.from, FALSE, q.his.ordinal) /\ q.at = "retire"
    BY <1>2 DEF Retire
  <2>2. q.from \in Sessions /\ q.his.ordinal = holding[q.from].ordinal
    BY <1>1, <2>1 DEF InPlace, NamesExist
  <2>3. Moved(q.from, FALSE, q.his.ordinal)
    BY <1>1, <2>1, <2>2, WrittenMoves
  <2> QED
    BY <2>2, <2>3 DEF Moved
<1>3. CASE HealRetires(a)
  <2>1. Written(q.his, q.other, FALSE, q.his.ordinal) /\ q.at = "healing"
    BY <1>3 DEF HealRetires
  <2>2. q.other \in Sessions /\ q.his.ordinal = holding[q.other].ordinal
    BY <1>1, <2>1 DEF InPlace, NamesExist
  <2>3. Moved(q.other, FALSE, q.his.ordinal)
    BY <1>1, <2>1, <2>2, WrittenMoves
  <2> QED
    BY <2>2, <2>3 DEF Moved
<1>4. CASE Activate(a)
  <2>1. Written(q.mine, q.to, TRUE, q.drawn) /\ q.at = "activate"
    BY <1>4 DEF Activate
  <2>2. q.to \in Sessions /\ holding[q.to].ordinal \in {0, q.drawn}
    BY <1>1, <2>1 DEF InPlace, NamesExist
  <2>3. Moved(q.to, TRUE, q.drawn)
    BY <1>1, <2>1, <2>2, WrittenMoves
  <2> QED
    BY <2>2, <2>3 DEF Moved, NoOrdinal
<1> QED
  BY <1>2, <1>3, <1>4

\* No step of another process changes a number.
LEMMA NumbersStay ==
  ASSUME HoldersInv, apart, [SeatHoldersNext]_seatHolderVars, NEW s \in Sessions,
         holding[s].ordinal # NoOrdinal
  PROVE  holding'[s].ordinal = holding[s].ordinal
<1>1. holding \in [Sessions -> HolderGroups] /\ holding[s].there
  BY DEF HoldersInv, NamedAreThere, NoOrdinal, HoldersShape
<1>2. ASSUME NEW a \in Activations, NEW t \in Sessions, ActivationBegins(a, t) \/ HealReads(a, t)
      PROVE  UNCHANGED holding
  BY <1>2 DEF ActivationBegins, HealReads, OnlyRun
<1>3. ASSUME NEW a \in Activations,
             ReadSuccessor(a) \/ ReadPredecessor(a) \/ DrawAndPoint(a) \/ HealDraws(a) \/ ActivationCutOff(a)
      PROVE  UNCHANGED holding
  BY <1>3 DEF ReadSuccessor, ReadPredecessor, DrawAndPoint, HealDraws, ActivationCutOff, OnlyRun
<1>4. ASSUME NEW a \in Activations, Retire(a) \/ HealRetires(a) \/ Activate(a)
      PROVE  holding'[s].ordinal = holding[s].ordinal
  BY <1>4, WritesStay
<1>5. ASSUME NEW t \in Sessions, FillPlans(t) \/ Join(t) \/ SessionLifecycle(t)
      PROVE  holding'[s].ordinal = holding[s].ordinal
  <2>1. CASE FillPlans(t)
    BY <2>1 DEF FillPlans
  <2>2. CASE Join(t)
    <3>1. s # t /\ holding' = [holding EXCEPT ![t] = Joined]
      BY <1>1, <2>2 DEF Join
    <3> QED
      BY <1>1, <3>1
  <2>3. CASE SessionLifecycle(t)
    <3>1. holding' = [holding EXCEPT ![t].closed = ~@]
      BY <2>3 DEF SessionLifecycle
    <3> QED
      BY <1>1, <3>1 DEF HolderGroups
  <2> QED
    BY <1>5, <2>1, <2>2, <2>3
<1>6. CASE FillMarks \/ FillPoints \/ FillCutOff
  <2>1. CASE FillMarks
    <3>1. holding' = [holding EXCEPT ![filling.holder].active = TRUE]
      BY <2>1 DEF FillMarks
    <3> QED
      BY <1>1, <3>1 DEF HolderGroups
  <2>2. CASE FillPoints \/ FillCutOff
    BY <2>2 DEF FillPoints, FillCutOff
  <2> QED
    BY <1>6, <2>1, <2>2
<1>7. CASE SeatCloseReads \/ SeatCloseVets \/ SeatCloseDecides \/ SeatReopens \/ UNCHANGED seatHolderVars
  BY <1>7 DEF SeatCloseReads, SeatCloseVets, SeatCloseDecides, SeatReopens, seatHolderVars
<1> QED
  BY <1>2, <1>3, <1>4, <1>5, <1>6, <1>7 DEF SeatHoldersNext

\* Of the steps that end an activation where it should, one writes the mark and one finds it written.
LEMMA RunsSettle ==
  ASSUME HoldersInv, apart, [SeatHoldersNext]_seatHolderVars, NEW a \in Activations,
         leftover' = leftover, activation'[a] = IdleRun,
         \/ activation[a].at = "activate"
         \/ activation[a].at = "predecessor" /\ activation[a].from = activation[a].to
  PROVE  /\ seat'.holder = activation[a].to
         /\ holding'[activation[a].to].active /\ holding'[activation[a].to].ordinal # NoOrdinal
         /\ \A s \in Sessions \ {activation[a].to} : ~holding'[s].active
<1> USE ShapeOf
<1> DEFINE q == activation[a]
<1>1. /\ InPlace(q) /\ NamesExist(q) /\ q.to \in Sessions /\ filling.at = "idle"
      /\ q.mine \in HolderGroups
      /\ \A s \in Sessions : holding[s].active => seat.holder = s
  BY DEF HoldersInv, OneAfterAnother, NamedAreThere, ActivationStates, MarkedIsHolder
<1>2. CASE Activate(a)
  <2>1. Written(q.mine, q.to, TRUE, q.drawn) /\ q.at = "activate" /\ seat' = seat
    BY <1>2 DEF Activate
  <2>2. seat.holder = q.to /\ q.drawn # 0 /\ q.to \in SomeHolder
    BY <1>1, <2>1 DEF InPlace, NamesExist, SomeHolder
  <2>3. Moved(q.to, TRUE, q.drawn)
    <3>1. q.drawn \in Nat
      BY DEF ActivationStates
    <3> QED
      BY <1>1, <2>1, <3>1, WrittenMoves
  <2> QED
    BY <1>1, <2>1, <2>2, <2>3 DEF Moved, NoOrdinal
<1>3. CASE ReadPredecessor(a)
  <2>1. q.at = "predecessor" /\ q.from = q.to /\ UNCHANGED <<seat, holding>>
    BY <1>3 DEF ReadPredecessor, OnlyRun
  <2>2. q.mine.active /\ q.mine.ordinal # NoOrdinal
    <3>1. \A r \in ActivationStates : activation' = [activation EXCEPT ![a] = r] => r.at = "idle"
      BY DEF IdleRun
    <3>2. [q EXCEPT !.others = {s \in Sessions \ {q.to} : holding[s].there}, !.at = "heal"] \in ActivationStates
      BY DEF ActivationStates, ActivationSteps
    <3> QED
      BY <1>3, <2>1, <3>1, <3>2 DEF ReadPredecessor, RunTo, ActivationStates
  <2> QED
    BY <1>1, <2>1, <2>2 DEF InPlace
<1>4. CASE ~Activate(a) /\ ~ReadPredecessor(a)
  <2>1. q.at \in {"activate", "predecessor"} /\ activation'[a].at = "idle"
    BY DEF IdleRun
  <2>2. ASSUME NEW b \in Activations, NEW t \in Sessions, ActivationBegins(b, t) \/ HealReads(b, t) PROVE FALSE
    <3>1. \E r : activation' = [activation EXCEPT ![b] = r]
      BY <2>2 DEF ActivationBegins, HealReads, RunTo
    <3>2. activation[b].at \in {"idle", "heal"}
      BY <2>2 DEF ActivationBegins, HealReads
    <3> QED
      BY <2>1, <3>1, <3>2
  <2>3. ASSUME NEW b \in Activations,
               \/ ReadSuccessor(b) \/ Retire(b) \/ DrawAndPoint(b) \/ HealRetires(b) \/ HealDraws(b)
               \/ ((Activate(b) \/ ReadPredecessor(b)) /\ b # a)
        PROVE  FALSE
    <3>1. \E r : activation' = [activation EXCEPT ![b] = r]
      BY <2>3 DEF ReadSuccessor, Retire, DrawAndPoint, HealRetires, HealDraws, Activate, ReadPredecessor, RunTo, RunEnds
    <3>2. b = a => activation[b].at \in {"successor", "retire", "hold", "healing", "heal"}
      BY <2>3 DEF ReadSuccessor, Retire, DrawAndPoint, HealRetires, HealDraws
    <3> QED
      BY <2>1, <3>1, <3>2
  <2>4. ASSUME NEW b \in Activations, ActivationCutOff(b) PROVE FALSE
    <3>1. leftover.cutOffs \in Nat /\ leftover' = [leftover EXCEPT !.cutOffs = @ - 1]
      BY <2>4 DEF ActivationCutOff, HoldersInv, HoldersShape
    <3>2. leftover'.cutOffs = leftover.cutOffs - 1
      BY <3>1 DEF HoldersInv, HoldersShape
    <3> QED
      BY <3>1, <3>2
  <2>5. UNCHANGED activation => FALSE
    BY <2>1
  <2>6. ASSUME NEW t \in Sessions, FillPlans(t) \/ Join(t) \/ SessionLifecycle(t) PROVE UNCHANGED activation
    BY <2>6 DEF FillPlans, Join, SessionLifecycle
  <2>7. ASSUME \/ FillMarks \/ FillPoints \/ FillCutOff \/ UNCHANGED seatHolderVars
               \/ SeatCloseReads \/ SeatCloseVets \/ SeatCloseDecides \/ SeatReopens
        PROVE  UNCHANGED activation
    BY <2>7 DEF FillMarks, FillPoints, FillCutOff, seatHolderVars, SeatCloseReads, SeatCloseVets,
       SeatCloseDecides, SeatReopens
  <2> QED
    BY <1>4, <2>2, <2>3, <2>4, <2>5, <2>6, <2>7 DEF SeatHoldersNext
<1> QED
  BY <1>2, <1>3, <1>4

\* Only the close of the seat sets its mark, over the holder it has vetted.
LEMMA ClosesVetted ==
  ASSUME HoldersInv, [SeatHoldersNext]_seatHolderVars, seat'.closed, ~seat.closed
  PROVE  seat.holder = Nobody \/ holding[seat.holder].closed \/ seat.holder \in reopened
<1> USE ShapeOf
<1>1. CASE SeatCloseDecides
  BY <1>1 DEF SeatCloseDecides, HoldersInv, HoldersShape, VettedClosed
<1>2. ASSUME NEW a \in Activations, NEW s \in Sessions, ActivationBegins(a, s) \/ HealReads(a, s)
      PROVE  FALSE
  BY <1>2 DEF ActivationBegins, HealReads, OnlyRun
<1>3. ASSUME NEW a \in Activations,
             \/ ReadSuccessor(a) \/ ReadPredecessor(a) \/ Retire(a) \/ DrawAndPoint(a) \/ Activate(a)
             \/ HealRetires(a) \/ HealDraws(a) \/ ActivationCutOff(a)
      PROVE  FALSE
  BY <1>3 DEF ReadSuccessor, ReadPredecessor, Retire, DrawAndPoint, Activate, HealRetires, HealDraws,
     ActivationCutOff, OnlyRun
<1>4. ASSUME NEW s \in Sessions, FillPlans(s) \/ Join(s) \/ SessionLifecycle(s) PROVE FALSE
  BY <1>4 DEF FillPlans, Join, SessionLifecycle
<1>5. CASE FillMarks \/ FillPoints \/ FillCutOff
  BY <1>5 DEF FillMarks, FillPoints, FillCutOff, HoldersInv, HoldersShape
<1>6. CASE SeatCloseReads \/ SeatCloseVets \/ SeatReopens \/ UNCHANGED seatHolderVars
  BY <1>6 DEF SeatCloseReads, SeatCloseVets, SeatReopens, seatHolderVars, HoldersInv, HoldersShape
<1> QED
  BY <1>1, <1>2, <1>3, <1>4, <1>5, <1>6 DEF SeatHoldersNext

\* The pointer, the marks and the numbers of a seat's holders, for any sessions, activations and
\* bounds: a mark is the pointer's, where processes came one after the other, cut off at whatever
\* step; a number is one session's, whatever overlapped, and stays its label; an activation that
\* ends as it should settles the seat; and a seat is closed over no holder that is open.
THEOREM SeatAlwaysHeld == SeatHoldersSpec => SeatHeld
<1>1. HoldersInv => SeatHoldersTypeOK /\ MarkedIsHolder /\ OrdinalsDistinct
  BY HoldersTyped, HoldersNumbered DEF HoldersInv
<1>2. HoldersInv /\ [SeatHoldersNext]_seatHolderVars =>
        [apart => \A s \in Sessions :
           holding[s].ordinal # NoOrdinal => holding'[s].ordinal = holding[s].ordinal]_seatHolderVars
  BY NumbersStay
<1>3. HoldersInv /\ [SeatHoldersNext]_seatHolderVars =>
        [\A a \in Activations :
           (apart /\ leftover' = leftover /\ activation'[a] = IdleRun
                  /\ (activation[a].at = "activate" \/ (activation[a].at = "predecessor" /\ activation[a].from = activation[a].to)))
             => /\ seat'.holder = activation[a].to
                /\ holding'[activation[a].to].active /\ holding'[activation[a].to].ordinal # NoOrdinal
                /\ \A s \in Sessions \ {activation[a].to} : ~holding'[s].active]_seatHolderVars
  BY RunsSettle
<1>4. HoldersInv /\ [SeatHoldersNext]_seatHolderVars =>
        [(seat'.closed /\ ~seat.closed) =>
           \/ seat.holder = Nobody \/ holding[seat.holder].closed
           \/ seat.holder \in reopened]_seatHolderVars
  BY ClosesVetted
<1> QED
  BY <1>1, <1>2, <1>3, <1>4, HoldersStart, HoldersStep, PTL
     DEF SeatHoldersSpec, SeatHeld, OrdinalIsALabel, ActivationSettles, ClosedOverNoOpenHolder
===============================================================================
