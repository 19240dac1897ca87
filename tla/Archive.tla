------------------------------- MODULE Archive -------------------------------
(***************************************************************************)
(* The files of one session between the hot directory and the archive.      *)
(* An archive run, a restore, a compression or decompression sweep and a    *)
(* repair work on them without a common lock (only sweeps exclude each      *)
(* other), one call of the file system at a time, while an owner may be     *)
(* writing the session; each may be killed between two calls.               *)
(*                                                                          *)
(* The content of a file is the set of lines it holds, and the empty set is *)
(* a file that does not exist.  The record stands for the file that makes   *)
(* the session visible, the log for every transcript file beside it.        *)
(***************************************************************************)
EXTENDS Naturals, FiniteSets

CONSTANTS MaxLines,  \* lines an owner ever says in the session
          MaxJobs,   \* runs, restores, sweeps and repairs ever started
          MaxKills,  \* of them that are killed
          MaxErrors  \* renames that fail for another reason than ENOENT

ASSUME ArchiveAssumption ==
  /\ MaxLines \in Nat \ {0}
  /\ {MaxJobs, MaxKills, MaxErrors} \subseteq Nat

ArchiveFiles == {"log", "record"}
ArchiveWorkers == {"archiver", "restorer", "sweeper", "repairer"}
NoContent == {}

VARIABLES
  hot,       \* file -> its content in the hot directory
  plain,     \* file -> its content in the archive
  zst,       \* content of the log's compressed form in the archive
  aside,     \* lines in quarantined compressed files
  rows,      \* file -> action of its last manifest row
  journal,   \* last row of the compression journal about the log
  editor,    \* what the session's owner is doing
  touched,   \* whether a file was written in the last hour
  graced,    \* whether the last restore is recent
  spoken,    \* lines the owner has spoken
  job,       \* worker -> the call it makes next, and what it remembers
  spent,     \* jobs, crashes and errors so far
  fold,      \* the manifest rows a repair has read
  alone,     \* history: nothing else has moved since then
  overtaken  \* history: what went wrong that the next repair or run cannot undo,
             \* and a compressed form that the last repair left beside a hot file

archiveVars == <<hot, plain, zst, aside, rows, journal, editor, touched, graced,
                 spoken, job, spent, fold, alone, overtaken>>

archiveFiles == <<hot, plain, zst, aside>>
archiveClock == <<editor, touched, graced, spoken>>

Rest == [at |-> "idle", files |-> {}, held |-> NoContent, again |-> FALSE]
(* at: the next call; files: still to do; held: content read or staged; *)
(* again: whether a file that was missing has been looked up again; of a   *)
(* repair, whether the file it has located is the record.                 *)

ArchiveSteps ==
  {"idle", "revalidate", "noClobber", "journal", "move", "resolve", "rename", "link", "settle",
   "verdict", "dropZst", "setAside", "retire", "reconcile", "eligible", "compare", "vanished",
   "dropPlain", "quarantine", "begin",
   "commit", "recheck", "unlinkPlain", "dropOurs", "credit", "stage", "commitPlain", "retireZst",
   "locate", "toArchive", "toHot", "fromZst"}

ArchiveTypeOK ==
  /\ hot \in [ArchiveFiles -> SUBSET (1..MaxLines)]
  /\ plain \in [ArchiveFiles -> SUBSET (1..MaxLines)]
  /\ zst \in SUBSET (1..MaxLines) /\ aside \in SUBSET (1..MaxLines)
  /\ rows \in [ArchiveFiles -> {"none", "archive", "restore"}]
  /\ journal \in {"none", "begin", "compressed", "closed"}
  /\ editor \in {"out", "in", "wrote"} /\ spoken \in 1..MaxLines
  /\ {touched, graced, alone} \subseteq BOOLEAN
  /\ job \in [ArchiveWorkers ->
       [at : ArchiveSteps, files : SUBSET ArchiveFiles, held : SUBSET (1..MaxLines), again : BOOLEAN]]
  /\ spent \in [{"jobs", "crashes", "errors"} -> Nat]
  /\ fold \in [ArchiveFiles -> {"none", "archive", "restore"}]
  /\ overtaken \subseteq {"beside", "clobbered", "crossed", "late", "parted", "skipped"}

(* A session in the hot directory, or one that was archived and compressed. *)
ArchiveInit ==
  /\ \/ /\ hot = [f \in ArchiveFiles |-> {1}] /\ plain = [f \in ArchiveFiles |-> NoContent]
        /\ zst = NoContent
        /\ rows = [f \in ArchiveFiles |-> "none"] /\ journal = "none"
     \/ /\ hot = [f \in ArchiveFiles |-> NoContent]
        /\ plain = [f \in ArchiveFiles |-> IF f = "record" THEN {1} ELSE NoContent]
        /\ zst = {1}
        /\ rows = [f \in ArchiveFiles |-> "archive"] /\ journal = "compressed"
  /\ aside = {}
  /\ editor = "out" /\ spoken = 1 /\ touched = FALSE /\ graced = FALSE
  /\ job = [w \in ArchiveWorkers |-> Rest]
  /\ spent = [k \in {"jobs", "crashes", "errors"} |-> 0]
  /\ fold = rows /\ alone = FALSE /\ overtaken = {}

(***************************************************************************)
(* What the workers share.                                                  *)
(***************************************************************************)
AtStep(w, step) == job[w].at = step
GoTo(w, step) == job' = [job EXCEPT ![w].at = step]
Spend(k, limit) == spent[k] < limit /\ spent' = [spent EXCEPT ![k] = @ + 1]
Begins(w, step, files) ==
  /\ AtStep(w, "idle") /\ Spend("jobs", MaxJobs)
  /\ job' = [job EXCEPT ![w] = [Rest EXCEPT !.at = step, !.files = files]]

(* Sidecars move first and the record last. *)
IsNext(w, f) == f \in job[w].files /\ (f = "record" => job[w].files = {"record"})
(* The worker is through with f; after the last file it rests. *)
DoneWith(w, f, step) ==
  LET left == job[w].files \ {f}
  IN  job' = [job EXCEPT ![w] =
                IF left = {} THEN Rest ELSE [Rest EXCEPT !.at = step, !.files = left]]
InArchive(f) == plain[f] # NoContent \/ (f = "log" /\ zst # NoContent)

(* Mutated form: copied and not removed. *)
MoveFileByCopy(from, to, f) ==
  /\ UNCHANGED from
  /\ to' = [to EXCEPT ![f] = from[f]]

(* rename(2) replaces what it finds; a missing source is its only refusal. *)
MoveFile(from, to, f) ==
  /\ from' = [from EXCEPT ![f] = NoContent]
  /\ to' = [to EXCEPT ![f] = from[f]]
Clobbers(from, to, f) ==
  overtaken' = overtaken \cup (IF to[f] \ from[f] # {} THEN {"clobbered"} ELSE {})

(***************************************************************************)
(* The owner of the session: a boundary write appends to the log, then      *)
(* renames the record, and creates what is missing.  It can only start      *)
(* while the record is in the hot directory.                                *)
(***************************************************************************)
Creates(f) == overtaken' = overtaken \cup (IF hot[f] = NoContent THEN {"late"} ELSE {})
OwnerOpens ==
  /\ editor = "out" /\ hot["record"] # NoContent /\ spoken < MaxLines
  /\ editor' = "in"
  /\ UNCHANGED <<archiveFiles, rows, journal, touched, graced, spoken, job, spent, overtaken>>
OwnerAppends ==
  /\ editor = "in" /\ spoken < MaxLines
  /\ spoken' = spoken + 1 /\ touched' = TRUE /\ editor' = "wrote"
  /\ hot' = [hot EXCEPT !["log"] = @ \cup {spoken + 1}]
  /\ Creates("log")
  /\ UNCHANGED <<plain, zst, aside, rows, journal, graced, job, spent>>
OwnerSaves ==
  /\ editor = "wrote" /\ editor' = "in"
  /\ hot' = [hot EXCEPT !["record"] = 1..spoken]
  /\ Creates("record")
  /\ UNCHANGED <<plain, zst, aside, rows, journal, touched, graced, spoken, job, spent>>
EditorEnds ==
  /\ editor = "in" /\ editor' = "out"
  /\ UNCHANGED <<archiveFiles, rows, journal, touched, graced, spoken, job, spent, overtaken>>

(* An hour or a week passes; no worker waits that long between two calls. *)
ArchiveTimePasses ==
  /\ editor = "out" /\ \A w \in ArchiveWorkers : AtStep(w, "idle")
  /\ touched \/ graced
  /\ touched' = FALSE /\ graced' \in {graced, FALSE}
  /\ UNCHANGED <<archiveFiles, rows, journal, editor, spoken, job, spent, overtaken>>

(***************************************************************************)
(* An archive run, for one selected session.                                *)
(***************************************************************************)
PlanRun ==
  /\ hot["record"] # NoContent /\ editor = "out" /\ ~touched /\ ~graced
  /\ Begins("archiver", "revalidate", {f \in ArchiveFiles : hot[f] # NoContent})
  /\ UNCHANGED <<archiveFiles, rows, journal, archiveClock, overtaken>>

Revalidate ==
  /\ AtStep("archiver", "revalidate")
  /\ job' = [job EXCEPT !["archiver"] =
       IF hot["record"] = NoContent \/ touched THEN Rest
       ELSE [@ EXCEPT !.at = "noClobber",
                      !.files = {f \in job["archiver"].files : hot[f] # NoContent}]]
  /\ UNCHANGED <<archiveFiles, rows, journal, archiveClock, spent, overtaken>>

NoClobber ==
  /\ AtStep("archiver", "noClobber")
  /\ job' = [job EXCEPT !["archiver"] =
       IF \E f \in @.files : InArchive(f) THEN Rest ELSE [@ EXCEPT !.at = "journal"]]
  /\ UNCHANGED <<archiveFiles, rows, journal, archiveClock, spent, overtaken>>

(* The write-ahead block of rows, also of a restore. *)
WriteRows(w, action, next) ==
  /\ AtStep(w, "journal") /\ GoTo(w, next)
  /\ rows' = [f \in ArchiveFiles |-> IF f \in job[w].files THEN action ELSE rows[f]]
JournalRun ==
  /\ WriteRows("archiver", "archive", "move")
  /\ UNCHANGED <<archiveFiles, journal, archiveClock, spent, overtaken>>

MoveOut(f) ==
  /\ AtStep("archiver", "move") /\ IsNext("archiver", f)
  /\ DoneWith("archiver", f, "move")
  /\ IF hot[f] = NoContent THEN UNCHANGED <<hot, plain, overtaken>>
     ELSE MoveFile(hot, plain, f) /\ Clobbers(hot, plain, f)
  /\ UNCHANGED <<zst, aside, rows, journal, archiveClock, spent>>
MoveOutFails(f) ==
  /\ AtStep("archiver", "move") /\ IsNext("archiver", f) /\ Spend("errors", MaxErrors)
  /\ DoneWith("archiver", f, "move")
  /\ overtaken' = overtaken \cup {"skipped"}
  /\ UNCHANGED <<archiveFiles, rows, journal, archiveClock>>

(***************************************************************************)
(* A restore.                                                               *)
(***************************************************************************)
PlanRestore ==
  LET files == {f \in ArchiveFiles : InArchive(f)}
      staged == "log" \in files /\ plain["log"] = NoContent
  IN  /\ files # {} /\ \A f \in files : hot[f] = NoContent
      /\ AtStep("restorer", "idle") /\ Spend("jobs", MaxJobs)
      /\ job' = [job EXCEPT !["restorer"] =
           [at |-> "journal", files |-> files, again |-> FALSE,
            held |-> IF staged THEN zst ELSE NoContent]]
      /\ UNCHANGED <<archiveFiles, rows, journal, archiveClock, overtaken>>

JournalRestore ==
  /\ WriteRows("restorer", "restore", "resolve") /\ graced' = TRUE
  /\ UNCHANGED <<archiveFiles, journal, editor, touched, spoken, spent, overtaken>>

(* The file is looked up again when it is placed: the plain form wins, the  *)
(* compressed one is decompressed unless that was done before.              *)
FindCopy(f) ==
  /\ AtStep("restorer", "resolve") /\ IsNext("restorer", f)
  /\ IF ~InArchive(f)
     THEN DoneWith("restorer", f, "resolve")
     ELSE job' = [job EXCEPT !["restorer"] =
            IF plain[f] # NoContent THEN [@ EXCEPT !.at = "rename"]
            ELSE [@ EXCEPT !.at = "link",
                           !.held = IF job["restorer"].held = NoContent THEN zst
                                    ELSE job["restorer"].held]]
  /\ UNCHANGED <<archiveFiles, rows, journal, archiveClock, spent, overtaken>>

(* ENOENT: looked up once more, with nothing staged. *)
ResolveAgain(f) ==
  IF job["restorer"].again THEN DoneWith("restorer", f, "resolve")
  ELSE job' = [job EXCEPT !["restorer"].at = "resolve", !["restorer"].again = TRUE,
                          !["restorer"].held = NoContent]

PlaceByRename(f) ==
  /\ AtStep("restorer", "rename") /\ IsNext("restorer", f)
  /\ IF plain[f] = NoContent
     THEN ResolveAgain(f) /\ UNCHANGED <<hot, plain, overtaken>>
     ELSE /\ MoveFile(plain, hot, f) /\ Clobbers(plain, hot, f)
          /\ IF f = "log" THEN GoTo("restorer", "settle") ELSE DoneWith("restorer", f, "resolve")
  /\ UNCHANGED <<zst, aside, rows, journal, archiveClock, spent>>

(* Of two forms the plain one has won: an identical compressed one goes, a  *)
(* different one is put aside.  Reading it, comparing it with what has been *)
(* placed and taking it away are three calls.                               *)
ReadLeftover ==
  /\ AtStep("restorer", "settle")
  /\ IF zst = NoContent THEN DoneWith("restorer", "log", "resolve")
     ELSE job' = [job EXCEPT !["restorer"].at = "verdict", !["restorer"].held = zst]
  /\ UNCHANGED <<archiveFiles, rows, journal, archiveClock, spent, overtaken>>
LeftoverVerdict ==
  /\ AtStep("restorer", "verdict")
  /\ IF hot["log"] = NoContent THEN ResolveAgain("log")
     ELSE GoTo("restorer", IF hot["log"] = job["restorer"].held THEN "dropZst" ELSE "setAside")
  /\ UNCHANGED <<archiveFiles, rows, journal, archiveClock, spent, overtaken>>
TakeLeftover(step) ==
  /\ AtStep("restorer", step) /\ zst' = NoContent
  /\ IF zst = NoContent THEN ResolveAgain("log") ELSE DoneWith("restorer", "log", "resolve")
  /\ UNCHANGED <<hot, plain, rows, journal, archiveClock, spent, overtaken>>
DropLeftover == TakeLeftover("dropZst") /\ UNCHANGED aside
PutLeftoverAside == TakeLeftover("setAside") /\ aside' = aside \cup zst

PlaceByLink(f) ==
  /\ AtStep("restorer", "link") /\ IsNext("restorer", f)
  /\ IF hot[f] # NoContent
     THEN DoneWith("restorer", f, "resolve") /\ UNCHANGED hot
     ELSE /\ hot' = [hot EXCEPT ![f] = job["restorer"].held]
          /\ GoTo("restorer", "retire")
  /\ UNCHANGED <<plain, zst, aside, rows, journal, archiveClock, spent, overtaken>>
RetireAfterLink ==
  /\ AtStep("restorer", "retire") /\ DoneWith("restorer", "log", "resolve")
  /\ zst' = NoContent
  /\ UNCHANGED <<hot, plain, aside, rows, journal, archiveClock, spent, overtaken>>

PlaceFails(f) ==
  /\ job["restorer"].at \in {"rename", "link"} /\ IsNext("restorer", f)
  /\ Spend("errors", MaxErrors) /\ DoneWith("restorer", f, "resolve")
  /\ overtaken' = overtaken \cup {"skipped"}
  /\ UNCHANGED <<archiveFiles, rows, journal, archiveClock>>

(***************************************************************************)
(* A compression sweep; it has the compression lock.                        *)
(***************************************************************************)
(* Selected: in the archive only, and not what a restore left behind.       *)
StartSweep ==
  LET allowed == /\ \A f \in ArchiveFiles : hot[f] = NoContent
                 /\ rows["log"] # "restore" /\ plain["log"] # NoContent
  IN  /\ Begins("sweeper", "reconcile", IF allowed THEN {"log"} ELSE {})
      /\ allowed \/ journal = "begin"
      /\ UNCHANGED <<archiveFiles, rows, journal, archiveClock, overtaken>>

(* What an interrupted sweep left open is closed first, by what is on disk. *)
Reconcile ==
  /\ AtStep("sweeper", "reconcile")
  /\ IF journal # "begin" THEN UNCHANGED journal /\ GoTo("sweeper", "eligible")
     ELSE IF plain["log"] # NoContent /\ zst # NoContent
     THEN /\ UNCHANGED journal
          /\ job' = [job EXCEPT !["sweeper"].at = "compare", !["sweeper"].again = TRUE]
     ELSE /\ journal' = IF plain["log"] = NoContent /\ zst # NoContent
                        THEN "compressed" ELSE "closed"
          /\ GoTo("sweeper", "eligible")
  /\ UNCHANGED <<archiveFiles, rows, archiveClock, spent, overtaken>>

(* Both forms: identical ones lose the plain one, else the compressed one   *)
(* is put aside.  Comparing and removing are two calls.                     *)
CompareForms ==
  /\ AtStep("sweeper", "compare")
  /\ GoTo("sweeper", IF plain["log"] = NoContent \/ zst = NoContent THEN "vanished"
                     ELSE IF plain["log"] = zst THEN "dropPlain" ELSE "quarantine")
  /\ UNCHANGED <<archiveFiles, rows, journal, archiveClock, spent, overtaken>>
(* A form has moved meanwhile: only a reconciliation writes a row of that,  *)
(* which is what `again' says of a sweeper.                                  *)
FormVanished ==
  /\ AtStep("sweeper", "vanished")
  /\ job' = [job EXCEPT !["sweeper"] = Rest]
  /\ journal' = IF job["sweeper"].again THEN "closed" ELSE journal
  /\ UNCHANGED <<archiveFiles, rows, archiveClock, spent, overtaken>>
DropPlain ==
  /\ AtStep("sweeper", "dropPlain")
  /\ plain' = [plain EXCEPT !["log"] = NoContent]
  /\ journal' = "compressed" /\ job' = [job EXCEPT !["sweeper"] = Rest]
  /\ UNCHANGED <<hot, zst, aside, rows, archiveClock, spent, overtaken>>
Quarantine ==
  /\ AtStep("sweeper", "quarantine")
  /\ aside' = aside \cup zst /\ zst' = NoContent
  /\ journal' = "closed" /\ job' = [job EXCEPT !["sweeper"] = Rest]
  /\ UNCHANGED <<hot, plain, rows, archiveClock, spent, overtaken>>

(* Still in the archive only; then the plain file is read whole. *)
ReadPlain ==
  /\ AtStep("sweeper", "eligible")
  /\ job' = [job EXCEPT !["sweeper"] =
       IF @.files = {} \/ (\E f \in ArchiveFiles : hot[f] # NoContent)
          \/ plain["log"] = NoContent THEN Rest
       ELSE IF zst # NoContent THEN [@ EXCEPT !.at = "compare"]
       ELSE [@ EXCEPT !.at = "begin", !.held = plain["log"]]]
  /\ UNCHANGED <<archiveFiles, rows, journal, archiveClock, spent, overtaken>>
JournalBegin ==
  /\ AtStep("sweeper", "begin") /\ GoTo("sweeper", "commit") /\ journal' = "begin"
  /\ UNCHANGED <<archiveFiles, rows, archiveClock, spent, overtaken>>
CommitZst ==
  /\ AtStep("sweeper", "commit")
  /\ IF zst # NoContent THEN GoTo("sweeper", "compare") /\ UNCHANGED zst
     ELSE GoTo("sweeper", "recheck") /\ zst' = job["sweeper"].held
  /\ UNCHANGED <<hot, plain, aside, rows, journal, archiveClock, spent, overtaken>>
(* The plain file is removed only if it is still the one that was read. *)
RecheckPlain ==
  /\ AtStep("sweeper", "recheck")
  /\ GoTo("sweeper", IF plain["log"] = job["sweeper"].held THEN "unlinkPlain" ELSE "dropOurs")
  /\ UNCHANGED <<archiveFiles, rows, journal, archiveClock, spent, overtaken>>
UnlinkPlain ==
  /\ AtStep("sweeper", "unlinkPlain")
  /\ plain' = [plain EXCEPT !["log"] = NoContent]
  /\ GoTo("sweeper", IF plain["log"] = NoContent THEN "dropOurs" ELSE "credit")
  /\ UNCHANGED <<hot, zst, aside, rows, journal, archiveClock, spent, overtaken>>
DropOurs ==
  /\ AtStep("sweeper", "dropOurs")
  /\ zst' = NoContent /\ journal' = "closed" /\ job' = [job EXCEPT !["sweeper"] = Rest]
  /\ UNCHANGED <<hot, plain, aside, rows, archiveClock, spent, overtaken>>
CreditCompressed ==
  /\ AtStep("sweeper", "credit")
  /\ journal' = "compressed" /\ job' = [job EXCEPT !["sweeper"] = Rest]
  /\ UNCHANGED <<archiveFiles, rows, archiveClock, spent, overtaken>>

(* A decompression sweep, under the same lock, of whatever is compressed.   *)
StartDecompress ==
  /\ zst # NoContent
  /\ Begins("sweeper", IF plain["log"] # NoContent THEN "compare" ELSE "stage", {"log"})
  /\ UNCHANGED <<archiveFiles, rows, journal, archiveClock, overtaken>>
StageZst ==
  /\ AtStep("sweeper", "stage")
  /\ job' = [job EXCEPT !["sweeper"] =
       IF zst = NoContent THEN Rest ELSE [@ EXCEPT !.at = "commitPlain", !.held = zst]]
  /\ UNCHANGED <<archiveFiles, rows, journal, archiveClock, spent, overtaken>>
CommitPlain ==
  /\ AtStep("sweeper", "commitPlain")
  /\ IF plain["log"] # NoContent
     THEN job' = [job EXCEPT !["sweeper"] = Rest] /\ UNCHANGED plain
     ELSE plain' = [plain EXCEPT !["log"] = job["sweeper"].held] /\ GoTo("sweeper", "retireZst")
  /\ UNCHANGED <<hot, zst, aside, rows, journal, archiveClock, spent, overtaken>>
RetireZst ==
  /\ AtStep("sweeper", "retireZst")
  /\ zst' = NoContent /\ journal' = "closed" /\ job' = [job EXCEPT !["sweeper"] = Rest]
  /\ UNCHANGED <<hot, plain, aside, rows, archiveClock, spent, overtaken>>

(***************************************************************************)
(* A repair: each file goes to the side its last row names.                 *)
(***************************************************************************)
FoldManifest ==
  /\ \E f \in ArchiveFiles : rows[f] # "none"
  /\ Begins("repairer", "locate", {f \in ArchiveFiles : rows[f] # "none"})
  /\ fold' = rows
  /\ alone' = (editor = "out" /\ \A w \in ArchiveWorkers : AtStep(w, "idle"))
  /\ overtaken' = overtaken \ {"beside"}
  /\ UNCHANGED <<archiveFiles, rows, journal, archiveClock>>

(* Where a file is: the archive is asked first, in either form. *)
Found(f) == IF InArchive(f) THEN "archive" ELSE IF hot[f] # NoContent THEN "restore" ELSE "neither"
(* Files in the order of the rows, which is that of their names: the record *)
(* comes before or after a transcript file.                                 *)
Located(f) == f \in job["repairer"].files /\ job["repairer"].again = (f = "record")
Locate(f) ==
  /\ AtStep("repairer", "locate") /\ f \in job["repairer"].files
  /\ IF Found(f) \in {fold[f], "neither"} THEN DoneWith("repairer", f, "locate")
     ELSE job' = [job EXCEPT !["repairer"].again = (f = "record"),
                    !["repairer"].at = IF fold[f] = "archive" THEN "toArchive"
                                       ELSE IF plain[f] # NoContent THEN "toHot" ELSE "fromZst"]
  /\ UNCHANGED <<archiveFiles, rows, journal, archiveClock, spent, overtaken>>

(* A repair that moves a file after something else has moved crosses it.    *)
Crossed == IF alone THEN {} ELSE {"crossed"}
(* One that moves the record while the transcript is still to be moved parts *)
(* them, until the transcript is moved to where both rows say.              *)
Parts(f) == f = "record" /\ "log" \in job["repairer"].files /\ Found("log") # fold["log"]
Joins(f) == f = "log" /\ "record" \notin job["repairer"].files /\ fold["log"] = fold["record"]
Passes(f) == (overtaken \ IF Joins(f) THEN {"parted"} ELSE {})
               \cup Crossed \cup IF Parts(f) THEN {"parted"} ELSE {}
Overtakes(from, to, f) ==
  overtaken' = Passes(f)
    \cup (IF to[f] \ from[f] # {} THEN {"clobbered"} ELSE {})
    \cup (IF AtStep("repairer", "toHot") /\ f = "log" /\ zst # NoContent THEN {"beside"} ELSE {})

RepairRename(f) ==
  /\ job["repairer"].at \in {"toArchive", "toHot"} /\ Located(f)
  /\ DoneWith("repairer", f, "locate")
  /\ CASE AtStep("repairer", "toArchive") /\ hot[f] # NoContent ->
            MoveFile(hot, plain, f) /\ Overtakes(hot, plain, f)
       [] AtStep("repairer", "toHot") /\ plain[f] # NoContent ->
            MoveFile(plain, hot, f) /\ Overtakes(plain, hot, f)
       [] OTHER -> UNCHANGED <<hot, plain, overtaken>>
  /\ UNCHANGED <<zst, aside, rows, journal, archiveClock, spent>>

(* Mutated form: a file that is already hot is left as it is. *)
RepairFromZstSkipsPresent ==
  /\ AtStep("repairer", "fromZst")
  /\ IF zst = NoContent \/ hot["log"] # NoContent
     THEN DoneWith("repairer", "log", "locate")
     ELSE job' = [job EXCEPT !["repairer"].held = zst, !["repairer"].at = "link"]
  /\ UNCHANGED <<archiveFiles, rows, journal, archiveClock, spent, overtaken>>

(* Compressed: a hot file that is identical finishes a restore cut off      *)
(* after its link, a different one is left alone, a missing one is linked.  *)
RepairFromZst ==
  /\ AtStep("repairer", "fromZst")
  /\ IF zst = NoContent \/ (hot["log"] # NoContent /\ hot["log"] # zst)
     THEN DoneWith("repairer", "log", "locate")
     ELSE job' = [job EXCEPT !["repairer"].held = zst,
                    !["repairer"].at = IF hot["log"] = zst THEN "retire" ELSE "link"]
  /\ UNCHANGED <<archiveFiles, rows, journal, archiveClock, spent, overtaken>>
RepairLink ==
  /\ AtStep("repairer", "link")
  /\ IF hot["log"] # NoContent
     THEN DoneWith("repairer", "log", "locate") /\ UNCHANGED <<hot, overtaken>>
     ELSE /\ hot' = [hot EXCEPT !["log"] = job["repairer"].held] /\ GoTo("repairer", "retire")
          /\ overtaken' = Passes("log")
  /\ UNCHANGED <<plain, zst, aside, rows, journal, archiveClock, spent>>
RepairRetire ==
  /\ AtStep("repairer", "retire") /\ DoneWith("repairer", "log", "locate")
  /\ zst' = NoContent /\ overtaken' = overtaken \cup Crossed
  /\ UNCHANGED <<hot, plain, aside, rows, journal, archiveClock, spent>>

(* A worker is killed between two calls; what it remembers is gone. *)
Killed(w) ==
  /\ ~AtStep(w, "idle") /\ Spend("crashes", MaxKills)
  /\ job' = [job EXCEPT ![w] = Rest]
  /\ UNCHANGED <<archiveFiles, rows, journal, archiveClock, overtaken>>

RepairStep ==
  \/ \E f \in ArchiveFiles : Locate(f) \/ RepairRename(f)
  \/ RepairFromZst \/ RepairLink \/ RepairRetire
EditorStep == OwnerOpens \/ OwnerAppends \/ OwnerSaves \/ EditorEnds
RunStep ==
  \/ PlanRun \/ Revalidate \/ NoClobber \/ JournalRun
  \/ \E f \in ArchiveFiles : MoveOut(f) \/ MoveOutFails(f)
RestoreStep ==
  \/ PlanRestore \/ JournalRestore \/ RetireAfterLink
  \/ ReadLeftover \/ LeftoverVerdict \/ DropLeftover \/ PutLeftoverAside
  \/ \E f \in ArchiveFiles : FindCopy(f) \/ PlaceByRename(f) \/ PlaceByLink(f) \/ PlaceFails(f)
SweepStep ==
  \/ StartSweep \/ Reconcile \/ CompareForms \/ FormVanished \/ DropPlain \/ Quarantine
  \/ ReadPlain \/ JournalBegin \/ CommitZst \/ RecheckPlain \/ UnlinkPlain \/ DropOurs
  \/ CreditCompressed \/ StartDecompress \/ StageZst \/ CommitPlain \/ RetireZst

ArchiveNext ==
  \/ FoldManifest
  \/ RepairStep /\ UNCHANGED <<fold, alone>>
  \/ /\ \/ EditorStep \/ RunStep \/ RestoreStep \/ SweepStep \/ ArchiveTimePasses
        \/ \E w \in ArchiveWorkers : Killed(w)
     /\ alone' = FALSE /\ UNCHANGED fold

ArchiveSpec == ArchiveInit /\ [][ArchiveNext]_archiveVars

(***************************************************************************)
(* Properties                                                               *)
(***************************************************************************)
\* At every moment, whoever is killed, each line ever spoken is in one of the
\* transcript's copies (hot, archived, compressed, quarantined), and only one
\* directory holds the record.  Three exceptions are named: a rename that has
\* overwritten a file with lines of its own, a session that an owner had opened
\* and wrote while its files were being moved, and a repair that moved a file
\* after something else had moved (its renames go by rows it has read before, and
\* take a file from between two calls of a restore or a sweep).  When everybody
\* has stopped or been killed, a session that is visible without its transcript is
\* one the manifest's rows let a repair put together again; except after one of
\* those three, after a failed rename that was passed over, and after a repair that
\* moved the record while its transcript was still to be moved (it goes by the
\* names of the files, and not companions first) until a repair has moved the
\* transcript to the record's side: cut off between the two, a restore finds
\* the record alone.  And a transcript that
\* exists only in compressed form has its row in the compression journal, or a
\* `begin' that the next sweep closes with one.
OneWholeCopy ==
  /\ \/ {"clobbered", "crossed"} \cap overtaken # {}
     \/ 1..spoken \subseteq hot["log"] \cup plain["log"] \cup zst \cup aside
  /\ "late" \in overtaken \/ hot["record"] = NoContent \/ plain["record"] = NoContent
  /\ ( /\ hot["record"] # NoContent /\ hot["log"] = NoContent
       /\ \A w \in ArchiveWorkers : AtStep(w, "idle") )
     => overtaken \ {"beside"} # {} \/ \E f \in ArchiveFiles : rows[f] # "none" /\ Found(f) # rows[f]
  /\ zst # NoContent /\ plain["log"] = NoContent /\ hot["log"] = NoContent
       => journal \in {"begin", "compressed"}

\* "No-clobber, both directions" (move.ts): no rename ever replaces a file that
\* holds lines its source does not have, of a session no owner wrote meanwhile.
NothingClobbered == "clobbered" \in overtaken => "late" \in overtaken

\* A repair that nobody disturbs leaves every file on the side of its last row
\* and nowhere else, whatever crash came before it.  Two compressed forms may
\* stay: one that differs from the hot file, which is the conflict it reports and
\* leaves, and one that lay beside the plain form it has just moved, which the
\* next repair finds there and takes away if it is identical.
RepairFoldsBack ==
  [][( /\ alone /\ alone' /\ overtaken \subseteq {"beside", "parted"}
       /\ ~AtStep("repairer", "idle") /\ job'["repairer"] = Rest ) =>
       \A f \in ArchiveFiles :
         /\ fold[f] = "archive" => hot'[f] = NoContent
         /\ fold[f] = "restore" =>
              \/ ~InArchive(f)'
              \/ /\ f = "log" /\ plain'[f] = NoContent /\ hot'[f] # NoContent
                 /\ hot'[f] # zst' \/ "beside" \in overtaken']_archiveVars

\* The files of a session through archive runs, restores, sweeps and crashes: a
\* whole copy of the transcript always, and, once a repair has run undisturbed,
\* every file where its last row says.
ArchiveKeepsFiles == []OneWholeCopy /\ RepairFoldsBack
=============================================================================
