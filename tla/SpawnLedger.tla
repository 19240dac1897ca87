---- MODULE SpawnLedger ----
(***************************************************************************)
(* The ledger of automatic spawns (src/src/spawn-ledger.ts) and the guard   *)
(* it puts on a spawned session's record.  One run is tried by attempts,    *)
(* each with a fence, a record of its own to write and a child process; a   *)
(* higher fence revokes the attempts below it, whose children may still be  *)
(* running with an image of their record in memory.  One attempt is         *)
(* adopted: its record is the run's session, and gets the first prompt.     *)
(*                                                                         *)
(* Every operation runs under BEGIN IMMEDIATE and is one step, but the      *)
(* record is renamed into place before the COMMIT: a crash between leaves   *)
(* the record ahead of the ledger.  UNIQUE(target_record_id) gives each     *)
(* attempt one record, named here by its fence; runs are independent.       *)
(* The service that reserves, launches and settles attempts is outside the  *)
(* repository: it may call any operation at any time.                       *)
(***************************************************************************)
EXTENDS Naturals

CONSTANTS
    MaxFence,    \* fences the service has handed out
    Programs,    \* children and other programs that hold an image of a record
    ChildOf,     \* the program an attempt is launched as
    AcpIds,      \* ACP session ids a record can be bound to
    FirstAcp,    \* the one its child opens
    NoOne,       \* no process, no record, no image
    MaxTorn      \* crashes between a rename and its COMMIT

Fences == 1..MaxFence
Records == [acp : AcpIds, mark : {"pending", "published", "orphaned"}]
Images == [fence : Fences, acp : AcpIds]

ASSUME SpawnAssumption ==
    /\ MaxFence \in Nat \ {0} /\ MaxTorn \in Nat
    /\ FirstAcp \in AcpIds /\ ChildOf \in [Fences -> Programs]
    /\ NoOne \notin Programs \cup Records \cup Images

SpawnStates == {"none", "reserved", "launched", "published", "adopted", "revoked", "cancelled",
                "orphaned"}

VARIABLES
    attempt,     \* spawn_attempt.state of each fence
    adoptedFence,\* spawn_run.adopted_fence (0: none)
    conflict,    \* spawn_run.receipt_conflict is set
    known,       \* fences whose child's identity is recorded
    recordOf,    \* the record of each attempt on disk: its ACP id and spawn_state
    image,       \* the record a process has in memory: of which attempt, with which ACP id
    gone,        \* processes that ended
    lease,       \* who holds the queue lease of each record
    torn         \* crashes so far

ledgerVars == <<attempt, adoptedFence, conflict, known>>
processVars == <<image, gone, lease>>
spawnVars == <<ledgerVars, processVars, recordOf, torn>>

SpawnTypeOK ==
    /\ attempt \in [Fences -> SpawnStates]
    /\ adoptedFence \in 0..MaxFence /\ known \subseteq Fences
    /\ conflict \in BOOLEAN
    /\ lease \in [Fences -> Programs \cup {NoOne}]
    /\ recordOf \in [Fences -> Records \cup {NoOne}] /\ image \in [Programs -> Images \cup {NoOne}]
    /\ gone \subseteq Programs /\ torn \in 0..MaxTorn

SpawnInit ==
    /\ attempt = [f \in Fences |-> "none"] /\ adoptedFence = 0 /\ conflict = FALSE
    /\ known = {} /\ gone = {}
    /\ recordOf = [f \in Fences |-> NoOne] /\ image = [p \in Programs |-> NoOne]
    /\ lease = [f \in Fences |-> NoOne]
    /\ torn = 0

(* ---- The service --------------------------------------------------------*)

(* Mutated form: an attempt that has published its record is left to itself. *)
RevokedBelowUnpublished(f) ==
    [g \in Fences |->
        IF g = f THEN "reserved"
        ELSE IF g < f /\ attempt[g] \in {"reserved", "launched"} THEN "revoked" ELSE attempt[g]]

\* The attempts after f is reserved.
RevokedBelow(f) ==
    [g \in Fences |->
        IF g = f THEN "reserved"
        ELSE IF g < f /\ attempt[g] \in {"reserved", "launched", "published"} THEN "revoked"
        ELSE attempt[g]]

\* reserveSpawn: refused to a run that is adopted and to a fence below one already used; asked
\* again for the same attempt it answers that.
ReserveSpawn(f) ==
    /\ adoptedFence = 0
    /\ \A g \in Fences : g >= f => attempt[g] = "none"
    /\ attempt' = RevokedBelow(f)
    /\ UNCHANGED <<adoptedFence, conflict, known, processVars, recordOf, torn>>

\* The service starts the child of an attempt it has reserved, which opens an ACP session.
StartChild(f) ==
    /\ attempt[f] # "none"
    /\ image[ChildOf[f]] = NoOne /\ ChildOf[f] \notin gone
    /\ image' = [image EXCEPT ![ChildOf[f]] = [fence |-> f, acp |-> FirstAcp]]
    /\ UNCHANGED <<ledgerVars, gone, lease, recordOf, torn>>

\* Its child was started.
ChildStarted(f) == image[ChildOf[f]] # NoOne \/ ChildOf[f] \in gone

\* recordSpawnChild: the child must start from reserved.
RecordSpawnChild(f) ==
    /\ attempt[f] = "reserved" /\ ChildStarted(f)
    /\ attempt' = [attempt EXCEPT ![f] = "launched"] /\ known' = known \cup {f}
    /\ UNCHANGED <<adoptedFence, conflict, processVars, recordOf, torn>>

\* spawnChildLiveness answers "gone" of a child whose identity was recorded.
ChildGone(f) == f \in known /\ ChildOf[f] \in gone

\* The edges of SPAWN_TRANSITIONS, with the evidence the service can have.
Allowed(f, next) ==
    LET owned == recordOf[f] # NoOne
        unadopted == adoptedFence = 0
        edge == <<attempt[f], next>>
    IN \/ edge = <<"reserved", "launched">> /\ ChildStarted(f)
       \/ edge \in {<<"reserved", "revoked">>, <<"reserved", "cancelled">>, <<"launched", "revoked">>}
       \/ edge = <<"published", "revoked">> /\ \E g \in Fences : g > f /\ attempt[g] # "none"
       \/ edge = <<"revoked", "cancelled">> /\ ChildGone(f)
       \/ edge = <<"revoked", "orphaned">> /\ owned /\ ~unadopted
       \/ /\ edge \in {<<"launched", "published">>, <<"published", "adopted">>,
                       <<"revoked", "adopted">>}
          /\ owned /\ unadopted

\* The records with another spawn_state in that of f.
WithMark(f, mark) == [recordOf EXCEPT ![f] = [acp |-> recordOf[f].acp, mark |-> mark]]

\* The records after a transition: its own tells whether its session was published or orphaned.
Remarked(f, next) ==
    IF recordOf[f] # NoOne /\ next \in {"published", "adopted", "orphaned"}
    THEN WithMark(f, IF next = "orphaned" THEN "orphaned" ELSE "published")
    ELSE recordOf

\* transitionSpawn.
TransitionSpawn(f, next) ==
    /\ Allowed(f, next)
    /\ recordOf' = Remarked(f, next)
    /\ attempt' = [attempt EXCEPT ![f] = next]
    /\ adoptedFence' = IF next = "adopted" THEN f ELSE adoptedFence
    /\ UNCHANGED <<conflict, known, processVars, torn>>

\* confirmSpawnReceipt: the run was spawned elsewhere, as another session.  A receipt that
\* agrees, or tells of no session, leaves the record and the conflict alone.
ReceiptConflict ==
    /\ adoptedFence # 0
    /\ recordOf' = WithMark(adoptedFence, "orphaned")
    /\ conflict' = TRUE
    /\ UNCHANGED <<attempt, adoptedFence, known, processVars, torn>>

\* The process dies between the rename of the record and the COMMIT.
TornCommit ==
    /\ torn < MaxTorn /\ torn' = torn + 1
    /\ \/ \E f \in Fences, next \in SpawnStates :
            Allowed(f, next) /\ recordOf' = Remarked(f, next)
       \/ /\ adoptedFence # 0
          /\ recordOf' = WithMark(adoptedFence, "orphaned")
    /\ recordOf' # recordOf
    /\ UNCHANGED <<ledgerVars, processVars>>

(* ---- The record's writers -----------------------------------------------*)

\* A program reads a record, or reads it again.
LoadRecord(p, f) ==
    /\ recordOf[f] # NoOne /\ p \notin gone
    /\ \A g \in Fences \ {f} : p # ChildOf[g]
    /\ image[p] # NoOne => image[p].fence = f
    /\ image' = [image EXCEPT ![p] = [fence |-> f, acp |-> recordOf[f].acp]]
    /\ UNCHANGED <<ledgerVars, gone, lease, recordOf, torn>>

\* A session/resume misses and session/new gives the image another ACP id.
NewAcpSession(p, a) ==
    /\ image[p] # NoOne /\ recordOf[image[p].fence] # NoOne
    /\ image' = [image EXCEPT ![p].acp = a]
    /\ UNCHANGED <<ledgerVars, gone, lease, recordOf, torn>>

\* The process becomes the queue owner of its session.
TakeLease(p) ==
    /\ image[p] # NoOne /\ lease[image[p].fence] = NoOne
    /\ lease' = [lease EXCEPT ![image[p].fence] = p]
    /\ UNCHANGED <<ledgerVars, image, gone, recordOf, torn>>

\* A process ends; its lease is reaped.
ProcessEnds(p) ==
    /\ image[p] # NoOne
    /\ image' = [image EXCEPT ![p] = NoOne] /\ gone' = gone \cup {p}
    /\ lease' = [f \in Fences |-> IF lease[f] = p THEN NoOne ELSE lease[f]]
    /\ UNCHANGED <<ledgerVars, recordOf, torn>>

\* ownerMayRebind: the run's adopted attempt, and the process that holds the queue lease.
OwnerMayRebind(p, f) ==
    /\ attempt[f] = "adopted" /\ adoptedFence = f
    /\ lease[f] = p

\* assertSpawnOwnership: what saveRecord and writeOwnedRecord refuse.
MayWrite(p, f) ==
    /\ (recordOf[f] # NoOne /\ recordOf[f].acp # image[p].acp) => OwnerMayRebind(p, f)
    /\ attempt[f] \in {"launched", "published", "adopted"}

\* saveRecord: the writer's image, with the spawn_state of the record on disk.
SaveRecord(p) ==
    /\ image[p] # NoOne
    /\ LET f == image[p].fence
       IN /\ MayWrite(p, f)
          /\ recordOf' = [recordOf EXCEPT ![f] =
                [acp |-> image[p].acp,
                 mark |-> IF recordOf[f] = NoOne THEN "pending" ELSE recordOf[f].mark]]
    /\ UNCHANGED <<ledgerVars, processVars, torn>>

SpawnNext ==
    \/ \E f \in Fences :
         \/ ReserveSpawn(f) \/ RecordSpawnChild(f)
         \/ StartChild(f) \/ \E p \in Programs : LoadRecord(p, f)
         \/ \E next \in SpawnStates : TransitionSpawn(f, next)
    \/ ReceiptConflict \/ TornCommit
    \/ \E p \in Programs :
         \/ TakeLease(p) \/ ProcessEnds(p) \/ SaveRecord(p)
         \/ \E a \in AcpIds : NewAcpSession(p, a)

SpawnSpec == SpawnInit /\ [][SpawnNext]_spawnVars

(* ---- Properties ---------------------------------------------------------*)

Writable(f) == attempt[f] \in {"launched", "published", "adopted"}

\* Of two attempts whose children may both write, the lower is the one the run adopted: an
\* attempt revoked after it published can still be adopted, and the fence reserved over it may
\* have launched a child already, or launch one later.
OneSpawnWrites ==
    \A f, g \in Fences : f < g /\ Writable(f) /\ Writable(g) => adoptedFence = f

\* The run's session is the one record of an adopted attempt, orphaned only by a receipt.
RunKept ==
    adoptedFence # 0 =>
        /\ \A f \in Fences : attempt[f] = "adopted" <=> f = adoptedFence
        /\ recordOf[adoptedFence] # NoOne
        /\ recordOf[adoptedFence].mark # "pending"
        /\ recordOf[adoptedFence].mark = "orphaned" => (conflict \/ torn > 0)

\* A record once orphaned stays so, whichever image is saved over it, and a record gets another
\* ACP session only from the owner of the adopted attempt's session.
RecordFenced ==
    [][\A f \in Fences : recordOf[f] # NoOne =>
          /\ recordOf'[f] # NoOne
          /\ recordOf[f].mark = "orphaned" => recordOf'[f].mark = "orphaned"
          /\ recordOf'[f].acp # recordOf[f].acp =>
                /\ adoptedFence = f /\ lease[f] # NoOne
                /\ image[lease[f]] = [fence |-> f, acp |-> recordOf'[f].acp]]_spawnVars

\* An automatic spawn comes to one session, whatever the order of reservations, launches, late
\* children, stale copies, receipts and crashes: its attempts are fenced off from each other,
\* the run's session is the one it adopted, and a record is written for its attempt alone.
SpawnsFenced == [][OneSpawnWrites' /\ RunKept']_spawnVars /\ RecordFenced
====
