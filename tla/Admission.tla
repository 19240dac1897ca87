---- MODULE Admission ----
(***************************************************************************)
(* The create gate of a box (src/src/capacity, used by `sessions new` and   *)
(* `sessions copy` in src/src/cli/command-handlers.ts).  A gated create     *)
(* takes the admission lock, reads the ledger of reservations, the census   *)
(* of live owners and the queue of waiting automation, and is admitted iff  *)
(* one more session fits.  An admitted create leaves a reservation in the   *)
(* ledger, binds it to its record once that exists, and releases it when    *)
(* the creation fails.  The session itself starts later, when somebody      *)
(* prompts it: between the two the ledger is all that says the memory is    *)
(* taken.  Everything under the lock is one step (IdentityFileLock is the   *)
(* lock); memory is counted in units.                                       *)
(***************************************************************************)
EXTENDS Integers, FiniteSets, FiniteSetsExt

CONSTANTS
    Creates,     \* the create commands, each making at most one session at a time
    Automation,  \* those of class `automation`; the others are an agent's (`spawn`)
    Named,       \* those with --record-id: their entry has its session's id from admission on
    Room,        \* B - M - Q - b: what the sessions of the box may be charged
    LimitRoom,   \* L - M_oom - b: what the second guard leaves for them
    ReserveNew,  \* r_new, the reservation of a newcomer
    LiveFloor,   \* r_live, the least a live owner is charged
    MaxLost,     \* ledger updates that fail: the lock stays busy, or an I/O fault
    MaxKilled,  \* create commands killed
    MaxExpired   \* reservations that reach the end of their TTL

ASSUME AdmissionAssumption ==
    /\ IsFiniteSet(Creates) /\ Automation \subseteq Creates /\ Named \subseteq Creates
    /\ {Room, LimitRoom, MaxLost, MaxKilled, MaxExpired} \subseteq Nat
    /\ ReserveNew \in Nat \ {0}
    /\ LiveFloor \in 0..ReserveNew

VARIABLES
    create,    \* create -> where the command is
    entry,     \* create -> its entry in pending.json
    ttlOver,   \* creates whose entry is past its expiresAt
    session,   \* create -> its session: no record, a record, a live owner, over
    measured,  \* create -> what its owner's process tree measures
    spent,     \* creates whose record shows a turn since the bind, or is closed
    mishaps    \* what befell a reservation: [lost, crashed, expired] counts

admissionVars == <<create, entry, ttlOver, session, measured, spent, mishaps>>

WaitingCreates == {c \in Creates : create[c] = "queued"}

CreateStages == {"idle", "queued", "admitted", "created", "failed", "gone"}

AdmissionTypeOK ==
    /\ create \in [Creates -> CreateStages]
    /\ entry \in [Creates -> {"none", "unbound", "bound"}]
    /\ ttlOver \subseteq Creates /\ spent \subseteq Creates
    /\ session \in [Creates -> {"none", "record", "live", "over"}]
    /\ measured \in [Creates -> 0..ReserveNew]
    /\ WaitingCreates \subseteq Automation
    /\ mishaps \in [lost : 0..MaxLost, crashed : 0..MaxKilled, expired : 0..MaxExpired]

AdmissionInit ==
    /\ create = [c \in Creates |-> "idle"]
    /\ entry = [c \in Creates |-> "none"]
    /\ ttlOver = {} /\ spent = {}
    /\ session = [c \in Creates |-> "none"]
    /\ measured = [c \in Creates |-> 0]
    /\ mishaps = [lost |-> 0, crashed |-> 0, expired |-> 0]

(* ---- The reading --------------------------------------------------------*)

AdmitterAlive(c) == create[c] \in {"admitted", "created", "failed"}

Live == {c \in Creates : session[c] = "live"}

\* The live owners that the census matches with an entry, by the session id the entry carries.
Matched == {c \in Live : entry[c] = "bound" \/ (entry[c] = "unbound" /\ c \in Named)}

(* Mutated form: a reservation counts only while its command lives, bound or not *)
KeptEntriesUnbound ==
    {c \in Creates : /\ entry[c] # "none" /\ c \notin ttlOver
                     /\ c \in Matched \/ AdmitterAlive(c)}

\* liveEntries, then the rule of partitionPending: an entry counts with the live owner of its
\* session, while its admitter lives, or while it is bound to a session still to run.
KeptEntries ==
    {c \in Creates : /\ entry[c] # "none" /\ c \notin ttlOver
                     /\ \/ c \in Matched
                        \/ AdmitterAlive(c)
                        \/ entry[c] = "bound" /\ c \notin spent}

\* The memory the sessions of a set take, each as many units as it needs and none more than a
\* newcomer's reservation.
Units(need, S) == {u \in S \X (1..ReserveNew) : u[2] <= need[u[1]]}
Memory(need, S) == Cardinality(Units(need, S))

OwnerCharge(c) ==
    Max({LiveFloor, measured[c]} \cup (IF c \in KeptEntries \cap Matched THEN {ReserveNew} ELSE {}))

Pending == ReserveNew * Cardinality(KeptEntries \ Matched)

Charged == Memory([c \in Live |-> OwnerCharge(c)], Live) + Pending

Committed == Memory(measured, Live)

\* computeFormula: the guards G1 and G2.
FreeSlots == Max({0, Min({(Room - Charged) \div ReserveNew,
                          (LimitRoom - Committed - Pending) \div ReserveNew})})

(* Mutated form: an agent's figure is gross, as that of automation is *)
SlotsForGross(c) == FreeSlots

\* netOfWaiting: what waits comes off the figure of an agent, not off that of automation.
SlotsFor(c) ==
    IF c \in Automation THEN FreeSlots ELSE Max({0, FreeSlots - Cardinality(WaitingCreates)})

(* ---- The gate -----------------------------------------------------------*)

(* Mutated form: whoever is refused waits, an agent as well. *)
DecideQueueing(c) ==
    /\ create[c] \in {"idle", "queued"}
    /\ LET admitted == SlotsFor(c) >= 1
       IN  /\ entry' = [d \in Creates |-> IF admitted /\ d = c THEN "unbound"
                                          ELSE IF d \in KeptEntries THEN entry[d] ELSE "none"]
           /\ create' = [create EXCEPT ![c] = IF admitted THEN "admitted" ELSE "queued"]
    /\ ttlOver' = ttlOver \cap {d \in Creates : entry'[d] # "none"}
    /\ UNCHANGED <<session, measured, spent, mishaps>>

\* decideUnderLock: the entries that no longer count are pruned with every decision; a refused
\* automation create waits in the queue its executor publishes, an agent's create ends.
Decide(c) ==
    /\ create[c] \in {"idle", "queued"}
    /\ IF SlotsFor(c) >= 1
       THEN /\ entry' = [d \in Creates |-> IF d = c THEN "unbound"
                                           ELSE IF d \in KeptEntries THEN entry[d] ELSE "none"]
            /\ create' = [create EXCEPT ![c] = "admitted"]
       ELSE /\ entry' = [d \in Creates |-> IF d \in KeptEntries THEN entry[d] ELSE "none"]
            /\ create' = [create EXCEPT ![c] = IF c \in Automation THEN "queued" ELSE "idle"]
    /\ ttlOver' = ttlOver \cap {d \in Creates : entry'[d] # "none"}
    /\ UNCHANGED <<session, measured, spent, mishaps>>

\* createAdmitted: the creation writes the record, or fails.
CreateSession(c) ==
    /\ create[c] = "admitted"
    /\ create' = [create EXCEPT ![c] = "created"]
    /\ session' = [session EXCEPT ![c] = "record"]
    /\ UNCHANGED <<entry, ttlOver, measured, spent, mishaps>>

CreateFails(c) ==
    /\ create[c] = "admitted"
    /\ create' = [create EXCEPT ![c] = "failed"]
    /\ UNCHANGED <<entry, ttlOver, session, measured, spent, mishaps>>

\* ticket.bind restamps the TTL of an entry that is still in the file; the command then exits.
Bind(c) ==
    /\ create[c] = "created"
    /\ create' = [create EXCEPT ![c] = "gone"]
    /\ entry' = [entry EXCEPT ![c] = IF @ = "none" THEN "none" ELSE "bound"]
    /\ ttlOver' = ttlOver \ {c}
    /\ UNCHANGED <<session, measured, spent, mishaps>>

\* ticket.release.
ReleaseEntry(c) ==
    /\ create[c] = "failed"
    /\ create' = [create EXCEPT ![c] = "gone"]
    /\ entry' = [entry EXCEPT ![c] = "none"]
    /\ ttlOver' = ttlOver \ {c}
    /\ UNCHANGED <<session, measured, spent, mishaps>>

\* A bind or a release that cannot take the lock or write the ledger is swallowed.
UpdateLost(c) ==
    /\ mishaps.lost < MaxLost
    /\ create[c] \in {"created", "failed"}
    /\ create' = [create EXCEPT ![c] = "gone"]
    /\ mishaps' = [mishaps EXCEPT !.lost = @ + 1]
    /\ UNCHANGED <<entry, ttlOver, session, measured, spent>>

CreateKilled(c) ==
    /\ mishaps.crashed < MaxKilled
    /\ AdmitterAlive(c)
    /\ create' = [create EXCEPT ![c] = "gone"]
    /\ mishaps' = [mishaps EXCEPT !.crashed = @ + 1]
    /\ UNCHANGED <<entry, ttlOver, session, measured, spent>>

Expire(c) ==
    /\ mishaps.expired < MaxExpired
    /\ entry[c] # "none" /\ c \notin ttlOver
    /\ ttlOver' = ttlOver \cup {c}
    /\ mishaps' = [mishaps EXCEPT !.expired = @ + 1]
    /\ UNCHANGED <<create, entry, session, measured, spent>>

(* ---- The sessions -------------------------------------------------------*)

\* A prompt starts the owner; the turn it starts shows in the record as last_prompt_at.
OwnerStarts(c) ==
    /\ session[c] = "record"
    /\ session' = [session EXCEPT ![c] = "live"]
    /\ spent' = IF entry[c] = "bound" THEN spent \cup {c} ELSE spent
    /\ UNCHANGED <<create, entry, ttlOver, measured, mishaps>>

\* The owner's tree grows to its working size while its reservation stands.
Grow(c) ==
    /\ c \in Live /\ c \in KeptEntries /\ measured[c] < ReserveNew
    /\ measured' = [measured EXCEPT ![c] = @ + 1]
    /\ UNCHANGED <<create, entry, ttlOver, session, spent, mishaps>>

\* The work is done and the session is closed: its owner exits.
SessionEnds(c) ==
    /\ session[c] \in {"record", "live"} /\ create[c] = "gone"
    /\ session' = [session EXCEPT ![c] = "over"]
    /\ measured' = [measured EXCEPT ![c] = 0]
    /\ spent' = spent \cup {c}
    /\ UNCHANGED <<create, entry, ttlOver, mishaps>>

\* The next create of the same caller, once nothing of the last one is left in the ledger.
CreateAgain(c) ==
    /\ create[c] = "gone" /\ session[c] \in {"none", "over"}
    /\ c \notin KeptEntries
    /\ create' = [create EXCEPT ![c] = "idle"]
    /\ session' = [session EXCEPT ![c] = "none"]
    /\ entry' = [entry EXCEPT ![c] = "none"]
    /\ ttlOver' = ttlOver \ {c}
    /\ spent' = spent \ {c}
    /\ UNCHANGED <<measured, mishaps>>

AdmissionNext ==
    \E c \in Creates :
        \/ Decide(c) \/ CreateSession(c) \/ CreateFails(c) \/ Bind(c) \/ ReleaseEntry(c)
        \/ UpdateLost(c) \/ CreateKilled(c) \/ Expire(c)
        \/ OwnerStarts(c) \/ Grow(c) \/ SessionEnds(c) \/ CreateAgain(c)

\* The drainer of the executor retries what waits; a create command runs to its end, a session's
\* work ends, and agents and automation keep coming.
AdmissionFairness ==
    \A c \in Creates :
        /\ WF_admissionVars(c \in Automation /\ Decide(c))
        /\ WF_admissionVars(CreateSession(c) \/ CreateFails(c))
        /\ WF_admissionVars(Bind(c) \/ UpdateLost(c))
        /\ WF_admissionVars(ReleaseEntry(c) \/ UpdateLost(c))
        /\ WF_admissionVars(SessionEnds(c))

AdmissionSpec == AdmissionInit /\ [][AdmissionNext]_admissionVars /\ AdmissionFairness

(* ---- Properties ---------------------------------------------------------*)

\* A session on its way: admitted, and not yet started.
OnItsWay(c) == create[c] \in {"admitted", "created"} \/ session[c] = "record"

\* What the box's sessions take at most: a session that is on its way, or still ramping up, takes
\* a newcomer's reservation.
Need == [c \in Creates |-> IF OnItsWay(c) \/ c \in KeptEntries THEN ReserveNew ELSE measured[c]]
Promised == Memory(Need, {c \in Creates : OnItsWay(c) \/ c \in Live})

\* The memory of the box is not promised twice.  Between its admission and the first measured
\* byte a session exists only as its ledger entry, and every decision puts together the ledger, the
\* records and the census, each written by another process.  A mishap that takes a reservation away
\* (a bind that is lost, a command killed, a TTL that runs out) costs that reservation and no more.
NothingPromisedTwice ==
    Promised <= Room + ReserveNew * (mishaps.lost + mishaps.crashed + mishaps.expired)

\* Owners that run before their create has bound its entry: nothing in the entry says whose it is,
\* and the owner is charged beside the reservation.
ChargedTwice == (Live \cap KeptEntries) \ Matched

\* Queued automation is not starved by agents that keep creating sessions: it leaves the queue,
\* which it does only when it is admitted.  The exception: sessions that are prompted before the
\* command that creates them has bound its entry, again and again, may each time take the slot
\* that the agents have left, at the moment automation asks for it.
AutomationStarts ==
    \A c \in Automation : []<>(create[c] # "queued" \/ ChargedTwice # {})
====
