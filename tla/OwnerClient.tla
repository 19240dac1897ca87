---- MODULE OwnerClient ----
(***************************************************************************)
(* A prompt on its way to a queue owner, seen from the client: sendSession  *)
(* and spawnAndAwaitQueueOwner (src/src/cli/session/queue-owner-runtime.ts) *)
(* over trySubmitToRunningOwner and its recoveries                          *)
(* (src/src/cli/queue/ipc.ts), while owners start, die and exit idle,       *)
(* other clients keep them busy, and `sessions close` (closeSession of      *)
(* src/src/cli/session/session-control.ts) drains and stops one.            *)
(*                                                                         *)
(* QueueOwner and QueueLease model the owner and its lease in detail; here  *)
(* an owner is one generation with a life and at most one place for this    *)
(* prompt.  All generations listen on the one socket path of the session.   *)
(***************************************************************************)
EXTENDS Naturals, SequencesExt

CONSTANTS
    MaxOwners,      \* generations
    MaxSpawns,      \* QUEUE_OWNER_MAX_SPAWN_ATTEMPTS
    MaxSubmits,     \* submit attempts (the startup budget)
    MaxOwnerDeaths  \* crashes of owners

ASSUME ClientAssumption ==
    {MaxOwners, MaxSpawns, MaxSubmits, MaxOwnerDeaths} \subseteq Nat \ {0}

Generations == 1..MaxOwners
NoOwner == 0

VARIABLES
    heldBy,        \* the generation in the session's lease file, or NoOwner
    life,          \* generation -> "none", "starting", "up", "draining", "closed" or "dead"
    busy,          \* the owner that runs the turn of another client, or NoOwner
    place,         \* generation -> where this prompt is at that owner
    sender,        \* [pc, seen, stage, spawned, spawns, submits, waits]
    mail,          \* what the owner wrote on the sender's connection
    answer,        \* what the sender was told
    closer,        \* [pc, seen]: `sessions close`
    recordClosed,  \* the record says closed
    deaths         \* crashes so far

clientVars == <<heldBy, life, busy, place, sender, mail, answer, closer, recordClosed, deaths>>

Places == {"none", "queued", "running", "done", "cut", "drained", "refused"}
Answers == {"none", "queued", "result", "error", "closing", "not accepting", "failed to start"}

ClientTypeOK ==
    /\ heldBy \in {NoOwner} \cup Generations /\ busy \in {NoOwner} \cup Generations
    /\ life \in [Generations -> {"none", "starting", "up", "draining", "closed", "dead"}]
    /\ place \in [Generations -> Places]
    /\ sender \in [pc : {"idle", "read", "connect", "await", "recover", "recheck", "missed", "over"},
                   seen : {NoOwner} \cup Generations, stage : {"first", "spawned"},
                   spawned : {NoOwner} \cup Generations, spawns : 0..MaxSpawns,
                   submits : 0..MaxSubmits, waits : BOOLEAN]
    /\ mail \in Seq({"accepted", "result", "error", "shutting down", "malformed", "ended"})
    /\ answer \in Answers
    /\ closer \in [pc : {"idle", "draining", "closing", "stopping", "writing", "over"},
                   seen : {NoOwner} \cup Generations]
    /\ recordClosed \in BOOLEAN
    /\ deaths \in 0..MaxOwnerDeaths

ClientInit ==
    /\ heldBy = NoOwner /\ life = [g \in Generations |-> "none"] /\ busy = NoOwner
    /\ place = [g \in Generations |-> "none"]
    /\ sender = [pc |-> "idle", seen |-> NoOwner, stage |-> "first", spawned |-> NoOwner,
                 spawns |-> 0, submits |-> 0, waits |-> TRUE]
    /\ mail = <<>> /\ answer = "none"
    /\ closer = [pc |-> "idle", seen |-> NoOwner]
    /\ recordClosed = FALSE /\ deaths = 0

Alive(g) == g # NoOwner /\ life[g] \notin {"none", "dead"}
Listeners == {g \in Generations : life[g] \in {"up", "draining", "closed"}}
Fresh == {g \in Generations : life[g] = "none" /\ \A h \in 1..(g - 1) : life[h] # "none"}

senderOnly == <<heldBy, life, busy, place, closer, recordClosed, deaths>>
ownerKeeps == <<sender, answer, closer, recordClosed, deaths>>

(* ---- Owners -------------------------------------------------------------*)

\* An owner process starts: it takes the lease when it is free.
Starts(g) ==
    /\ life' = [life EXCEPT ![g] = "starting"]
    /\ heldBy' = g

\* Another client found no owner and spawned one.
OtherSpawns ==
    /\ heldBy = NoOwner /\ Fresh # {}
    /\ \E g \in Fresh : Starts(g)
    /\ UNCHANGED <<busy, place, sender, mail, answer, closer, recordClosed, deaths>>

Listens(g) ==
    /\ life[g] = "starting"
    /\ life' = [life EXCEPT ![g] = "up"]
    /\ UNCHANGED <<heldBy, busy, place, mail, ownerKeeps>>

\* Turns of other clients occupy the owner, and end; the queue is first come first served.
OthersTurn(g) ==
    /\ life[g] = "up" /\ busy = NoOwner /\ place[g] \notin {"queued", "running"} /\ ~recordClosed
    /\ busy' = g
    /\ UNCHANGED <<heldBy, life, place, mail, ownerKeeps>>

OthersTurnEnds ==
    /\ busy # NoOwner
    /\ busy' = NoOwner
    /\ UNCHANGED <<heldBy, life, place, mail, ownerKeeps>>

\* The sender's connection is the one to the owner whose place holds its prompt.
Tell(messages) == mail' = IF sender.pc = "await" THEN mail \o messages ELSE mail

\* The queue reaches this prompt; a turn is refused on a record that is closed.
PromptStarts(g) ==
    /\ place[g] = "queued" /\ life[g] = "up" /\ busy # g
    /\ IF recordClosed
       THEN place' = [place EXCEPT ![g] = "refused"] /\ Tell(<<"error">>)
       ELSE place' = [place EXCEPT ![g] = "running"] /\ UNCHANGED mail
    /\ UNCHANGED <<heldBy, life, busy, ownerKeeps>>

PromptIsOver(g) ==
    /\ place[g] = "running" /\ Alive(g)
    /\ place' = [place EXCEPT ![g] = "done"]
    /\ Tell(<<"result">>)
    /\ UNCHANGED <<heldBy, life, busy, ownerKeeps>>

\* What an owner that is stopped leaves of the prompt: a queued one gets its terminal (the
\* waiting sender is told that the owner shuts down), a running one is cut with its connection.
Stopped(g) ==
    place' = [place EXCEPT ![g] = CASE @ = "queued" -> "drained" [] @ = "running" -> "cut"
                                    [] OTHER -> @]

Farewell(g) ==
    IF place[g] = "queued" THEN <<"shutting down", "ended">>
    ELSE IF place[g] # "none" \/ sender.seen = g THEN <<"ended">> ELSE <<>>

\* The last turn is long over: the owner closes, and its socket still answers for a moment.
IdleExit(g) ==
    /\ life[g] = "up" /\ busy # g /\ place[g] # "running"
    /\ life' = [life EXCEPT ![g] = "closed"]
    /\ Stopped(g)
    /\ Tell(IF place[g] = "queued" THEN <<"shutting down">> ELSE <<>>)
    /\ UNCHANGED <<heldBy, busy, ownerKeeps>>

\* The process of owner g is gone; a clean exit and a signal release the lease, a crash does not.
OwnerIsGone(g, releases) ==
    /\ life' = [life EXCEPT ![g] = "dead"]
    /\ heldBy' = IF releases /\ heldBy = g THEN NoOwner ELSE heldBy
    /\ busy' = IF busy = g THEN NoOwner ELSE busy

ExitEnds(g) ==
    /\ life[g] = "closed"
    /\ OwnerIsGone(g, TRUE) /\ Tell(Farewell(g))
    /\ UNCHANGED <<place, ownerKeeps>>

OwnerCrashes(g) ==
    /\ Alive(g) /\ deaths < MaxOwnerDeaths
    /\ deaths' = deaths + 1
    /\ OwnerIsGone(g, FALSE)
    /\ place' = [place EXCEPT ![g] = IF @ \in {"queued", "running"} THEN "cut" ELSE @]
    /\ Tell(IF place[g] # "none" \/ sender.seen = g THEN <<"ended">> ELSE <<>>)
    /\ UNCHANGED <<sender, answer, closer, recordClosed>>

(* ---- The sender ---------------------------------------------------------*)

\* sendSession: one prompt, whose completion the sender waits for or not.
Sends ==
    /\ sender.pc = "idle"
    /\ \E waits \in BOOLEAN : sender' = [sender EXCEPT !.pc = "read", !.waits = waits]
    /\ UNCHANGED <<mail, answer, senderOnly>>

Over(told) ==
    /\ answer' = told
    /\ sender' = [sender EXCEPT !.pc = "over"]

\* readQueueOwnerRecord, and recoverRecoverableOwnerBeforeSubmit on the lease of a dead owner.
ReadLease ==
    /\ sender.pc = "read" /\ sender.submits < MaxSubmits
    /\ sender' = [sender EXCEPT !.submits = @ + 1, !.seen = heldBy,
                                !.pc = IF Alive(heldBy) THEN "connect" ELSE "missed"]
    /\ heldBy' = IF Alive(heldBy) THEN heldBy ELSE NoOwner
    /\ UNCHANGED <<life, busy, place, mail, answer, closer, recordClosed, deaths>>

\* The socket of the session leads to whoever listens.  A request for another generation, or
\* to an owner that drains for a close, is refused with an error that is passed on; a closed
\* owner answers before it knows the request, which the client takes for a malformed message.
Connect(g) ==
    /\ sender.pc = "connect" /\ g \in Listeners
    /\ CASE life[g] = "closed" ->
              /\ sender' = [sender EXCEPT !.pc = "await"] /\ mail' = <<"malformed">>
              /\ UNCHANGED <<place, answer>>
         [] life[g] # "closed" /\ g # sender.seen ->
              Over("error") /\ UNCHANGED <<place, mail>>
         [] life[g] = "draining" /\ g = sender.seen ->
              Over("closing") /\ UNCHANGED <<place, mail>>
         [] OTHER ->
              /\ place' = [place EXCEPT ![g] = "queued"]
              /\ sender' = [sender EXCEPT !.pc = "await"] /\ mail' = <<"accepted">>
              /\ UNCHANGED answer
    /\ UNCHANGED <<heldBy, life, busy, closer, recordClosed, deaths>>

\* No listener in forty attempts: with a lease the owner is taken to be starting, and the sender
\* tries again within its startup budget; without one there is no owner.
ConnectFails ==
    /\ sender.pc = "connect" /\ Listeners = {}
    /\ IF heldBy # NoOwner /\ sender.stage = "first" /\ sender.submits = MaxSubmits
       THEN Over("not accepting")
       ELSE /\ sender' = [sender EXCEPT !.pc = IF heldBy # NoOwner /\ sender.stage = "first"
                                               THEN "read" ELSE "missed"]
            /\ UNCHANGED answer
    /\ UNCHANGED <<mail, senderOnly>>

(* Mutated form: once a prompt is accepted, the end of the connection settles nothing *)
ReadMailIgnoresEnd ==
    /\ sender.pc = "await" /\ mail # <<>>
    /\ CASE (Head(mail) = "accepted" /\ sender.waits) \/ Head(mail) = "ended" ->
              mail' = Tail(mail) /\ UNCHANGED <<sender, answer>>
         [] Head(mail) = "accepted" /\ ~sender.waits -> Over("queued") /\ mail' = <<>>
         [] Head(mail) = "result" -> Over("result") /\ mail' = <<>>
         [] Head(mail) = "error" -> Over("error") /\ mail' = <<>>
         [] Head(mail) \in {"shutting down", "malformed"} ->
              /\ sender' = [sender EXCEPT !.pc = "recover"] /\ mail' = <<>>
              /\ UNCHANGED answer
    /\ UNCHANGED senderOnly

(* Mutated form: a connection that ends is taken for an owner that never accepted *)
ReadMailRetriesLost ==
    /\ sender.pc = "await" /\ mail # <<>>
    /\ CASE Head(mail) = "accepted" /\ sender.waits ->
              mail' = Tail(mail) /\ UNCHANGED <<sender, answer>>
         [] Head(mail) = "accepted" /\ ~sender.waits -> Over("queued") /\ mail' = <<>>
         [] Head(mail) = "result" -> Over("result") /\ mail' = <<>>
         [] Head(mail) = "error" -> Over("error") /\ mail' = <<>>
         [] Head(mail) \in {"shutting down", "malformed", "ended"} ->
              /\ sender' = [sender EXCEPT !.pc = "recover"] /\ mail' = <<>>
              /\ UNCHANGED answer
    /\ UNCHANGED senderOnly

\* runQueueOwnerRequest reads a message; an answer settles the request.
ReadMail ==
    /\ sender.pc = "await" /\ mail # <<>>
    /\ CASE Head(mail) = "accepted" /\ sender.waits ->
              mail' = Tail(mail) /\ UNCHANGED <<sender, answer>>
         [] Head(mail) = "accepted" /\ ~sender.waits -> Over("queued") /\ mail' = <<>>
         [] Head(mail) = "result" -> Over("result") /\ mail' = <<>>
         [] Head(mail) \in {"error", "ended"} -> Over("error") /\ mail' = <<>>
         [] Head(mail) \in {"shutting down", "malformed"} ->
              /\ sender' = [sender EXCEPT !.pc = "recover"] /\ mail' = <<>>
              /\ UNCHANGED answer
    /\ UNCHANGED senderOnly

\* terminateQueueOwnerForSession, for the generation that answered: a successor is left alone,
\* and a dead owner's lease is removed.
Terminate(g) ==
    IF heldBy = g /\ g # NoOwner
    THEN IF Alive(g) THEN OwnerIsGone(g, TRUE) /\ Stopped(g)
         ELSE heldBy' = NoOwner /\ UNCHANGED <<life, busy, place>>
    ELSE UNCHANGED <<heldBy, life, busy, place>>

Recover ==
    /\ sender.pc = "recover"
    /\ Terminate(sender.seen)
    /\ sender' = [sender EXCEPT !.pc = "recheck"]
    /\ UNCHANGED <<mail, answer, closer, recordClosed, deaths>>

\* The owner that answered no longer holds the lease: as if there had been none.
LookAgain ==
    /\ sender.pc = "recheck"
    /\ IF heldBy = sender.seen /\ heldBy # NoOwner THEN Over("error")
       ELSE sender' = [sender EXCEPT !.pc = "missed"] /\ UNCHANGED answer
    /\ UNCHANGED <<mail, senderOnly>>

\* A spawned owner takes the free lease, or finds it held and exits.
Spawn(g) ==
    /\ IF heldBy = NoOwner THEN Starts(g) ELSE life' = [life EXCEPT ![g] = "dead"] /\ UNCHANGED heldBy
    /\ sender' = [sender EXCEPT !.pc = "read", !.stage = "spawned", !.spawned = g,
                                !.spawns = @ + 1]

\* No owner to submit to: spawn one, wait for the one that was spawned, or spawn another when
\* that one has exited; and give up when the attempts or the budget are spent.
Missed ==
    /\ sender.pc = "missed"
    /\ LET exited == sender.stage = "spawned" /\ life[sender.spawned] = "dead"
           mustSpawn == sender.stage = "first" \/ exited
       IN  \/ /\ mustSpawn /\ sender.spawns < MaxSpawns /\ sender.submits < MaxSubmits
              /\ \E g \in Fresh : Spawn(g)
              /\ UNCHANGED answer
           \/ /\ ~mustSpawn /\ sender.submits < MaxSubmits
              /\ sender' = [sender EXCEPT !.pc = "read"]
              /\ UNCHANGED <<heldBy, life, answer>>
           \/ /\ sender.submits = MaxSubmits \/ (mustSpawn /\ (sender.spawns = MaxSpawns \/ Fresh = {}))
              /\ Over(IF ~mustSpawn /\ heldBy # NoOwner THEN "not accepting" ELSE "failed to start")
              /\ UNCHANGED <<heldBy, life>>
    /\ UNCHANGED <<busy, place, mail, closer, recordClosed, deaths>>

(* ---- sessions close -----------------------------------------------------*)

CloserKeeps == UNCHANGED <<sender, answer, deaths>>

\* The owner is read and asked to drain: it takes no prompt from then on.  Without a listener
\* of that generation the close goes on without a drain.
CloseStarts ==
    /\ closer.pc = "idle"
    /\ LET asked == heldBy # NoOwner /\ life[heldBy] = "up"
       IN  /\ closer' = [pc |-> IF asked THEN "draining" ELSE "closing", seen |-> heldBy]
           /\ life' = IF asked THEN [life EXCEPT ![heldBy] = "draining"] ELSE life
    /\ CloserKeeps /\ UNCHANGED <<heldBy, busy, place, mail, recordClosed>>

\* The turn under way has ended, or the drain's time is up: what is queued is drained.
CloseDrains ==
    /\ closer.pc = "draining"
    /\ LET g == closer.seen
           mine == Alive(g) /\ place[g] = "queued"
       IN  /\ place' = IF mine THEN [place EXCEPT ![g] = "drained"] ELSE place
           /\ Tell(IF mine THEN <<"shutting down">> ELSE <<>>)
    /\ closer' = [closer EXCEPT !.pc = "closing"]
    /\ CloserKeeps /\ UNCHANGED <<heldBy, life, busy, recordClosed>>

\* close_session goes to the owner that holds the lease now, and ends the turn of its agent.
CloseAgent ==
    /\ closer.pc = "closing"
    /\ closer' = [closer EXCEPT !.pc = "stopping"]
    /\ IF heldBy \in Listeners /\ place[heldBy] = "running"
       THEN place' = [place EXCEPT ![heldBy] = "cut"] /\ Tell(<<"error">>)
       ELSE UNCHANGED <<place, mail>>
    /\ CloserKeeps /\ UNCHANGED <<heldBy, life, busy, recordClosed>>

\* The owner that was drained is stopped, never a successor; then the record is closed.
CloseStops ==
    /\ closer.pc = "stopping"
    /\ closer' = [closer EXCEPT !.pc = "writing"]
    /\ Terminate(closer.seen)
    /\ Tell(IF closer.seen # NoOwner /\ heldBy = closer.seen /\ Alive(closer.seen)
            THEN Farewell(closer.seen) ELSE <<>>)
    /\ CloserKeeps /\ UNCHANGED <<recordClosed>>

CloseWrites ==
    /\ closer.pc = "writing"
    /\ closer' = [closer EXCEPT !.pc = "over"]
    /\ recordClosed' = TRUE
    /\ CloserKeeps /\ UNCHANGED <<heldBy, life, busy, place, mail>>

(* ---- The system ---------------------------------------------------------*)

SenderNext ==
    \/ ReadLease \/ (\E g \in Generations : Connect(g)) \/ ConnectFails \/ ReadMail
    \/ Recover \/ LookAgain \/ Missed

CloserNext == CloseStarts \/ CloseDrains \/ CloseAgent \/ CloseStops \/ CloseWrites

OwnerNext(g) ==
    Listens(g) \/ PromptStarts(g) \/ PromptIsOver(g) \/ ExitEnds(g)

ClientNext ==
    \/ Sends \/ SenderNext \/ CloserNext \/ OtherSpawns \/ OthersTurnEnds
    \/ \E g \in Generations : OwnerNext(g) \/ OthersTurn(g) \/ IdleExit(g) \/ OwnerCrashes(g)

\* Processes that run go on, turns end, and a close that began is finished; owners need not
\* die, idle or be busy, and nobody has to close the session.
ClientFairness ==
    /\ WF_clientVars(SenderNext) /\ WF_clientVars(CloserNext /\ ~CloseStarts)
    /\ WF_clientVars(OthersTurnEnds)
    /\ \A g \in Generations : WF_clientVars(OwnerNext(g))

ClientSpec == ClientInit /\ [][ClientNext]_clientVars /\ ClientFairness

(* ---- Properties ---------------------------------------------------------*)

Ran(g) == place[g] \in {"running", "done", "cut"}

\* However often it is submitted again, to owners that shut down, die or are replaced, a prompt
\* is taken by one owner at most; and an error that says it was never accepted is true: no owner
\* has it or will run it.
TakenAsTold ==
    /\ \A g, h \in Generations : Ran(g) /\ Ran(h) => g = h
    /\ answer \in {"closing", "not accepting", "failed to start"}
           => \A g \in Generations : place[g] \in {"none", "drained"}

\* A sender gets an answer, and a result only of a prompt that ran.
SenderAnswered == sender.pc = "read" ~> sender.pc = "over"
====
