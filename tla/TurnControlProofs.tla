------------------------- MODULE TurnControlProofs -------------------------
(* Theorems about a turn and about the task that runs it: TurnControl, for   *)
(* any harnesses and any bounds, and Failover, for any profiles, accounts,   *)
(* injected messages, expiries and changes of lock.                          *)
EXTENDS TurnControl, Failover, SequenceTheorems, TLAPS

Prompts == Mains \cup Injected
Slots == Prompts \cup {NoPrompt}

(* A turn that runs has a number, and one that pauses has a retry left.      *)
Numbered ==
  /\ turn.n > 0 \/ (turn.phase = "idle" /\ ~composing)
  /\ turn.phase = "backoff" => turn.attempt < MaxRetries

-----------------------------------------------------------------------------
(* Prompts and the sequences they stand in.                                  *)

(* A turn's own prompt, an injected one and none are three things.           *)
LEMMA PromptsApart == Mains \cap Injected = {} /\ NoPrompt \notin Prompts
BY DEF Mains, Injected, NoPrompt, Prompts

(* What is left of a sequence when the entry at one place is taken out.      *)
LEMMA RemoveAtFacts ==
  ASSUME NEW S, NEW s \in Seq(S), NEW k \in 1 .. Len(s)
  PROVE  /\ RemoveAt(s, k) \in Seq(S)
         /\ Len(RemoveAt(s, k)) = Len(s) - 1
         /\ \A j \in 1 .. (Len(s) - 1) :
              RemoveAt(s, k)[j] = IF j < k THEN s[j] ELSE s[j + 1]
<1> DEFINE before == SubSeq(s, 1, k - 1)
           after == SubSeq(s, k + 1, Len(s))
<1>1. before \in Seq(S) /\ Len(before) = k - 1
      /\ \A j \in 1 .. (k - 1) : before[j] = s[j]
  BY SubSeqProperties
<1>2. after \in Seq(S) /\ Len(after) = Len(s) - k
      /\ \A j \in 1 .. (Len(s) - k) : after[j] = s[k + j]
  BY SubSeqProperties
<1>3. RemoveAt(s, k) = before \o after
  BY DEF RemoveAt
<1> HIDE DEF before, after
<1>4. before \o after \in Seq(S) /\ Len(before \o after) = Len(s) - 1
  BY <1>1, <1>2
<1>5. ASSUME NEW j \in 1 .. (Len(s) - 1)
      PROVE  (before \o after)[j] = IF j < k THEN s[j] ELSE s[j + 1]
  <2>1. CASE j < k
    BY <2>1, <1>1, <1>2
  <2>2. CASE ~(j < k)
    <3>1. (before \o after)[j] = after[j - (k - 1)]
      BY <2>2, <1>1, <1>2
    <3>2. j - (k - 1) \in 1 .. (Len(s) - k) /\ k + (j - (k - 1)) = j + 1
      BY <2>2
    <3> QED
      BY <2>2, <3>1, <3>2, <1>2
  <2> QED
    BY <2>1, <2>2
<1> QED
  BY <1>3, <1>4, <1>5

(* An answer takes one occurrence of its prompt off the wire: every prompt   *)
(* left stood at another place, and the last one stays last.                 *)
LEMMA OffFacts ==
  ASSUME TurnTypeOK, NEW c \in Clients, NEW p \in OnWire(c)
  PROVE  /\ Off(c, p) \in Seq(Prompts)
         /\ \E k \in DOMAIN flight[c] :
              /\ flight[c][k] = p
              /\ \A x \in ToSet(Off(c, p)) :
                   \E j \in DOMAIN flight[c] : j # k /\ flight[c][j] = x
         /\ flight[c][Len(flight[c])] # p =>
              /\ Off(c, p) # <<>>
              /\ Off(c, p)[Len(Off(c, p))] = flight[c][Len(flight[c])]
<1> DEFINE s == flight[c]
           k == CHOOSE i \in DOMAIN s : s[i] = p
           rest == RemoveAt(s, k)
<1>1. s \in Seq(Prompts)
  BY DEF TurnTypeOK, Prompts
<1>2. k \in DOMAIN s /\ s[k] = p
  BY DEF OnWire, ToSet
<1>3. Off(c, p) = rest
  BY DEF Off
<1> HIDE DEF s, k, rest
<1>4. DOMAIN s = 1 .. Len(s) /\ Len(s) \in Nat
  BY <1>1
<1>5. /\ rest \in Seq(Prompts) /\ Len(rest) = Len(s) - 1
      /\ \A j \in 1 .. (Len(s) - 1) : rest[j] = IF j < k THEN s[j] ELSE s[j + 1]
  BY <1>1, <1>2, <1>4, RemoveAtFacts DEF rest
<1>6. ASSUME NEW x \in ToSet(rest)
      PROVE  \E j \in DOMAIN s : j # k /\ s[j] = x
  <2>1. PICK j \in 1 .. (Len(s) - 1) : rest[j] = x
    BY <1>4, <1>5 DEF ToSet
  <2>2. CASE j < k
    BY <2>1, <2>2, <1>2, <1>4, <1>5
  <2>3. CASE ~(j < k)
    <3>1. j + 1 \in DOMAIN s /\ j + 1 # k /\ s[j + 1] = x
      BY <2>1, <2>3, <1>2, <1>4, <1>5
    <3> QED
      BY <3>1
  <2> QED
    BY <2>2, <2>3
<1>7. ASSUME s[Len(s)] # p
      PROVE  rest # <<>> /\ rest[Len(rest)] = s[Len(s)]
  <2>1. k < Len(s)
    BY <1>2, <1>4, <1>7
  <2>2. Len(s) - 1 \in 1 .. (Len(s) - 1) /\ ~(Len(s) - 1 < k) /\ (Len(s) - 1) + 1 = Len(s)
    BY <2>1, <1>2, <1>4
  <2>3. rest[Len(s) - 1] = s[Len(s)]
    BY <2>2, <1>5
  <2> QED
    BY <2>2, <2>3, <1>5
<1> QED
  <2>1. flight[c] = s
    BY DEF s
  <2> QED
    BY <2>1, <1>2, <1>3, <1>5, <1>6, <1>7

-----------------------------------------------------------------------------
(* Types.                                                                    *)

Turns == [n : 0 .. MaxTurns, attempt : 0 .. MaxRetries, client : Clients,
          phase : {"idle", "connecting", "sent", "draining", "rejected", "overdue", "backoff"}]
Controls == [state : {"idle", "starting", "active"}, pendingCancel : BOOLEAN,
             controller : BOOLEAN]
Fates == {"none", "accepted", "sent", "settled", "given up"}

(* The bounds are numbers, and there is a turn.                              *)
LEMMA Bounds ==
  /\ MaxTurns \in Nat /\ MaxTurns >= 1
  /\ MaxInjected \in Nat /\ MaxRetries \in Nat /\ MaxCancels \in Nat
<1>1. {MaxInjected, MaxRetries, MaxCancels} \subseteq Nat /\ MaxTurns \in Nat \ {0}
  BY TurnAssumption
<1>2. MaxInjected \in Nat /\ MaxRetries \in Nat /\ MaxCancels \in Nat
  BY <1>1, Zenon
<1> QED
  BY <1>1, <1>2

(* The type invariant, part by part.                                         *)
Records == turn \in Turns /\ control \in Controls
Flags ==
  /\ composing \in BOOLEAN /\ cancelsWaiting \in BOOLEAN
  /\ owed \in BOOLEAN /\ clearedEarly \in BOOLEAN
Wires ==
  /\ harness \in Harnesses
  /\ slot \in [Clients -> Slots]
  /\ flight \in [Clients -> Seq(Prompts)]
Counts == injection \in [Injected -> Fates] /\ cancels \in 0 .. MaxCancels

LEMMA TypeParts == TurnTypeOK <=> Records /\ Flags /\ Wires /\ Counts
<1>1. {composing, cancelsWaiting, owed, clearedEarly} \subseteq BOOLEAN <=> Flags
  BY Zenon DEF Flags
<1> QED
  BY <1>1, Zenon DEF TurnTypeOK, Records, Wires, Counts, Turns, Controls, Fates, Slots, Prompts

(* The prompt of a turn with a number is one of the prompts.                 *)
LEMMA MainIsOne == Records /\ turn.n > 0 => Main \in Mains
<1> SUFFICES ASSUME Records, turn.n > 0 PROVE Main \in Mains
  OBVIOUS
<1>1. turn.n \in 1 .. MaxTurns /\ turn.attempt \in 0 .. MaxRetries
  BY Bounds DEF Records, Turns
<1> QED
  BY <1>1 DEF Main, Mains

(* A turn and its controller stay well formed and the turn numbered.         *)
LEMMA RecordsKept ==
  ASSUME Records, Flags, Numbered, [TurnNext]_turnVars
  PROVE  Records' /\ Numbered'
<1> USE Bounds DEF Records, Turns, Controls, Flags, Numbered
<1>0. CASE UNCHANGED turnVars
  BY <1>0 DEF turnVars
<1>1. CASE \E fresh \in BOOLEAN : TurnBegins(fresh)
  <2>1. PICK c \in Clients : turn' = [n |-> turn.n + 1, attempt |-> 0, client |-> c,
                                     phase |-> "connecting"]
    BY <1>1 DEF TurnBegins
  <2>2. turn.n + 1 \in 0 .. MaxTurns /\ turn.n + 1 > 0
    BY <1>1 DEF TurnBegins
  <2>3. turn' \in Turns
    BY <2>1, <2>2
  <2> QED
    BY <1>1, <2>1, <2>2, <2>3 DEF TurnBegins
<1>2. CASE Connected
  BY <1>2 DEF Connected
<1>3. CASE SendPrompt
  BY <1>3 DEF SendPrompt, StartHook
<1>4. CASE ComposePrompt
  BY <1>4 DEF ComposePrompt, StartHook
<1>5. CASE PromptComposed
  BY <1>5 DEF PromptComposed
<1>6. CASE CancelRequest
  BY <1>6 DEF CancelRequest
<1>7. CASE \E i \in Injected : Inject(i) \/ InjectSent(i)
  BY <1>7 DEF Inject, InjectSent
<1>8. CASE \E c \in Clients : \/ \E i \in Injected : InjectedAnswered(c, i)
                              \/ \E m \in Mains : MainAnswered(c, m)
  BY <1>8 DEF InjectedAnswered, MainAnswered
<1>9. CASE \E overdue \in BOOLEAN : AttemptFails(overdue)
  BY <1>9 DEF AttemptFails
<1>10. CASE Retry
  BY <1>10 DEF Retry
<1>11. CASE BackoffOver
  <2>1. turn.attempt + 1 \in 0 .. MaxRetries
    BY <1>11 DEF BackoffOver
  <2>2. turn' = [turn EXCEPT !.phase = "connecting", !.attempt = turn.attempt + 1]
    BY <1>11 DEF BackoffOver
  <2>3. turn' \in Turns /\ turn'.n = turn.n /\ turn'.phase = "connecting"
    BY <2>1, <2>2
  <2> QED
    BY <1>11, <2>3 DEF BackoffOver
<1>12. CASE TurnEnds
  BY <1>12 DEF TurnEnds
<1> QED
  BY <1>0, <1>1, <1>2, <1>3, <1>4, <1>5, <1>6, <1>7, <1>8, <1>9, <1>10, <1>11, <1>12
     DEF TurnNext

(* So do the flags and the counts.                                           *)
LEMMA FlagsKept ==
  ASSUME Records, Flags, Wires, Counts, [TurnNext]_turnVars
  PROVE  Flags' /\ Counts'
<1> USE DEF Flags, Counts, Fates
<1>0. CASE UNCHANGED turnVars
  BY <1>0 DEF turnVars
<1>1. CASE \E fresh \in BOOLEAN : TurnBegins(fresh)
  BY <1>1 DEF TurnBegins
<1>2. CASE Connected \/ BackoffOver
  BY <1>2 DEF Connected, BackoffOver
<1>3. CASE SendPrompt \/ ComposePrompt
  BY <1>3 DEF SendPrompt, ComposePrompt, StartHook
<1>4. CASE PromptComposed
  BY <1>4 DEF PromptComposed
<1>5. CASE CancelRequest
  <2>1. cancels < MaxCancels /\ cancels' = cancels + 1 /\ injection' = injection
    BY <1>5, Zenon DEF CancelRequest
  <2>4. cancels + 1 \in 0 .. MaxCancels
    <3>1. cancels \in 0 .. MaxCancels /\ MaxCancels \in Nat
      BY Bounds, Zenon
    <3> HIDE DEF Counts, Flags
    <3> QED
      BY <2>1, <3>1
  <2>2. Counts'
    BY <2>1, <2>4, Zenon
  <2>3. Flags'
    BY <1>5 DEF CancelRequest
  <2> QED
    BY <2>2, <2>3
<1>6. CASE \E i \in Injected : Inject(i) \/ InjectSent(i)
  BY <1>6 DEF Inject, InjectSent
<1>7. CASE \E c \in Clients : \/ \E i \in Injected : InjectedAnswered(c, i)
                              \/ \E m \in Mains : MainAnswered(c, m)
  BY <1>7 DEF InjectedAnswered, MainAnswered
<1>8. CASE \E overdue \in BOOLEAN : AttemptFails(overdue)
  BY <1>8 DEF AttemptFails
<1>9. CASE Retry \/ TurnEnds
  BY <1>9 DEF Retry, TurnEnds, EndDrain
<1> QED
  BY <1>0, <1>1, <1>2, <1>3, <1>4, <1>5, <1>6, <1>7, <1>8, <1>9 DEF TurnNext

(* What goes out and what an answer leaves keep the wires well formed.       *)
LEMMA SentTyped ==
  ASSUME Records, Wires, NEW p \in Prompts
  PROVE  /\ [slot EXCEPT ![turn.client] = p] \in [Clients -> Slots]
         /\ [flight EXCEPT ![turn.client] = Append(@, p)] \in [Clients -> Seq(Prompts)]
<1>1. turn.client \in Clients
  BY DEF Records, Turns
<1>2. Append(flight[turn.client], p) \in Seq(Prompts)
  BY <1>1 DEF Wires
<1> QED
  BY <1>1, <1>2 DEF Wires, Slots

LEMMA AnswerTyped ==
  ASSUME TurnTypeOK, NEW c \in Clients, NEW p \in OnWire(c)
  PROVE  /\ Cleared(c, p) \in [Clients -> Slots]
         /\ [flight EXCEPT ![c] = Off(c, p)] \in [Clients -> Seq(Prompts)]
<1>1. Off(c, p) \in Seq(Prompts)
  BY OffFacts
<1> QED
  BY <1>1, TypeParts DEF Wires, Cleared, Slots

LEMMA WiresKept ==
  ASSUME TurnTypeOK, Numbered, [TurnNext]_turnVars
  PROVE  Wires'
<1>a. Records /\ Wires
  BY TypeParts
<1>0. CASE UNCHANGED <<harness, slot, flight>>
  BY <1>0, <1>a DEF Wires
<1>1. CASE \E fresh \in BOOLEAN : TurnBegins(fresh)
  <2>1. <<>> \in Seq(Prompts) /\ NoPrompt \in Slots
    BY DEF Slots
  <2>2. CASE UNCHANGED <<slot, flight>>
    BY <1>1, <1>a, <2>2 DEF TurnBegins, Wires
  <2>3. CASE ~ UNCHANGED <<slot, flight>>
    <3>1. /\ slot' = [slot EXCEPT ![turn.client] = NoPrompt]
          /\ flight' = [flight EXCEPT ![turn.client] = <<>>]
          /\ harness' = harness
      BY <1>1, <2>3 DEF TurnBegins
    <3> QED
      BY <1>a, <2>1, <3>1 DEF Wires
  <2> QED
    BY <2>2, <2>3
<1>2. CASE SendPrompt \/ PromptComposed
  <2>1. Main \in Prompts
    BY <1>2, <1>a, MainIsOne DEF SendPrompt, PromptComposed, Numbered, Prompts
  <2> QED
    BY <1>2, <1>a, <2>1, SentTyped DEF SendPrompt, PromptComposed, Wires
<1>3. CASE \E i \in Injected : InjectSent(i)
  BY <1>3, <1>a, SentTyped DEF InjectSent, Wires, Prompts
<1>4. CASE \E c \in Clients : \/ \E i \in Injected : InjectedAnswered(c, i)
                              \/ \E m \in Mains : MainAnswered(c, m)
  <2>1. PICK c \in Clients : \E p \in OnWire(c) :
               /\ flight' = [flight EXCEPT ![c] = Off(c, p)] /\ slot' = Cleared(c, p)
               /\ harness' = harness
    BY <1>4 DEF InjectedAnswered, MainAnswered
  <2> QED
    BY <1>a, <2>1, AnswerTyped DEF Wires
<1>5. CASE \E overdue \in BOOLEAN : AttemptFails(overdue)
  <2>1. turn.client \in Clients
    BY <1>a DEF Records, Turns
  <2>2. CASE UNCHANGED <<harness, slot, flight>>
    BY <2>2, <1>a DEF Wires
  <2>3. CASE AttemptFails(FALSE)
    <3>1. /\ Main \in OnWire(turn.client) /\ harness' = harness
          /\ flight' = [flight EXCEPT ![turn.client] = Off(turn.client, Main)]
          /\ slot' = Cleared(turn.client, Main)
      BY <2>3 DEF AttemptFails
    <3> QED
      BY <1>a, <2>1, <3>1, AnswerTyped DEF Wires
  <2> QED
    BY <1>5, <2>2, <2>3 DEF AttemptFails
<1> QED
  <2>1. CASE \/ UNCHANGED turnVars \/ Connected \/ ComposePrompt \/ CancelRequest
             \/ (\E i \in Injected : Inject(i)) \/ Retry \/ BackoffOver \/ TurnEnds
    BY <1>0, <2>1 DEF turnVars, Connected, ComposePrompt, CancelRequest, Inject, Retry,
                      BackoffOver, TurnEnds
  <2> QED
    BY <1>1, <1>2, <1>3, <1>4, <1>5, <2>1 DEF TurnNext

(* Every step keeps the state well formed and its turn numbered.             *)
LEMMA TypeKept ==
  ASSUME TurnTypeOK, Numbered, [TurnNext]_turnVars
  PROVE  TurnTypeOK' /\ Numbered'
<1>1. Records /\ Flags /\ Wires /\ Counts
  BY TypeParts
<1>2. Records' /\ Flags' /\ Wires' /\ Counts' /\ Numbered'
  BY <1>1, RecordsKept, FlagsKept, WiresKept
<1> QED
  BY <1>2, TypeParts, PTL

LEMMA InitTyped == TurnInit => TurnTypeOK /\ Numbered
<1>1. TurnInit => Records /\ Numbered
  BY Bounds DEF TurnInit, Records, Turns, Controls, Numbered, Clients
<1>2. TurnInit => Flags
  BY DEF TurnInit, Flags
<1>3. TurnInit => Counts
  BY Bounds DEF TurnInit, Counts, Fates
<1>4. TurnInit => Wires
  BY DEF TurnInit, Wires, Slots
<1> QED
  BY <1>1, <1>2, <1>3, <1>4, TypeParts

(* Whatever the harness and the bounds, the state stays well formed: no      *)
(* attempt beyond the retries of the policy, no client beyond those started. *)
THEOREM TurnTypeCorrect == TurnSpec => []TurnTypeOK
<1>1. (TurnTypeOK /\ Numbered) /\ [TurnNext]_turnVars => (TurnTypeOK /\ Numbered)'
  BY TypeKept
<1> QED
  BY InitTyped, <1>1, PTL DEF TurnSpec

-----------------------------------------------------------------------------
(* One live adapter.                                                         *)

(* The slot names the prompt that went out last.                             *)
SlotIsLast ==
  \A c \in Clients : slot[c] # NoPrompt =>
    flight[c] # <<>> /\ flight[c][Len(flight[c])] = slot[c]

(* An empty slot means no work, and only the current client has any.         *)
SlotShowsWork == clearedEarly \/ \A c \in Clients : slot[c] = NoPrompt => ~LiveOn(c)
WorkIsCurrent == clearedEarly \/ \A c \in Clients : c # turn.client => ~LiveOn(c)

AdapterInv == SlotIsLast /\ SlotShowsWork /\ WorkIsCurrent


(* A prompt goes out on the client of the turn.                              *)
Sends(p) ==
  /\ slot' = [slot EXCEPT ![turn.client] = p]
  /\ flight' = [flight EXCEPT ![turn.client] = Append(@, p)]
  /\ UNCHANGED clearedEarly
  /\ harness' = harness /\ turn'.client = turn.client

LEMMA SendKeepsAdapter ==
  ASSUME TurnTypeOK, AdapterInv, NEW p \in Prompts, Sends(p)
  PROVE  AdapterInv'
<1>1. turn.client \in Clients /\ slot \in [Clients -> Slots] /\ flight \in [Clients -> Seq(Prompts)]
  BY TypeParts DEF Records, Turns, Wires
<1>2. \A c \in Clients : c # turn.client => slot'[c] = slot[c] /\ flight'[c] = flight[c]
  BY <1>1 DEF Sends
<1>3. slot'[turn.client] = p /\ flight'[turn.client] = Append(flight[turn.client], p)
  BY <1>1 DEF Sends
<1>4. /\ Append(flight[turn.client], p) # <<>>
      /\ Append(flight[turn.client], p)[Len(Append(flight[turn.client], p))] = p
  BY <1>1
<1>5. \A c \in Clients : c # turn.client => (LiveOn(c)' <=> LiveOn(c))
  BY <1>2 DEF LiveOn, OnWire, Sends
<1>6. SlotIsLast'
  BY <1>2, <1>3, <1>4 DEF AdapterInv, SlotIsLast
<1>7. SlotShowsWork' /\ WorkIsCurrent'
  BY <1>2, <1>3, <1>5, PromptsApart DEF AdapterInv, SlotShowsWork, WorkIsCurrent, Sends
<1> QED
  BY <1>6, <1>7 DEF AdapterInv

(* An answer arrives, or a rejection.                                        *)
Answers(c, p) ==
  /\ p \in OnWire(c) /\ MayAnswer(c, p)
  /\ flight' = [flight EXCEPT ![c] = Off(c, p)]
  /\ slot' = Cleared(c, p)
  /\ clearedEarly => clearedEarly'
  /\ slot[c] = p /\ p \in Injected /\ OnWire(c) \cap Mains # {} => clearedEarly'
  /\ harness' = harness /\ turn'.client = turn.client

LEMMA AnswerKeepsAdapter ==
  ASSUME TurnTypeOK, AdapterInv, NEW c \in Clients, NEW p \in Prompts, Answers(c, p)
  PROVE  AdapterInv'
<1>1. slot \in [Clients -> Slots] /\ flight \in [Clients -> Seq(Prompts)]
  BY TypeParts DEF Wires
<1>2. \A d \in Clients : d # c => slot'[d] = slot[d] /\ flight'[d] = flight[d]
  BY <1>1 DEF Answers, Cleared
<1>3. flight'[c] = Off(c, p) /\ slot'[c] = (IF slot[c] = p THEN NoPrompt ELSE slot[c])
  BY <1>1 DEF Answers, Cleared
<1>4. PICK k \in DOMAIN flight[c] :
        /\ flight[c][k] = p
        /\ \A x \in ToSet(Off(c, p)) : \E j \in DOMAIN flight[c] : j # k /\ flight[c][j] = x
  BY OffFacts DEF Answers
<1>5. \A d \in Clients : d # c => (LiveOn(d)' <=> LiveOn(d))
  BY <1>2 DEF LiveOn, OnWire, Answers
<1>6. LiveOn(c)' => LiveOn(c)
  <2>1. ToSet(Off(c, p)) \subseteq ToSet(flight[c])
    BY <1>4 DEF ToSet
  <2> QED
    BY <2>1, <1>3 DEF LiveOn, OnWire, Answers
<1>7. SlotIsLast'
  <2>1. slot[c] # NoPrompt /\ slot[c] # p => flight[c][Len(flight[c])] # p
    BY DEF AdapterInv, SlotIsLast
  <2>2. slot[c] # NoPrompt /\ slot[c] # p =>
          Off(c, p) # <<>> /\ Off(c, p)[Len(Off(c, p))] = flight[c][Len(flight[c])]
    BY <2>1, OffFacts DEF Answers
  <2>3. slot'[c] # NoPrompt => flight'[c] # <<>> /\ flight'[c][Len(flight'[c])] = slot'[c]
    BY <2>2, <1>3 DEF AdapterInv, SlotIsLast
  <2> QED
    BY <2>3, <1>2 DEF AdapterInv, SlotIsLast
<1>8. slot[c] = p => clearedEarly' \/ ~LiveOn(c)'
  <2> SUFFICES ASSUME slot[c] = p, ~clearedEarly' PROVE ~LiveOn(c)'
    OBVIOUS
  <2>1. flight[c][Len(flight[c])] = p /\ Len(flight[c]) \in DOMAIN flight[c]
    <3>1. p # NoPrompt
      BY PromptsApart
    <3>2. flight[c] # <<>> /\ flight[c][Len(flight[c])] = p
      BY <3>1 DEF AdapterInv, SlotIsLast
    <3> QED
      BY <1>1, <3>2
  <2>2. \A j \in DOMAIN flight[c] :
          j < Len(flight[c]) => harness # "claude" /\ ~({p, flight[c][j]} \subseteq Mains)
    BY <2>1 DEF Answers, MayAnswer
  <2>3. \A j \in DOMAIN flight[c] : j # Len(flight[c]) => j < Len(flight[c])
    BY <1>1
  <2>4. k = Len(flight[c]) \/ (harness # "claude" /\ p \notin Mains)
    BY <1>4, <2>2, <2>3
  <2>5. CASE harness = "claude"
    <3>1. ToSet(Off(c, p)) = {}
      BY <1>4, <2>2, <2>3, <2>4, <2>5
    <3> QED
      BY <3>1, <1>3 DEF LiveOn, OnWire
  <2>6. CASE harness # "claude" /\ p \in Mains
    <3>1. ToSet(Off(c, p)) \cap Mains = {}
      BY <1>4, <2>2, <2>3, <2>4, <2>6
    <3> QED
      BY <3>1, <2>6, <1>3 DEF LiveOn, OnWire, Answers
  <2>7. CASE harness # "claude" /\ p \in Injected
    <3>1. OnWire(c) \cap Mains = {}
      BY <2>7 DEF Answers
    <3>2. ToSet(Off(c, p)) \subseteq OnWire(c)
      BY <1>4 DEF OnWire, ToSet
    <3> QED
      BY <3>1, <3>2, <2>7, <1>3 DEF LiveOn, OnWire, Answers
  <2> QED
    BY <2>5, <2>6, <2>7 DEF Prompts
<1>9. SlotShowsWork'
  BY <1>2, <1>3, <1>5, <1>6, <1>8 DEF AdapterInv, SlotShowsWork, Answers
<1>10. WorkIsCurrent'
  BY <1>5, <1>6 DEF AdapterInv, WorkIsCurrent, Answers
<1> QED
  BY <1>7, <1>9, <1>10 DEF AdapterInv

(* A turn begins, perhaps on a fresh client once the old one is done.        *)
LEMMA BeginKeepsAdapter ==
  ASSUME TurnTypeOK, AdapterInv, NEW fresh \in BOOLEAN, TurnBegins(fresh)
  PROVE  AdapterInv'
<1> DEFINE old == turn.client
<1>1. /\ old \in Clients /\ old \in Nat /\ slot \in [Clients -> Slots]
      /\ flight \in [Clients -> Seq(Prompts)]
  BY TypeParts, Bounds DEF Records, Turns, Wires, Clients
<1>2. turn'.client = IF fresh THEN old + 1 ELSE old
  BY DEF TurnBegins
<1>3. harness' = harness /\ clearedEarly' = clearedEarly
  BY DEF TurnBegins
<1>4. CASE fresh /\ slot[old] # NoPrompt
  <2>1. slot' = [slot EXCEPT ![old] = NoPrompt] /\ flight' = [flight EXCEPT ![old] = <<>>]
    BY <1>4 DEF TurnBegins
  <2>2. \A c \in Clients : c # old => slot'[c] = slot[c] /\ flight'[c] = flight[c]
    BY <2>1, <1>1
  <2>3. slot'[old] = NoPrompt /\ flight'[old] = <<>>
    BY <2>1, <1>1
  <2>4. \A c \in Clients : c = old => ~LiveOn(c)'
    BY <2>3 DEF LiveOn, OnWire, ToSet
  <2>5. \A c \in Clients : c # old => (LiveOn(c)' <=> LiveOn(c))
    BY <2>2, <1>3 DEF LiveOn, OnWire
  <2>6. SlotIsLast'
    BY <2>2, <2>3 DEF AdapterInv, SlotIsLast
  <2>7. SlotShowsWork' /\ WorkIsCurrent'
    BY <2>2, <2>4, <2>5, <1>2, <1>3 DEF AdapterInv, SlotShowsWork, WorkIsCurrent
  <2> QED
    BY <2>6, <2>7 DEF AdapterInv
<1>5. CASE ~(fresh /\ slot[old] # NoPrompt)
  <2>1. UNCHANGED <<slot, flight>>
    BY <1>5 DEF TurnBegins
  <2>2. \A c \in Clients : LiveOn(c)' <=> LiveOn(c)
    BY <2>1, <1>3 DEF LiveOn, OnWire
  <2>3. SlotIsLast' /\ SlotShowsWork'
    BY <2>1, <2>2, <1>3 DEF AdapterInv, SlotIsLast, SlotShowsWork
  <2>4. WorkIsCurrent'
    <3>1. fresh => clearedEarly \/ ~LiveOn(old)
      BY <1>1, <1>5 DEF AdapterInv, SlotShowsWork
    <3> QED
      BY <3>1, <2>2, <1>2, <1>3 DEF AdapterInv, WorkIsCurrent
  <2> QED
    BY <2>3, <2>4 DEF AdapterInv
<1> QED
  BY <1>4, <1>5

LEMMA AdapterKept ==
  ASSUME TurnTypeOK, Numbered, AdapterInv, [TurnNext]_turnVars
  PROVE  AdapterInv'
<1>a. turn.client \in Clients
  BY TypeParts DEF Records, Turns
<1>1. CASE \E fresh \in BOOLEAN : TurnBegins(fresh)
  BY <1>1, BeginKeepsAdapter
<1>2. CASE SendPrompt \/ PromptComposed
  <2>1. Main \in Prompts
    BY <1>2, TypeParts, MainIsOne DEF SendPrompt, PromptComposed, Numbered, Prompts
  <2>2. Sends(Main)
    BY <1>2, TypeParts DEF SendPrompt, PromptComposed, Sends, Records, Turns
  <2> QED
    BY <2>1, <2>2, SendKeepsAdapter
<1>3. CASE \E i \in Injected : InjectSent(i)
  <2>1. PICK i \in Injected : Sends(i)
    BY <1>3 DEF InjectSent, Sends
  <2> QED
    BY <2>1, SendKeepsAdapter DEF Prompts
<1>4. CASE \E c \in Clients, i \in Injected : InjectedAnswered(c, i)
  <2>1. PICK c \in Clients : \E i \in Injected : InjectedAnswered(c, i)
    BY <1>4
  <2>2. PICK i \in Injected : InjectedAnswered(c, i)
    BY <2>1
  <2>3. Answers(c, i)
    BY <2>2 DEF InjectedAnswered, Answers
  <2> QED
    BY <2>3, AnswerKeepsAdapter DEF Prompts
<1>5. CASE \E c \in Clients, m \in Mains : MainAnswered(c, m)
  <2>1. PICK c \in Clients : \E m \in Mains : MainAnswered(c, m)
    BY <1>5
  <2>2. PICK m \in Mains : MainAnswered(c, m)
    BY <2>1
  <2>3. Answers(c, m)
    BY <2>2, TypeParts, PromptsApart DEF MainAnswered, Answers, Records, Turns
  <2> QED
    BY <2>3, AnswerKeepsAdapter DEF Prompts
<1>6. CASE AttemptFails(FALSE)
  <2>1. Main \in Mains
    BY <1>6, TypeParts, MainIsOne DEF AttemptFails, Numbered
  <2>2. Answers(turn.client, Main)
    BY <1>6, <2>1, TypeParts, PromptsApart DEF AttemptFails, Answers, Records, Turns
  <2> QED
    BY <1>a, <2>1, <2>2, AnswerKeepsAdapter DEF Prompts
<1>7. CASE UNCHANGED <<harness, slot, flight, clearedEarly, turn.client>>
  BY <1>7 DEF AdapterInv, SlotIsLast, SlotShowsWork, WorkIsCurrent, LiveOn, OnWire
<1> QED
  <2>1. CASE \/ UNCHANGED turnVars \/ Connected \/ ComposePrompt \/ CancelRequest
             \/ (\E i \in Injected : Inject(i)) \/ Retry \/ BackoffOver \/ TurnEnds
             \/ AttemptFails(TRUE)
    <3>1. UNCHANGED <<harness, slot, flight, clearedEarly>>
      BY <2>1 DEF turnVars, Connected, ComposePrompt, CancelRequest, Inject, Retry,
                  BackoffOver, TurnEnds, AttemptFails
    <3>2. UNCHANGED turn.client
      BY <2>1, TypeParts DEF turnVars, Connected, ComposePrompt, CancelRequest, Inject, Retry,
                  BackoffOver, TurnEnds, AttemptFails, Records, Turns
    <3> QED
      BY <3>1, <3>2, <1>7
  <2> QED
    BY <1>1, <1>2, <1>3, <1>4, <1>5, <1>6, <2>1 DEF TurnNext

(* A turn on a fresh client never works beside an older one's, and neither   *)
(* does what an injected prompt left behind, whatever the harness and        *)
(* however many turns, retries and messages: at the end of a turn the slot   *)
(* of its client tells of any work left, and the next turn looks at it.      *)
THEOREM OneAdapterAlwaysLive == TurnSpec => []OneLiveAdapter
<1>1. TurnInit => TurnTypeOK /\ Numbered
  BY InitTyped
<1>2. TurnInit => AdapterInv
  BY DEF TurnInit, AdapterInv, SlotIsLast, SlotShowsWork, WorkIsCurrent, LiveOn, OnWire, ToSet
<1>3. (TurnTypeOK /\ Numbered /\ AdapterInv) /\ [TurnNext]_turnVars
        => (TurnTypeOK /\ Numbered /\ AdapterInv)'
  BY TypeKept, AdapterKept
<1>4. AdapterInv => OneLiveAdapter
  BY DEF AdapterInv, WorkIsCurrent, OneLiveAdapter
<1> QED
  BY <1>1, <1>2, <1>3, <1>4, PTL DEF TurnSpec

-----------------------------------------------------------------------------
(* A cancel that arrives while the turn starts.                              *)

(* Every main prompt on the wire is older than the one still to be sent, and *)
(* none is younger than the turn.                                            *)
NotYetSent == turn.phase = "connecting" \/ composing
MainsPassed ==
  \A c \in Clients : \A m \in OnWire(c) \cap Mains :
    /\ m[2] <= turn.n
    /\ m[2] = turn.n => m[3] <= turn.attempt /\ (NotYetSent => m[3] # turn.attempt)

(* Between turns no cancel is accepted.  In a turn, an accepted one waits    *)
(* with the prompt being composed or is kept; one kept while the first       *)
(* prompt is composed also waits with it; one kept beside a first prompt     *)
(* that is out was not let near it by an empty slot.                         *)
CancelKept ==
  /\ composing => turn.phase = "sent"
  /\ turn.phase = "idle" => control.state = "idle" /\ ~owed
  /\ turn.phase \notin {"idle", "connecting"} => control.controller
  /\ owed => (composing /\ cancelsWaiting) \/ control.pendingCancel
  /\ composing /\ turn.attempt = 0 /\ control.pendingCancel => cancelsWaiting
  /\ (control.pendingCancel /\ turn.phase = "sent" /\ turn.attempt = 0 /\ ~composing
        /\ Main \in OnWire(turn.client)) => clearedEarly

CancelInv == MainsPassed /\ CancelKept

(* The main prompts that a step leaves on the wire were there before it, or  *)
(* are the turn's own.                                                       *)
LEMMA WireGrowsByMain ==
  ASSUME TurnTypeOK, Numbered, [TurnNext]_turnVars
  PROVE  \A c \in Clients : \A m \in OnWire(c)' \cap Mains :
           m \in OnWire(c) \/ (m = Main /\ (SendPrompt \/ PromptComposed))
<1>a. turn.client \in Clients /\ flight \in [Clients -> Seq(Prompts)]
  BY TypeParts DEF Records, Turns, Wires
<1>b. \A d \in Clients : \A p \in OnWire(d) : ToSet(Off(d, p)) \subseteq OnWire(d)
  <2> SUFFICES ASSUME NEW d \in Clients, NEW p \in OnWire(d)
               PROVE  ToSet(Off(d, p)) \subseteq OnWire(d)
    OBVIOUS
  <2>1. \A x \in ToSet(Off(d, p)) : \E j \in DOMAIN flight[d] : flight[d][j] = x
    BY OffFacts
  <2> QED
    BY <2>1 DEF OnWire, ToSet
<1>c. \A d \in Clients : \A x : ToSet(Append(flight[d], x)) = OnWire(d) \cup {x}
  <2> SUFFICES ASSUME NEW d \in Clients, NEW x
               PROVE  ToSet(Append(flight[d], x)) = OnWire(d) \cup {x}
    OBVIOUS
  <2> DEFINE s == flight[d]
             longer == Append(s, x)
  <2>1. s \in Seq(Prompts)
    BY <1>a
  <2> HIDE DEF s
  <2>2. /\ Len(s) \in Nat /\ DOMAIN s = 1 .. Len(s) /\ DOMAIN longer = 1 .. (Len(s) + 1)
        /\ longer[Len(s) + 1] = x /\ \A j \in 1 .. Len(s) : longer[j] = s[j]
    BY <2>1
  <2> HIDE DEF longer
  <2>3. ToSet(longer) \subseteq ToSet(s) \cup {x}
    BY <2>2 DEF ToSet
  <2>4. x \in ToSet(longer)
    <3>1. Len(s) + 1 \in DOMAIN longer
      BY <2>2
    <3> QED
      BY <2>2, <3>1 DEF ToSet
  <2>5. ToSet(s) \subseteq ToSet(longer)
    <3>1. \A j \in 1 .. Len(s) : j \in DOMAIN longer
      BY <2>2
    <3> QED
      BY <2>2, <3>1 DEF ToSet
  <2> QED
    BY <2>3, <2>4, <2>5 DEF OnWire, s, longer
<1> DEFINE Only(d, s) == flight' = [flight EXCEPT ![d] = s]
<1>1. CASE SendPrompt \/ PromptComposed
  <2>1. \A c \in Clients :
          flight'[c] = IF c = turn.client THEN Append(flight[c], Main) ELSE flight[c]
    BY <1>1, <1>a DEF SendPrompt, PromptComposed
  <2> QED
    BY <1>1, <2>1, <1>c DEF OnWire
<1>2. CASE \E i \in Injected : InjectSent(i)
  <2>1. PICK i \in Injected : InjectSent(i)
    BY <1>2
  <2>2. \A c \in Clients :
          flight'[c] = IF c = turn.client THEN Append(flight[c], i) ELSE flight[c]
    BY <2>1, <1>a DEF InjectSent
  <2> QED
    BY <2>2, <1>c, PromptsApart DEF OnWire
<1>3. CASE \E d \in Clients : \E p \in OnWire(d) : Only(d, Off(d, p))
  <2>1. PICK d \in Clients : \E p \in OnWire(d) : Only(d, Off(d, p))
    BY <1>3
  <2>2. PICK p \in OnWire(d) : Only(d, Off(d, p))
    BY <2>1
  <2>3. \A c \in Clients : flight'[c] = IF c = d THEN Off(d, p) ELSE flight[c]
    BY <2>2, <1>a
  <2> QED
    BY <2>3, <1>b DEF OnWire
<1>4. CASE UNCHANGED flight
  BY <1>4 DEF OnWire
<1>5. CASE \E fresh \in BOOLEAN : TurnBegins(fresh)
  <2>1. \A c \in Clients : flight'[c] = flight[c] \/ flight'[c] = <<>>
    BY <1>5, <1>a DEF TurnBegins
  <2>2. ToSet(<<>>) = {}
    BY DEF ToSet
  <2> QED
    BY <2>1, <2>2 DEF OnWire
<1> QED
  <2>1. CASE \E c \in Clients : \/ \E i \in Injected : InjectedAnswered(c, i)
                                \/ \E m \in Mains : MainAnswered(c, m)
    BY <2>1, <1>3 DEF InjectedAnswered, MainAnswered
  <2>2. CASE \E overdue \in BOOLEAN : AttemptFails(overdue)
    BY <2>2, <1>a, <1>3, <1>4 DEF AttemptFails
  <2>3. CASE \/ UNCHANGED turnVars \/ Connected \/ ComposePrompt \/ CancelRequest
             \/ (\E i \in Injected : Inject(i)) \/ Retry \/ BackoffOver \/ TurnEnds
    BY <2>3, <1>4 DEF turnVars, Connected, ComposePrompt, CancelRequest, Inject, Retry,
                      BackoffOver, TurnEnds
  <2> QED
    BY <1>1, <1>2, <1>5, <2>1, <2>2, <2>3 DEF TurnNext

(* A main prompt is named by its turn and its attempt.                       *)
LEMMA MainNames ==
  /\ \A m \in Mains : m[2] \in Nat /\ m[3] \in Nat
  /\ Main[2] = turn.n /\ Main[3] = turn.attempt
<1>1. \A m \in Mains : \E n \in 1 .. MaxTurns, a \in 0 .. MaxRetries : m = <<"main", n, a>>
  BY DEF Mains
<1> QED
  BY <1>1 DEF Main

(* The turn moves on to its next attempt or to the next turn, and else       *)
(* nothing puts its prompt back to be sent.                                  *)
LEMMA TurnMovesOn ==
  ASSUME TurnTypeOK, CancelKept, [TurnNext]_turnVars
  PROVE  \/ turn'.n = turn.n + 1
         \/ turn'.n = turn.n /\ turn'.attempt = turn.attempt + 1
         \/ turn'.n = turn.n /\ turn'.attempt = turn.attempt /\ (NotYetSent' => NotYetSent)
<1>a. turn \in Turns
  BY TypeParts DEF Records
<1>1. CASE \E fresh \in BOOLEAN : TurnBegins(fresh)
  BY <1>1 DEF TurnBegins
<1>2. CASE BackoffOver
  BY <1>2, <1>a DEF BackoffOver, Turns
<1>3. CASE SendPrompt \/ ComposePrompt \/ PromptComposed
  BY <1>3, <1>a DEF SendPrompt, ComposePrompt, PromptComposed, NotYetSent, Turns
<1>4. CASE \/ \E c \in Clients, m \in Mains : MainAnswered(c, m)
           \/ \E overdue \in BOOLEAN : AttemptFails(overdue)
           \/ Retry \/ TurnEnds
  BY <1>4, <1>a DEF MainAnswered, AttemptFails, Retry, TurnEnds, NotYetSent, Turns
<1>5. CASE UNCHANGED <<turn, composing>>
  BY <1>5 DEF NotYetSent
<1> QED
  <2>1. CASE \/ UNCHANGED turnVars \/ Connected \/ CancelRequest
             \/ (\E i \in Injected : Inject(i) \/ InjectSent(i))
             \/ (\E c \in Clients, i \in Injected : InjectedAnswered(c, i))
    BY <2>1, <1>5 DEF turnVars, Connected, CancelRequest, Inject, InjectSent, InjectedAnswered
  <2> QED
    BY <1>1, <1>2, <1>3, <1>4, <2>1 DEF TurnNext

LEMMA MainsPassedKept ==
  ASSUME TurnTypeOK, Numbered, MainsPassed, CancelKept, [TurnNext]_turnVars
  PROVE  MainsPassed'
<1>a. /\ turn.n \in Nat /\ turn.attempt \in Nat
  BY TypeParts, Bounds DEF Records, Turns
<1> SUFFICES ASSUME NEW c \in Clients, NEW m \in OnWire(c)' \cap Mains
             PROVE  /\ m[2] <= turn'.n
                    /\ turn'.n = m[2] =>
                         m[3] <= turn'.attempt /\ (NotYetSent' => m[3] # turn'.attempt)
  BY DEF MainsPassed
<1>1. CASE m \in OnWire(c)
  <2>1. /\ m[2] <= turn.n
        /\ m[2] = turn.n => m[3] <= turn.attempt /\ (NotYetSent => m[3] # turn.attempt)
    BY <1>1 DEF MainsPassed
  <2>2. m[2] \in Nat /\ m[3] \in Nat
    BY MainNames
  <2> QED
    BY <1>a, <2>1, <2>2, TurnMovesOn
<1>2. CASE m = Main /\ (SendPrompt \/ PromptComposed)
  <2>1. turn'.n = turn.n /\ turn'.attempt = turn.attempt /\ ~NotYetSent'
    BY <1>2, TypeParts
       DEF SendPrompt, PromptComposed, NotYetSent, CancelKept, Records, Turns
  <2>2. m[2] = turn.n /\ m[3] = turn.attempt
    BY <1>2, MainNames
  <2> QED
    BY <1>a, <2>1, <2>2
<1> QED
  BY <1>1, <1>2, WireGrowsByMain

(* A main prompt that composes is not answered: it has not been sent.        *)
LEMMA ComposingUnsent ==
  ASSUME TurnTypeOK, MainsPassed, NotYetSent, NEW c \in Clients
  PROVE  Main \notin OnWire(c) \cap Mains
BY MainNames DEF MainsPassed

(* The slot of a client with a main prompt on the wire shows it.             *)
LEMMA MainShows ==
  ASSUME TurnTypeOK, Numbered, AdapterInv, turn.phase = "sent", Main \in OnWire(turn.client)
  PROVE  clearedEarly \/ HasActivePrompt
<1>1. turn.client \in Clients /\ Main \in Mains
  BY TypeParts, MainIsOne DEF Records, Turns, Numbered
<1>2. LiveOn(turn.client)
  BY <1>1 DEF LiveOn
<1> QED
  BY <1>1, <1>2 DEF AdapterInv, SlotShowsWork, HasActivePrompt

LEMMA CancelIsKept ==
  ASSUME TurnTypeOK, Numbered, AdapterInv, MainsPassed, CancelKept, [TurnNext]_turnVars
  PROVE  CancelKept'
<1>a. Records /\ Flags /\ turn.client \in Clients
  BY TypeParts DEF Records, Turns
<1> DEFINE Aside == control.pendingCancel /\ turn.phase = "sent" /\ turn.attempt = 0
                      /\ ~composing /\ Main \in OnWire(turn.client)
<1>b. Aside => clearedEarly
  BY DEF CancelKept
<1>0. CASE UNCHANGED turnVars
  BY <1>0 DEF turnVars, CancelKept, OnWire, Main
<1>1. CASE \E fresh \in BOOLEAN : TurnBegins(fresh)
  BY <1>1, <1>a DEF TurnBegins, CancelKept, Records, Controls
<1>2. CASE Connected
  BY <1>2, <1>a DEF Connected, CancelKept, Records, Controls
<1>3. CASE SendPrompt
  BY <1>3, <1>a DEF SendPrompt, StartHook, CancelKept, Records, Controls, Turns, Flags
<1>4. CASE ComposePrompt
  BY <1>4, <1>a DEF ComposePrompt, StartHook, CancelKept, Records, Controls, Turns, Flags
<1>5. CASE PromptComposed
  BY <1>5, <1>a DEF PromptComposed, CancelKept, Records, Controls, Turns, Flags
<1>6. CASE CancelRequest
  <2>1. /\ UNCHANGED <<turn, composing, flight, clearedEarly>>
        /\ control'.controller = control.controller
    BY <1>6, <1>a DEF CancelRequest, Records, Controls
  <2>2. (Main \in OnWire(turn.client))' <=> Main \in OnWire(turn.client)
    BY <2>1 DEF OnWire, Main
  <2>3. CASE composing
    BY <1>6, <1>a, <2>1, <2>2, <2>3 DEF CancelRequest, HasActivePrompt, CancelKept
  <2>4. CASE ~composing /\ control.controller /\ HasActivePrompt
    BY <1>6, <1>a, <2>1, <2>2, <2>4 DEF CancelRequest, CancelKept, Records, Controls
  <2>5. CASE ~composing /\ ~(control.controller /\ HasActivePrompt)
    <3>1. turn.phase = "sent" /\ Main \in OnWire(turn.client) => clearedEarly
      BY <2>5, MainShows DEF CancelKept
    <3>2. owed' => control'.pendingCancel
      BY <1>6, <1>a, <2>5 DEF CancelRequest, CancelKept, Records, Controls
    <3>3. turn.phase = "idle" => control' = control /\ owed' = owed
      BY <1>6, <2>5 DEF CancelRequest, CancelKept
    <3>4. control'.state = control.state
      BY <1>6, <1>a, <2>5 DEF CancelRequest, Records, Controls
    <3> QED
      BY <2>1, <2>2, <2>5, <3>1, <3>2, <3>3, <3>4 DEF CancelKept
  <2> QED
    BY <2>3, <2>4, <2>5
<1>7. CASE \E i \in Injected : Inject(i)
  BY <1>7 DEF Inject, CancelKept, OnWire, Main
<1>8. ASSUME ~(SendPrompt \/ PromptComposed), turn' = turn,
             UNCHANGED <<control, composing, cancelsWaiting, owed>>,
             clearedEarly => clearedEarly'
      PROVE  CancelKept'
  <2>1. turn.phase = "sent" => Main \in Mains
    BY <1>a, MainIsOne DEF Numbered
  <2>2. Main' = Main
    BY <1>8 DEF Main
  <2>3. turn.phase = "sent" /\ (Main \in OnWire(turn.client))' => Main \in OnWire(turn.client)
    <3>1. \A c \in Clients : OnWire(c)' \cap Mains \subseteq OnWire(c)
      BY <1>8, WireGrowsByMain
    <3>2. (Main \in OnWire(turn.client))' <=> Main \in OnWire(turn.client)'
      BY <2>2, <1>8 DEF OnWire
    <3> QED
      BY <1>a, <2>1, <3>1, <3>2, <1>8 DEF OnWire
  <2> QED
    BY <1>8, <1>b, <2>3 DEF CancelKept
<1>9. CASE (\E i \in Injected : InjectSent(i))
           \/ (\E c \in Clients, i \in Injected : InjectedAnswered(c, i))
  <2>1. UNCHANGED <<control, composing, cancelsWaiting, owed, turn>>
        /\ (clearedEarly => clearedEarly')
    <3>1. CASE \E i \in Injected : InjectSent(i)
      BY <3>1 DEF InjectSent
    <3>2. CASE \E c \in Clients, i \in Injected : InjectedAnswered(c, i)
      BY <3>2 DEF InjectedAnswered
    <3> QED
      BY <1>9, <3>1, <3>2
  <2> QED
    BY <1>3, <1>5, <1>8, <2>1
<1>10. CASE \E c \in Clients, m \in Mains : MainAnswered(c, m)
  <2>1. PICK c \in Clients : \E m \in Mains : MainAnswered(c, m)
    BY <1>10
  <2>2. PICK m \in Mains : MainAnswered(c, m)
    BY <2>1
  <2>3. UNCHANGED <<control, composing, cancelsWaiting, owed, clearedEarly>>
    BY <2>2 DEF MainAnswered
  <2>4. CASE turn' = turn
    BY <1>3, <1>5, <1>8, <2>3, <2>4
  <2>5. CASE turn' # turn
    <3>1. m = Main /\ c = turn.client /\ turn.phase = "sent"
          /\ turn' = [turn EXCEPT !.phase = "draining"]
      BY <2>2, <2>5 DEF MainAnswered
    <3>2. ~composing
      BY <2>2, <3>1, ComposingUnsent DEF MainAnswered, NotYetSent
    <3> QED
      BY <1>a, <2>3, <3>1, <3>2 DEF CancelKept, Records, Turns
  <2> QED
    BY <2>4, <2>5
<1>11. CASE \E overdue \in BOOLEAN : AttemptFails(overdue)
  BY <1>11, <1>a DEF AttemptFails, CancelKept, Records, Turns
<1>12. CASE Retry
  BY <1>12, <1>a DEF Retry, CancelKept, Records, Turns
<1>13. CASE BackoffOver
  BY <1>13, <1>a DEF BackoffOver, CancelKept, Records, Turns
<1>14. CASE TurnEnds
  BY <1>14, <1>a DEF TurnEnds, CancelKept, Records, Turns
<1> QED
  BY <1>0, <1>1, <1>2, <1>3, <1>4, <1>5, <1>6, <1>7, <1>9, <1>10, <1>11, <1>12, <1>13, <1>14
     DEF TurnNext

(* A cancel accepted before the client, before the prompt or while it is     *)
(* composed reaches the agent with the prompt; but for retries and a slot    *)
(* cleared early.  One that is kept beside a prompt on the wire was not      *)
(* applied because the slot was empty, and by the invariant of the adapter   *)
(* only an injected prompt that settled can have emptied it.                 *)
THEOREM StartingCancelAlwaysReachesAgent == TurnSpec => []StartingCancelReachesAgent
<1> DEFINE Inv == TurnTypeOK /\ Numbered /\ AdapterInv /\ CancelInv
<1>1. TurnInit => Inv
  <2>1. TurnInit => AdapterInv
    BY DEF TurnInit, AdapterInv, SlotIsLast, SlotShowsWork, WorkIsCurrent, LiveOn, OnWire, ToSet
  <2>2. TurnInit => CancelInv
    BY DEF TurnInit, CancelInv, MainsPassed, CancelKept, OnWire, ToSet
  <2> QED
    BY <2>1, <2>2, InitTyped
<1>2. Inv /\ [TurnNext]_turnVars => Inv'
  BY TypeKept, AdapterKept, MainsPassedKept, CancelIsKept DEF CancelInv
<1>3. Inv => StartingCancelReachesAgent
  BY TypeParts DEF CancelInv, CancelKept, StartingCancelReachesAgent, Records, Turns
<1> QED
  BY <1>1, <1>2, <1>3, PTL DEF TurnSpec

-----------------------------------------------------------------------------
(* Failover: the task, its accounts and the messages it puts aside.          *)

Deferral == [message : Steered, on : Profiles, account : Accounts]

(* Putting an outcome behind a message's terminals keeps them typed.        *)
LEMMA ToldTyped ==
  ASSUME settled \in [Messages -> Seq({"done", "failed"})],
         NEW m, NEW phase \in {"done", "failed"},
         Told(m, phase) \/ UNCHANGED settled
  PROVE  settled' \in [Messages -> Seq({"done", "failed"})]
<1>1. CASE UNCHANGED settled
  BY <1>1
<1>2. CASE Told(m, phase)
  <2>1. m \in Messages => Append(settled[m], phase) \in Seq({"done", "failed"})
    OBVIOUS
  <2> QED
    BY <1>2, <2>1 DEF Told
<1> QED
  BY <1>1, <1>2

(* The oldest message put aside is one.                                     *)
LEMMA OldestTyped ==
  ASSUME refused \in Seq(Deferral), refused # <<>>
  PROVE  /\ Head(refused).message \in Steered
         /\ Head(refused).on \in Profiles
         /\ Head(refused).account \in Accounts
         /\ Tail(refused) \in Seq(Deferral)
<1>1. Head(refused) \in Deferral /\ Tail(refused) \in Seq(Deferral)
  OBVIOUS
<1> QED
  BY <1>1 DEF Deferral

(* The account of a profile is one of the accounts.                         *)
LEMMA AccountIsOne == \A p \in Profiles : AccountOf[p] \in Accounts
BY DEF Accounts

FailoverRecords ==
  [on : BOOLEAN, copy : Profiles, original : Profiles, last : Accounts,
   tried : SUBSET Accounts, target : Profiles, picks : [Accounts -> Nat]]

(* A failover that begins, goes on to another account or is over is one.    *)
LEMMA FailoverShapes ==
  ASSUME failover \in FailoverRecords, selected \in Profiles
  PROVE  /\ NoFailover \in FailoverRecords
         /\ \A a \in Accounts : Started(a) \in FailoverRecords
         /\ \A a \in Accounts : Charged(failover, a) \in FailoverRecords
         /\ \A p \in Profiles : Switched(p) \in FailoverRecords
         /\ \A p \in Profiles : [failover EXCEPT !.target = p] \in FailoverRecords
         /\ Restored \in Profiles
<1> USE FailoverAssumption, AccountIsOne DEF FailoverRecords
<1>1. NoFailover \in FailoverRecords
  BY DEF NoFailover
<1>2. \A a \in Accounts : Charged(failover, a) \in FailoverRecords
  BY DEF Charged
<1>3. \A a \in Accounts : Started(a) \in FailoverRecords
  BY <1>1 DEF Started, Charged
<1>4. \A p \in Profiles : Switched(p) \in FailoverRecords
  <2> SUFFICES ASSUME NEW p \in Profiles PROVE Switched(p) \in FailoverRecords
    OBVIOUS
  <2>1. /\ failover.picks \in [Accounts -> Nat] /\ AccountOf[p] \in Accounts
        /\ failover.tried \cup {AccountOf[p]} \in SUBSET Accounts
    OBVIOUS
  <2>2. [failover.picks EXCEPT ![AccountOf[p]] = @ + 1] \in [Accounts -> Nat]
    BY <2>1
  <2>3. Switched(p) = [failover EXCEPT !.copy = p, !.tried = failover.tried \cup {AccountOf[p]},
                          !.picks = [failover.picks EXCEPT ![AccountOf[p]] = @ + 1]]
    BY DEF Switched
  <2> QED
    BY <2>1, <2>2, <2>3
<1> QED
  BY <1>1, <1>2, <1>3, <1>4 DEF Restored

(* Every reachable state has its type: what a failover tries, restores and  *)
(* defers are profiles, accounts and messages of the task.                  *)
THEOREM FailoverTypeCorrect == FailoverSpec => []FailoverTypeOK
<1> USE FailoverAssumption, AccountIsOne DEF GoesTo
<1>1. FailoverInit => FailoverTypeOK
  <2> SUFFICES ASSUME FailoverInit PROVE FailoverTypeOK
    OBVIOUS
  <2>1. NoFailover \in FailoverRecords
    BY DEF NoFailover, FailoverRecords
  <2>2. settled \in [Messages -> Seq({"done", "failed"})]
    BY DEF FailoverInit
  <2>3. task \in [at : {"begin", "running", "pick", "switch", "next", "over"}, message : Messages]
    BY DEF FailoverInit, Messages
  <2>4. refused \in Seq(Deferral)
    BY DEF FailoverInit
  <2>5. expired \in 0 .. MaxExpired /\ flips \in 0 .. MaxLockFlips
    BY DEF FailoverInit
  <2> QED
    BY <2>1, <2>2, <2>3, <2>4, <2>5 DEF FailoverInit, FailoverTypeOK, FailoverRecords, Deferral
<1>2. FailoverTypeOK /\ [FailoverNext]_failoverVars => FailoverTypeOK'
  <2> SUFFICES ASSUME FailoverTypeOK, [FailoverNext]_failoverVars PROVE FailoverTypeOK'
    OBVIOUS
  <2>t. failover \in FailoverRecords /\ selected \in Profiles
    BY DEF FailoverTypeOK, FailoverRecords
  <2>m. TaskMessage \in Messages /\ Steered \subseteq Messages
    BY DEF Messages
  <2>s. settled \in [Messages -> Seq({"done", "failed"})]
    BY DEF FailoverTypeOK
  <2>r. refused \in Seq(Deferral)
    BY DEF FailoverTypeOK, Deferral
  <2>1. selected' \in Profiles
    BY <2>t, FailoverShapes DEF FailoverTypeOK, FailoverNext, failoverVars, SelectBeforeTurn, RunTurn,
       MoveOffLock, RefuseLocked, Served, FailedOtherwise, Limited, RefuseInjected, Pick, Exhausted,
       Switch, SwitchFails, TakeDeferred, TaskOver, DeadEnds, FlipLock, EndUnserved, Unlocked,
       FailoverRecords
  <2>2. failover' \in FailoverRecords
    <3>1. CASE TakeDeferred
      <4>1. refused # <<>> => Head(refused).account \in Accounts
        BY <2>r, OldestTyped
      <4> QED
        BY <3>1, <4>1, <2>t, FailoverShapes DEF TakeDeferred
    <3>2. CASE ~TakeDeferred
      <4>1. CASE Switch \/ Limited
        <5>1. failover.target \in Profiles
          BY <2>t DEF FailoverRecords
        <5> QED
          BY <4>1, <5>1, <2>t, FailoverShapes DEF Switch, Limited
      <4>2. CASE Pick
        BY <4>2, <2>t, FailoverShapes DEF Pick, Siblings
      <4>3. CASE ~(Switch \/ Limited \/ Pick)
        BY <3>2, <4>3, <2>t, FailoverShapes DEF FailoverNext, failoverVars, SelectBeforeTurn, RunTurn,
           MoveOffLock, RefuseLocked, Served, FailedOtherwise, RefuseInjected, Exhausted, SwitchFails,
           TaskOver, DeadEnds, FlipLock, EndUnserved
      <4> QED
        BY <4>1, <4>2, <4>3
    <3> QED
      BY <3>1, <3>2
  <2>3. task' \in [at : {"begin", "running", "pick", "switch", "next", "over"}, message : Messages]
    <3>1. CASE TakeDeferred
      <4>1. refused # <<>> => Head(refused).message \in Messages
        BY <2>m, <2>r, OldestTyped
      <4> QED
        BY <3>1, <4>1 DEF TakeDeferred
    <3>2. CASE ~TakeDeferred
      BY <3>2 DEF FailoverTypeOK, FailoverNext, failoverVars, SelectBeforeTurn, RunTurn, MoveOffLock,
         RefuseLocked, Served, FailedOtherwise, Limited, RefuseInjected, Pick, Exhausted, Switch,
         SwitchFails, TaskOver, DeadEnds, FlipLock, EndUnserved
    <3> QED
      BY <3>1, <3>2
  <2>4. refused' \in Seq(Deferral)
    <3>1. ASSUME NEW m \in Steered, RefuseInjected(m) PROVE refused' \in Seq(Deferral)
      <4>1. PICK a \in Accounts : refused' = Append(refused, [message |-> m, on |-> selected, account |-> a])
        BY <3>1 DEF RefuseInjected
      <4>2. [message |-> m, on |-> selected, account |-> a] \in Deferral
        BY <2>t DEF Deferral
      <4> QED
        BY <2>r, <4>1, <4>2
    <3>2. CASE TakeDeferred
      BY <2>r, <3>2, OldestTyped DEF TakeDeferred
    <3>3. CASE UNCHANGED refused
      BY <2>r, <3>3
    <3> QED
      BY <3>1, <3>2, <3>3 DEF FailoverNext, failoverVars, SelectBeforeTurn, RunTurn, MoveOffLock,
         RefuseLocked, Served, FailedOtherwise, Limited, Pick, Exhausted, Switch, SwitchFails,
         TaskOver, DeadEnds, FlipLock
  <2>5. settled' \in [Messages -> Seq({"done", "failed"})]
    <3>1. \/ UNCHANGED settled
          \/ \E m, phase : phase \in {"done", "failed"} /\ Told(m, phase)
      <4> DEFINE Said == \/ UNCHANGED settled
                         \/ \E m, phase : phase \in {"done", "failed"} /\ Told(m, phase)
      <4>1. SelectBeforeTurn \/ RunTurn \/ MoveOffLock \/ RefuseLocked \/ Served => Said
        BY DEF SelectBeforeTurn, RunTurn, MoveOffLock, RefuseLocked, Served, TellUntold
      <4>2. /\ FailedOtherwise \/ Limited \/ Pick \/ Exhausted => Said
            /\ \A m \in Steered : RefuseInjected(m) => Said
        BY DEF FailedOtherwise, Limited, RefuseInjected, Pick, Exhausted, TellUntold
      <4>3. Switch \/ SwitchFails \/ TakeDeferred => Said
        BY DEF Switch, SwitchFails, TakeDeferred, TellUntold
      <4>4. ASSUME TaskOver \/ DeadEnds \/ FlipLock \/ UNCHANGED failoverVars
            PROVE  Said
        BY <4>4 DEF TaskOver, DeadEnds, failoverVars, FlipLock, TellUntold
      <4> HIDE DEF Said
      <4>5. Said
        BY <4>1, <4>2, <4>3, <4>4 DEF FailoverNext
      <4> QED
        BY <4>5 DEF Said
    <3> QED
      BY <3>1, <2>s, ToldTyped
  <2>6. /\ locks' \subseteq Profiles /\ dead' \subseteq Accounts /\ home' \in Profiles
        /\ {heldWritten', gaveUp', stuckMove'} \subseteq BOOLEAN /\ deferred' \subseteq Steered
        /\ expired' \in 0 .. MaxExpired /\ flips' \in 0 .. MaxLockFlips
    <3>1. /\ home' \in Profiles /\ locks' \subseteq Profiles
          /\ {heldWritten', gaveUp', stuckMove'} \subseteq BOOLEAN /\ deferred' \subseteq Steered
      BY DEF FailoverTypeOK, FailoverNext, failoverVars, SelectBeforeTurn, RunTurn, MoveOffLock,
         RefuseLocked, Served, FailedOtherwise, Limited, RefuseInjected, Pick, Exhausted, Switch,
         SwitchFails, TakeDeferred, TaskOver, DeadEnds, FlipLock, Unlocked
    <3>2. dead' \subseteq Accounts
      <4>1. refused # <<>> => Head(refused).account \in Accounts
        BY <2>r, OldestTyped
      <4> QED
        BY <4>1 DEF FailoverTypeOK, FailoverNext, failoverVars, SelectBeforeTurn, RunTurn, MoveOffLock,
           RefuseLocked, Served, FailedOtherwise, Limited, RefuseInjected, Pick, Exhausted, Switch,
           SwitchFails, TakeDeferred, TaskOver, DeadEnds, FlipLock
    <3>3. expired' \in 0 .. MaxExpired /\ flips' \in 0 .. MaxLockFlips
      BY DEF FailoverTypeOK, FailoverNext, failoverVars, SelectBeforeTurn, RunTurn, MoveOffLock,
         RefuseLocked, Served, FailedOtherwise, Limited, RefuseInjected, Pick, Exhausted, Switch,
         SwitchFails, TakeDeferred, TaskOver, DeadEnds, FlipLock
    <3> QED
      BY <3>1, <3>2, <3>3
  <2> QED
    BY <2>1, <2>2, <2>3, <2>4, <2>5, <2>6 DEF FailoverTypeOK, FailoverRecords, Deferral
<1> QED
  BY <1>1, <1>2, PTL DEF FailoverSpec

-----------------------------------------------------------------------------
(* Where the selection is, and what a failover has tried.                   *)

(* A failover is in progress while accounts are tried, and a switch that did *)
(* not throw leaves the way back: what the failover will restore is where    *)
(* the session was last served.                                              *)
WayHome ==
  /\ task.at \in {"next", "over"} => ~failover.on
  /\ task.at \in {"pick", "switch"} => failover.on
  /\ ~stuckMove => (IF failover.on THEN failover.original ELSE selected) = home

(* An account switched to counts as tried, and the next one is not tried yet. *)
EachTriedOnce ==
  /\ \A a \in Accounts :
       failover.picks[a] <= 1 /\ (failover.picks[a] = 1 => a \in failover.tried)
  /\ task.at = "switch" => AccountOf[failover.target] \notin failover.tried

LEMMA WayHomeKept ==
  ASSUME FailoverTypeOK, WayHome, [FailoverNext]_failoverVars
  PROVE  WayHome'
<1> USE DEF WayHome, FailoverTypeOK, GoesTo
<1>1. CASE SelectBeforeTurn \/ RunTurn \/ MoveOffLock
  BY <1>1 DEF SelectBeforeTurn, RunTurn, MoveOffLock
<1>2. CASE RefuseLocked \/ Served \/ FailedOtherwise \/ Exhausted
  BY <1>2 DEF RefuseLocked, Served, FailedOtherwise, Exhausted, EndUnserved, Restored, NoFailover
<1>3. CASE Limited
  <2>1. PICK a \in Accounts :
          failover' = IF failover.on THEN Charged(failover, a) ELSE Started(a)
    BY <1>3 DEF Limited
  <2>2. failover'.on /\ failover'.original = (IF failover.on THEN failover.original ELSE selected)
    BY <2>1 DEF Started, Charged, NoFailover
  <2> QED
    BY <1>3, <2>2 DEF Limited
<1>4. CASE Pick \/ Switch \/ SwitchFails
  <2>1. CASE Pick
    BY <1>4, <2>1 DEF Pick
  <2>2. CASE Switch
    <3>1. failover'.on = failover.on /\ failover'.original = failover.original
      BY <2>2 DEF Switch, Switched
    <3> QED
      BY <2>2, <3>1 DEF Switch
  <2>3. CASE SwitchFails
    BY <2>3 DEF SwitchFails, NoFailover
  <2> QED
    BY <1>4, <2>1, <2>2, <2>3
<1>5. CASE TakeDeferred
  <2>1. ~failover.on
    BY <1>5 DEF TakeDeferred
  <2>2. CASE gaveUp \/ selected # Head(refused).on
    BY <1>5, <2>1, <2>2 DEF TakeDeferred
  <2>3. CASE ~gaveUp /\ selected = Head(refused).on
    <3>1. failover' = Started(Head(refused).account) /\ task'.at = "pick"
      BY <1>5, <2>3 DEF TakeDeferred
    <3>2. failover'.on /\ failover'.original = selected
      BY <3>1 DEF Started, Charged, NoFailover
    <3> QED
      BY <1>5, <2>1, <3>1, <3>2 DEF TakeDeferred
  <2> QED
    BY <2>2, <2>3
<1>6. CASE \/ TaskOver \/ DeadEnds \/ FlipLock \/ UNCHANGED failoverVars
           \/ \E m \in Steered : RefuseInjected(m)
  BY <1>6 DEF TaskOver, DeadEnds, FlipLock, RefuseInjected, failoverVars
<1> QED
  BY <1>1, <1>2, <1>3, <1>4, <1>5, <1>6 DEF FailoverNext

LEMMA EachTriedOnceKept ==
  ASSUME FailoverTypeOK, EachTriedOnce, [FailoverNext]_failoverVars
  PROVE  EachTriedOnce'
<1> USE FailoverAssumption, AccountIsOne DEF EachTriedOnce, GoesTo
<1>t. /\ failover.picks \in [Accounts -> Nat] /\ failover.tried \subseteq Accounts
      /\ failover.target \in Profiles /\ failover \in FailoverRecords
      /\ selected \in Profiles
      /\ task \in [at : {"begin", "running", "pick", "switch", "next", "over"}, message : Messages]
  BY DEF FailoverTypeOK, FailoverRecords
<1>n. \A a \in Accounts : NoFailover.picks[a] = 0
  BY DEF NoFailover
<1>s. \A a, b \in Accounts : Started(a).picks[b] = 0
  BY <1>n DEF Started, Charged, NoFailover
<1>1. CASE SelectBeforeTurn \/ RunTurn \/ MoveOffLock
  BY <1>t, <1>1 DEF SelectBeforeTurn, RunTurn, MoveOffLock
<1>2. CASE RefuseLocked \/ Served \/ FailedOtherwise \/ Exhausted \/ SwitchFails
  BY <1>t, <1>n, <1>2 DEF RefuseLocked, Served, FailedOtherwise, Exhausted, SwitchFails, EndUnserved
<1>3. CASE Limited
  <2>1. PICK a \in Accounts :
          failover' = IF failover.on THEN Charged(failover, a) ELSE Started(a)
    BY <1>3 DEF Limited
  <2>2. task'.at = "pick"
    BY <1>t, <1>3 DEF Limited
  <2>3. CASE failover.on
    <3>1. failover'.picks = failover.picks /\ failover'.tried = failover.tried \cup {a}
      BY <1>t, <2>1, <2>3 DEF Charged, FailoverRecords
    <3> QED
      BY <2>2, <3>1
  <2>4. CASE ~failover.on
    BY <1>s, <2>1, <2>2, <2>4
  <2> QED
    BY <2>3, <2>4
<1>4. CASE Pick
  <2>1. PICK p \in Siblings : failover' = [failover EXCEPT !.target = p]
    BY <1>4 DEF Pick
  <2>2. /\ failover'.picks = failover.picks /\ failover'.tried = failover.tried
        /\ failover'.target = p /\ AccountOf[p] \notin failover.tried
    BY <1>t, <2>1 DEF FailoverRecords, Siblings
  <2> QED
    BY <2>2
<1>5. CASE Switch
  <2> DEFINE b == AccountOf[failover.target]
  <2>1. b \in Accounts /\ b \notin failover.tried
    BY <1>t, <1>5 DEF Switch
  <2>2. /\ failover'.picks = [failover.picks EXCEPT ![b] = @ + 1]
        /\ failover'.tried = failover.tried \cup {b}
    BY <1>t, <1>5 DEF Switch, Switched, FailoverRecords
  <2>3. failover.picks[b] = 0
    BY <1>t, <2>1
  <2>4. task'.at = "begin"
    BY <1>t, <1>5 DEF Switch
  <2> QED
    BY <1>t, <2>1, <2>2, <2>3, <2>4
<1>6. CASE TakeDeferred
  <2>r. refused # <<>> /\ refused \in Seq(Deferral)
    BY <1>6 DEF TakeDeferred, FailoverTypeOK, Deferral
  <2>1. Head(refused).account \in Accounts
    BY <2>r, OldestTyped
  <2>2. UNCHANGED failover \/ failover' = Started(Head(refused).account)
    BY <1>6 DEF TakeDeferred
  <2>3. task'.at \in {"next", "pick", "begin"}
    BY <1>6 DEF TakeDeferred
  <2> QED
    BY <1>s, <2>1, <2>2, <2>3
<1>7. CASE \/ TaskOver \/ DeadEnds \/ FlipLock \/ UNCHANGED failoverVars
           \/ \E m \in Steered : RefuseInjected(m)
  BY <1>t, <1>7 DEF TaskOver, DeadEnds, FlipLock, RefuseInjected, failoverVars
<1> QED
  BY <1>1, <1>2, <1>3, <1>4, <1>5, <1>6, <1>7 DEF FailoverNext

(* One failover switches to each account at most once; and when none is in  *)
(* progress the session is selected where it was last served, or where it   *)
(* was before the failover began, unless a switch threw half-way.           *)
THEOREM AlwaysComesHome == FailoverSpec => []SelectionComesHome
<1>1. FailoverInit => WayHome /\ EachTriedOnce
  BY FailoverAssumption, AccountIsOne DEF FailoverInit, WayHome, EachTriedOnce, NoFailover
<1>2. FailoverTypeOK /\ WayHome /\ [FailoverNext]_failoverVars => WayHome'
  BY WayHomeKept
<1>3. FailoverTypeOK /\ EachTriedOnce /\ [FailoverNext]_failoverVars => EachTriedOnce'
  BY EachTriedOnceKept
<1>4. WayHome /\ EachTriedOnce => SelectionComesHome
  BY DEF WayHome, EachTriedOnce, SelectionComesHome
<1> QED
  BY <1>1, <1>2, <1>3, <1>4, FailoverTypeCorrect, PTL DEF FailoverSpec

-----------------------------------------------------------------------------
(* What the messages put aside are told.                                    *)

Aside(m) == \E i \in DOMAIN refused : refused[i].message = m
AtWork == {"begin", "running", "pick", "switch"}

(* A message that is put aside waits once and untold, and is not the one     *)
(* being run; while it is run again it is untold; and then it is told once.  *)
ToldInTurn ==
  /\ \A i, j \in DOMAIN refused : refused[i].message = refused[j].message => i = j
  /\ \A m \in Steered : Aside(m) =>
       m \in deferred /\ settled[m] = <<>> /\ m # task.message
  /\ \A m \in Steered \ deferred : settled[m] = <<>> /\ m # task.message
  /\ \A m \in deferred :
       \/ Aside(m)
       \/ m = task.message /\ task.at \in AtWork /\ settled[m] = <<>> /\ ~heldWritten
       \/ (m = task.message => task.at \notin AtWork) /\ Len(settled[m]) = 1
  /\ task.at = "over" => refused = <<>>

LEMMA ToldOnceMore ==
  ASSUME settled \in [Messages -> Seq({"done", "failed"})],
         NEW m \in Messages, NEW phase \in {"done", "failed"}, Told(m, phase)
  PROVE  /\ settled[m] = <<>> => Len(settled'[m]) = 1
         /\ \A o \in Messages : o # m => settled'[o] = settled[o]
<1>1. settled'[m] = Append(settled[m], phase)
  BY DEF Told
<1>2. settled[m] = <<>> => Len(Append(settled[m], phase)) = 1
  OBVIOUS
<1> QED
  BY <1>1, <1>2 DEF Told

LEMMA ToldInTurnKept ==
  ASSUME FailoverTypeOK, ToldInTurn, [FailoverNext]_failoverVars
  PROVE  ToldInTurn'
<1> USE FailoverAssumption DEF GoesTo, AtWork
<1>t. /\ settled \in [Messages -> Seq({"done", "failed"})]
      /\ task \in [at : {"begin", "running", "pick", "switch", "next", "over"}, message : Messages]
      /\ refused \in Seq(Deferral) /\ deferred \subseteq Steered
      /\ Steered \subseteq Messages /\ TaskMessage \in Messages /\ TaskMessage \notin Steered
  BY DEF FailoverTypeOK, Deferral, Messages
<1>q. ASSUME UNCHANGED <<refused, deferred>>, task'.message = task.message,
             task.at \in AtWork, task'.at = "next",
             Told(task.message, "done") \/ Told(task.message, "failed")
      PROVE  ToldInTurn'
  BY <1>t, <1>q, ToldOnceMore DEF ToldInTurn, Aside
<1>u. ASSUME UNCHANGED <<refused, deferred, heldWritten>>, task'.message = task.message,
             task.at \in AtWork, task'.at = "next", TellUntold
      PROVE  ToldInTurn'
  <2>1. CASE task.message # TaskMessage /\ ~heldWritten
    BY <1>t, <1>u, <2>1, ToldOnceMore DEF ToldInTurn, Aside, TellUntold
  <2>2. CASE ~(task.message # TaskMessage /\ ~heldWritten)
    BY <1>t, <1>u, <2>2 DEF ToldInTurn, Aside, TellUntold
  <2> QED
    BY <2>1, <2>2
<1>1. CASE SelectBeforeTurn \/ RunTurn \/ MoveOffLock \/ Pick \/ Switch
  <2>1. /\ UNCHANGED <<refused, deferred, settled, heldWritten>>
        /\ task'.message = task.message /\ {task.at, task'.at} \subseteq AtWork
    BY <1>t, <1>1 DEF SelectBeforeTurn, RunTurn, MoveOffLock, Pick, Switch
  <2> QED
    BY <2>1 DEF ToldInTurn, Aside
<1>2. CASE RefuseLocked \/ Exhausted \/ SwitchFails
  <2>1. /\ UNCHANGED <<refused, deferred, heldWritten>> /\ TellUntold
        /\ task'.message = task.message /\ task.at \in AtWork /\ task'.at = "next"
    BY <1>t, <1>2 DEF RefuseLocked, Exhausted, SwitchFails, EndUnserved
  <2> QED
    BY <1>u, <2>1
<1>3. CASE Served \/ FailedOtherwise
  <2>1. /\ UNCHANGED <<refused, deferred>>
        /\ task'.message = task.message /\ task.at \in AtWork /\ task'.at = "next"
        /\ Told(task.message, "done") \/ Told(task.message, "failed")
    BY <1>t, <1>3 DEF Served, FailedOtherwise, EndUnserved
  <2> QED
    BY <1>q, <2>1
<1>4. CASE Limited
  <2>1. /\ UNCHANGED <<refused, deferred, heldWritten>>
        /\ task'.message = task.message /\ {task.at, task'.at} \subseteq AtWork
        /\ IF task.message = TaskMessage THEN Told(task.message, "failed") ELSE UNCHANGED settled
    BY <1>t, <1>4 DEF Limited, TurnTellsLimit
  <2>2. \A m \in Steered : settled'[m] = settled[m]
    BY <1>t, <2>1, ToldOnceMore
  <2> QED
    BY <1>t, <2>1, <2>2 DEF ToldInTurn, Aside
<1>5. ASSUME NEW m \in Steered, RefuseInjected(m) PROVE ToldInTurn'
  <2>1. PICK a \in Accounts : refused' = Append(refused, [message |-> m, on |-> selected, account |-> a])
    BY <1>5 DEF RefuseInjected
  <2>2. /\ m # task.message /\ m \notin deferred /\ deferred' = deferred \cup {m}
        /\ UNCHANGED <<task, settled, heldWritten>> /\ task.at = "running"
    BY <1>5 DEF RefuseInjected
  <2>3. /\ DOMAIN refused' = 1..(Len(refused) + 1) /\ DOMAIN refused = 1..Len(refused)
        /\ Len(refused) \in Nat
        /\ \A i \in DOMAIN refused : refused'[i] = refused[i]
        /\ refused'[Len(refused) + 1].message = m
    BY <1>t, <2>1
  <2>4. ~Aside(m)
    BY <2>2 DEF ToldInTurn
  <2>5. \A o : Aside(o)' <=> Aside(o) \/ o = m
    BY <2>3 DEF Aside
  <2>6. \A i, j \in DOMAIN refused' : refused'[i].message = refused'[j].message => i = j
    BY <2>3, <2>4 DEF ToldInTurn, Aside
  <2> QED
    BY <1>t, <2>2, <2>5, <2>6 DEF ToldInTurn
<1>6. CASE TakeDeferred
  <2> DEFINE e == Head(refused)
  <2>1. /\ refused # <<>> /\ refused' = Tail(refused) /\ task.at = "next" /\ ~heldWritten'
        /\ UNCHANGED deferred /\ task'.message = e.message
    BY <1>6 DEF TakeDeferred
  <2>2. /\ e.message \in Steered /\ e = refused[1]
        /\ DOMAIN refused' = 1..(Len(refused) - 1) /\ DOMAIN refused = 1..Len(refused)
        /\ Len(refused) \in Nat \ {0}
        /\ \A i \in DOMAIN refused' : refused'[i] = refused[i + 1]
    BY <1>t, <2>1, OldestTyped
  <2>3. \A m : Aside(m) <=> Aside(m)' \/ m = e.message
    <3> SUFFICES ASSUME NEW m PROVE Aside(m) <=> Aside(m)' \/ m = e.message
      OBVIOUS
    <3>1. ASSUME Aside(m), m # e.message PROVE Aside(m)'
      <4>1. PICK i \in DOMAIN refused : refused[i].message = m
        BY <3>1 DEF Aside
      <4>2. i - 1 \in DOMAIN refused' /\ refused'[i - 1] = refused[i]
        BY <2>2, <3>1, <4>1
      <4> QED
        BY <4>1, <4>2 DEF Aside
    <3>2. ASSUME Aside(m)' PROVE Aside(m)
      <4>1. PICK i \in DOMAIN refused' : refused'[i].message = m
        BY <3>2 DEF Aside
      <4>2. i + 1 \in DOMAIN refused /\ refused[i + 1].message = m
        BY <2>2, <4>1
      <4> QED
        BY <4>2 DEF Aside
    <3>3. Aside(e.message)
      <4>1. 1 \in DOMAIN refused /\ refused[1].message = e.message
        BY <2>2
      <4> QED
        BY <4>1 DEF Aside
    <3> QED
      BY <3>1, <3>2, <3>3
  <2>4. /\ \A i, j \in DOMAIN refused' : refused'[i].message = refused'[j].message => i = j
        /\ \A m : m = e.message => ~Aside(m)'
    <3>1. ASSUME NEW i \in DOMAIN refused', NEW j \in DOMAIN refused',
                 refused'[i].message = refused'[j].message
          PROVE  i = j
      <4>1. i + 1 \in DOMAIN refused /\ j + 1 \in DOMAIN refused
            /\ refused[i + 1].message = refused[j + 1].message
        BY <2>2, <3>1
      <4>2. i + 1 = j + 1
        BY <4>1 DEF ToldInTurn
      <4> QED
        BY <2>2, <4>2
    <3>2. ASSUME NEW i \in DOMAIN refused', refused'[i].message = e.message PROVE FALSE
      <4>1. i + 1 \in DOMAIN refused /\ 1 \in DOMAIN refused
            /\ refused[i + 1].message = refused[1].message
        BY <2>2, <3>2
      <4>2. i + 1 = 1
        BY <4>1 DEF ToldInTurn
      <4> QED
        BY <2>2, <4>2
    <3> QED
      BY <3>1, <3>2 DEF Aside
  <2>5. /\ e.message \in deferred /\ settled[e.message] = <<>> /\ e.message # task.message
        /\ task.message \in Steered => Len(settled[task.message]) = 1
    BY <1>t, <2>1, <2>2, <2>3 DEF ToldInTurn
  <2>6. CASE gaveUp
    <3>1. task'.at = "next" /\ Told(e.message, "failed")
      BY <1>6, <2>6 DEF TakeDeferred
    <3>2. Len(settled'[e.message]) = 1 /\ \A o \in Messages : o # e.message => settled'[o] = settled[o]
      BY <1>t, <2>2, <2>5, <3>1, ToldOnceMore
    <3>3. ASSUME NEW m \in Steered, Aside(m)'
          PROVE  m \in deferred /\ settled'[m] = <<>> /\ m # task'.message
      <4>1. Aside(m) /\ m # e.message
        BY <2>3, <2>4, <3>3
      <4>2. m \in deferred /\ settled[m] = <<>>
        BY <4>1 DEF ToldInTurn
      <4> QED
        BY <1>t, <2>1, <3>2, <4>1, <4>2
    <3>4. ASSUME NEW m \in Steered \ deferred
          PROVE  settled'[m] = <<>> /\ m # task'.message
      <4>1. settled[m] = <<>> /\ m # e.message
        BY <2>5 DEF ToldInTurn
      <4> QED
        BY <1>t, <2>1, <3>2, <4>1
    <3>5. ASSUME NEW m \in deferred
          PROVE  Aside(m)' \/ ((m = task'.message => task'.at \notin AtWork) /\ Len(settled'[m]) = 1)
      <4>1. CASE m = e.message
        BY <3>1, <3>2, <4>1
      <4>2. CASE m # e.message /\ Aside(m)
        BY <2>3, <4>2
      <4>3. CASE m # e.message /\ ~Aside(m)
        <5>1. Len(settled[m]) = 1
          BY <2>1, <4>3 DEF ToldInTurn
        <5> QED
          BY <1>t, <2>1, <3>2, <4>3, <5>1
      <4> QED
        BY <4>1, <4>2, <4>3
    <3> QED
      BY <2>1, <2>4, <3>1, <3>3, <3>4, <3>5 DEF ToldInTurn
  <2>7. CASE ~gaveUp
    <3>1. task'.at \in {"pick", "begin"} /\ UNCHANGED settled
      BY <1>6, <2>7 DEF TakeDeferred
    <3> QED
      BY <1>t, <2>1, <2>2, <2>3, <2>4, <2>5, <3>1 DEF ToldInTurn
  <2> QED
    BY <2>6, <2>7
<1>7. CASE TaskOver
  <2>1. /\ UNCHANGED <<refused, deferred, settled, heldWritten>> /\ task'.message = task.message
        /\ task.at = "next" /\ task'.at = "over" /\ refused = <<>>
    BY <1>t, <1>7 DEF TaskOver
  <2> QED
    BY <2>1 DEF ToldInTurn, Aside
<1>8. CASE DeadEnds \/ FlipLock \/ UNCHANGED failoverVars
  <2>1. UNCHANGED <<refused, deferred, settled, heldWritten, task>>
    BY <1>8 DEF DeadEnds, FlipLock, failoverVars
  <2> QED
    BY <2>1 DEF ToldInTurn, Aside
<1> QED
  BY <1>1, <1>2, <1>3, <1>4, <1>5, <1>6, <1>7, <1>8 DEF FailoverNext

(* A message deferred by a limit gets one delivery terminal, after all the  *)
(* turns it ran: never a failed that a later done contradicts.              *)
THEOREM DeferredAlwaysToldOnce == FailoverSpec => []DeferredToldOnce
<1>1. FailoverInit => ToldInTurn
  BY FailoverAssumption DEF FailoverInit, ToldInTurn, Aside, Messages, AtWork
<1>2. FailoverTypeOK /\ ToldInTurn /\ [FailoverNext]_failoverVars => ToldInTurn'
  BY ToldInTurnKept
<1>3. FailoverTypeOK /\ ToldInTurn => DeferredToldOnce
  <2> SUFFICES ASSUME FailoverTypeOK, ToldInTurn, NEW m \in deferred
      PROVE  Len(settled[m]) <= 1 /\ (task.at = "over" => Len(settled[m]) = 1)
    BY DEF DeferredToldOnce
  <2>1. m \in Steered
    BY DEF FailoverTypeOK
  <2>2. settled[m] = <<>> \/ Len(settled[m]) = 1
    BY <2>1 DEF ToldInTurn
  <2>3. task.at = "over" => ~Aside(m)
    BY DEF ToldInTurn, Aside
  <2>4. Len(settled[m]) <= 1
    <3>1. Len(<<>>) = 0
      OBVIOUS
    <3>2. CASE settled[m] = <<>>
      <4>1. Len(settled[m]) = 0
        BY <3>1, <3>2, Zenon
      <4> QED
        BY <4>1
    <3>3. CASE Len(settled[m]) = 1
      BY <3>3
    <3> QED
      BY <2>2, <3>2, <3>3
  <2>5. ASSUME task.at = "over" PROVE Len(settled[m]) = 1
    BY <2>3, <2>5 DEF ToldInTurn, AtWork
  <2> QED
    BY <2>4, <2>5
<1> QED
  BY <1>1, <1>2, <1>3, FailoverTypeCorrect, PTL DEF FailoverSpec

=============================================================================
