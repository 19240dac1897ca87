-------------------------- MODULE SessionIndexProofs --------------------------
(***************************************************************************)
(* What follows a session's record, for any values of the constants: its   *)
(* row in the index (SessionIndex), which never goes back and, while it is *)
(* stale, is owed an update or had one given up; the saves of a turn and   *)
(* its sub-agents (CoalescedSaves), which drop nothing untold; the output  *)
(* style (OutputStyle), which stays the last one set.                      *)
(*                                                                         *)
(* The row.                                                                *)
(* A projection is read and written in one hold of the index lock, so what *)
(* an update has read stays between the row and the record until it is     *)
(* written.  That needs the shape of a line: only its head can be past     *)
(* waiting, and then its process has the lock; a flush outside the line    *)
(* runs within the mark at the head.                                       *)
(***************************************************************************)
EXTENDS SessionIndex, CoalescedSaves, OutputStyle, SequenceTheorems, TLAPS

JobStages == {"none", "owed", "line", "read", "write", "held", "done"}
Held == {"read", "write", "held", "done"}

(* The head of a line is past waiting.                                     *)
HeadHeld(l, j) == l # <<>> /\ j[l[1]] \in Held

(* The line of a process and how far its jobs are.                         *)
LineSound(l, j) ==
  /\ \A a, b \in DOMAIN l : l[a] = l[b] => a = b
  /\ \A a \in DOMAIN l : a # 1 => j[l[a]] = "line"
  /\ l # <<>> => j[l[1]] \in {"line"} \cup Held
  /\ \A k \in Kinds : j[k] = "line" => \E a \in DOMAIN l : l[a] = k
  /\ j["overlay"] \in {"none", "owed", "line", "read", "write"}
  /\ j["mark"] \in {"none", "line", "held", "done"}
  /\ j["flush"] \in {"none", "line", "read", "write"}
  /\ j["overlay"] \in Held => l # <<>> /\ l[1] = "overlay"
  /\ j["mark"] \in Held => l # <<>> /\ l[1] = "mark"
  /\ j["flush"] \in Held
       => l # <<>> /\ (l[1] = "flush" \/ (l[1] = "mark" /\ j["mark"] \in Held))

LinesSound == \A p \in Processes : LineSound(line[p], job[p])
LockKept == \A p \in Processes : (lock = p) <=> HeadHeld(line[p], job[p])

(* Who runs a flush within a mark is inside flushDir.                      *)
NestedWanted ==
  \A p \in Processes : (job[p]["flush"] \in Held /\ line[p][1] = "mark") => wanted[p]

GoneIsEmpty ==
  \A p \in Processes : living[p] = "gone" =>
    dirtyEntry[p] = None /\ \A k \in Kinds : job[p][k] = "none"

RowBehind == \A f \in Fields : row[f] <= onDisk[f] /\ onDisk[f] <= writes

FreshBetween ==
  \A p \in Processes, k \in Kinds : job[p][k] = "write" =>
    \A f \in Fields : row[f] <= fresh[p][k][f] /\ fresh[p][k][f] <= onDisk[f]

(* The part of RowFollows that speaks of every state.                      *)
StaleIsOwed ==
  \A f \in Stale(row, onDisk) : f \in dropped \/ \E p \in Processes : Owes(p, f)

LockInv == IndexTypeOK /\ LinesSound /\ LockKept /\ NestedWanted
IndexInv == LockInv /\ GoneIsEmpty /\ RowBehind /\ FreshBetween /\ StaleIsOwed

-----------------------------------------------------------------------------
(* Lines *)

(* A job that has not begun to wait is not in its line.                    *)
LEMMA NotInLine ==
  ASSUME NEW l \in Seq(Kinds), NEW j \in [Kinds -> JobStages], LineSound(l, j),
         NEW k \in Kinds, j[k] \in {"none", "owed"}
  PROVE  \A a \in DOMAIN l : l[a] # k
<1> SUFFICES ASSUME NEW a \in DOMAIN l, l[a] = k PROVE FALSE
  OBVIOUS
<1>1. CASE a # 1
  BY <1>1 DEF LineSound
<1>2. CASE a = 1
  <2>1. l # <<>>
    OBVIOUS
  <2> QED
    BY <2>1, <1>2 DEF LineSound, Held
<1> QED
  BY <1>1, <1>2

(* A job past waiting that is in its line is its head.                     *)
LEMMA InLineIsHead ==
  ASSUME NEW l \in Seq(Kinds), NEW j \in [Kinds -> JobStages], LineSound(l, j),
         NEW a \in DOMAIN l, j[l[a]] \in Held
  PROVE  a = 1 /\ l # <<>> /\ HeadHeld(l, j)
<1>1. a = 1
  BY DEF LineSound, Held
<1>2. l # <<>>
  OBVIOUS
<1> QED
  BY <1>1, <1>2 DEF HeadHeld

(* A job past waiting that is not in its line is a flush within a mark.    *)
LEMMA OutOfLineIsNested ==
  ASSUME NEW l \in Seq(Kinds), NEW j \in [Kinds -> JobStages], LineSound(l, j),
         NEW k \in Kinds, j[k] \in Held, \A a \in DOMAIN l : l[a] # k
  PROVE  k = "flush" /\ l # <<>> /\ l[1] = "mark" /\ j["mark"] \in Held
<1>1. l # <<>> => 1 \in DOMAIN l
  OBVIOUS
<1> QED
  BY <1>1 DEF LineSound, Kinds

(* Whoever is past waiting has a head past waiting.                        *)
LEMMA HeldHasHead ==
  ASSUME NEW l \in Seq(Kinds), NEW j \in [Kinds -> JobStages], LineSound(l, j),
         NEW k \in Kinds, j[k] \in Held
  PROVE  HeadHeld(l, j)
BY DEF LineSound, HeadHeld, Kinds

(* Of the jobs that read and write the index one is under way.             *)
LEMMA OneUnderWay ==
  ASSUME NEW l \in Seq(Kinds), NEW j \in [Kinds -> JobStages], LineSound(l, j),
         NEW k \in Kinds, NEW m \in Kinds,
         j[k] \in {"read", "write"}, j[m] \in {"read", "write"}
  PROVE  k = m
BY DEF LineSound, Kinds, Held

(* A job goes to the end of its line.                                      *)
LEMMA JoinSound ==
  ASSUME NEW l \in Seq(Kinds), NEW j \in [Kinds -> JobStages], LineSound(l, j),
         NEW k \in Kinds, j[k] \in {"none", "owed"}
  PROVE  /\ LineSound(Append(l, k), [j EXCEPT ![k] = "line"])
         /\ HeadHeld(Append(l, k), [j EXCEPT ![k] = "line"]) <=> HeadHeld(l, j)
         /\ l # <<>> => Append(l, k)[1] = l[1]
         /\ l = <<>> => Append(l, k)[1] = k
<1> DEFINE n == Append(l, k)
           i == [j EXCEPT ![k] = "line"]
<1>1. \A a \in DOMAIN l : l[a] # k
  BY NotInLine
<1>2. /\ n \in Seq(Kinds) /\ Len(n) = Len(l) + 1 /\ n[Len(n)] = k /\ n # <<>>
      /\ \A a \in 1 .. Len(l) : n[a] = l[a]
  OBVIOUS
<1>3. Len(l) \in Nat /\ DOMAIN l = 1 .. Len(l) /\ DOMAIN n = 1 .. Len(n)
  BY <1>2
<1>4. i[k] = "line" /\ \A m \in Kinds : m # k => i[m] = j[m]
  OBVIOUS
<1>5. \A a \in DOMAIN n : a \in DOMAIN l \/ (a = Len(n) /\ n[a] = k)
  BY <1>2, <1>3
<1>6. l # <<>> => 1 \in DOMAIN l /\ n[1] = l[1] /\ l[1] \in Kinds /\ l[1] # k
  BY <1>1, <1>2, <1>3
<1>7. l = <<>> => n[1] = k
  BY <1>2
<1> HIDE DEF n, i
<1>8. \A a, b \in DOMAIN n : n[a] = n[b] => a = b
  <2> SUFFICES ASSUME NEW a \in DOMAIN n, NEW b \in DOMAIN n, n[a] = n[b] PROVE a = b
    OBVIOUS
  <2>1. CASE a \in DOMAIN l /\ b \in DOMAIN l
    BY <2>1, <1>2, <1>3 DEF LineSound
  <2>2. CASE a \in DOMAIN l /\ b = Len(n)
    BY <2>2, <1>1, <1>2, <1>3
  <2>3. CASE a = Len(n) /\ b \in DOMAIN l
    BY <2>3, <1>1, <1>2, <1>3
  <2> QED
    BY <2>1, <2>2, <2>3, <1>5
<1>9. \A a \in DOMAIN n : a # 1 => i[n[a]] = "line"
  <2> SUFFICES ASSUME NEW a \in DOMAIN n, a # 1 PROVE i[n[a]] = "line"
    OBVIOUS
  <2>1. CASE a \in DOMAIN l
    <3>1. n[a] = l[a] /\ l[a] \in Kinds /\ l[a] # k
      BY <2>1, <1>1, <1>2, <1>3
    <3> QED
      BY <2>1, <3>1, <1>4 DEF LineSound
  <2> QED
    BY <2>1, <1>4, <1>5
<1>10. \A m \in Kinds : i[m] = "line" => \E a \in DOMAIN n : n[a] = m
  <2> SUFFICES ASSUME NEW m \in Kinds, i[m] = "line" PROVE \E a \in DOMAIN n : n[a] = m
    OBVIOUS
  <2>1. CASE m = k
    BY <2>1, <1>2, <1>3
  <2>2. CASE m # k
    <3>1. PICK a \in DOMAIN l : l[a] = m
      BY <2>2, <1>4 DEF LineSound
    <3> QED
      BY <3>1, <1>2, <1>3
  <2> QED
    BY <2>1, <2>2
<1>11. HeadHeld(n, i) <=> HeadHeld(l, j)
  BY <1>2, <1>4, <1>6, <1>7 DEF HeadHeld, Held
<1>12. n # <<>> => i[n[1]] \in {"line"} \cup Held
  BY <1>2, <1>4, <1>6, <1>7 DEF LineSound
<1>13. /\ i["overlay"] \in {"none", "owed", "line", "read", "write"}
       /\ i["mark"] \in {"none", "line", "held", "done"}
       /\ i["flush"] \in {"none", "line", "read", "write"}
  BY <1>4 DEF LineSound, Kinds
<1>14. \A m \in Kinds : i[m] \in Held => m # k /\ j[m] \in Held /\ i[m] = j[m]
  BY <1>4 DEF Held
<1>15. /\ i["overlay"] \in Held => n # <<>> /\ n[1] = "overlay"
       /\ i["mark"] \in Held => n # <<>> /\ n[1] = "mark"
  BY <1>2, <1>6, <1>14 DEF LineSound, Kinds
<1>16. i["flush"] \in Held
         => n # <<>> /\ (n[1] = "flush" \/ (n[1] = "mark" /\ i["mark"] \in Held))
  <2> SUFFICES ASSUME i["flush"] \in Held
               PROVE  n # <<>> /\ (n[1] = "flush" \/ (n[1] = "mark" /\ i["mark"] \in Held))
    OBVIOUS
  <2>1. j["flush"] \in Held
    BY <1>14 DEF Kinds
  <2>2. l # <<>> /\ (l[1] = "flush" \/ (l[1] = "mark" /\ j["mark"] \in Held))
    BY <2>1 DEF LineSound
  <2>3. n[1] = l[1] /\ l[1] # k
    BY <2>2, <1>6
  <2> QED
    BY <1>2, <1>4, <2>2, <2>3 DEF Kinds
<1>17. LineSound(n, i)
  BY <1>8, <1>9, <1>10, <1>12, <1>13, <1>15, <1>16 DEF LineSound
<1> QED
  BY <1>6, <1>7, <1>11, <1>17 DEF n, i

(* The head of a line takes the lock.                                      *)
LEMMA TakeSound ==
  ASSUME NEW l \in Seq(Kinds), NEW j \in [Kinds -> JobStages], LineSound(l, j),
         NEW k \in Kinds, l # <<>>, l[1] = k, j[k] = "line",
         NEW s, s = IF k = "mark" THEN "held" ELSE "read"
  PROVE  /\ LineSound(l, [j EXCEPT ![k] = s])
         /\ HeadHeld(l, [j EXCEPT ![k] = s])
<1> DEFINE i == [j EXCEPT ![k] = s]
<1>1. i[k] = s /\ s \in Held /\ \A m \in Kinds : m # k => i[m] = j[m]
  BY DEF Held
<1>2. 1 \in DOMAIN l /\ \A a \in DOMAIN l : l[a] \in Kinds /\ (a # 1 => l[a] # k)
  BY DEF LineSound
<1>3. \A m \in Kinds : j[m] \notin Held
  BY DEF LineSound, Kinds, Held
<1> HIDE DEF i
<1>4. \A a \in DOMAIN l : a # 1 => i[l[a]] = "line"
  BY <1>1, <1>2 DEF LineSound
<1>5. \A m \in Kinds : i[m] = "line" => \E a \in DOMAIN l : l[a] = m
  BY <1>1, <1>2 DEF LineSound
<1>6. /\ i["overlay"] \in {"none", "owed", "line", "read", "write"}
      /\ i["mark"] \in {"none", "line", "held", "done"}
      /\ i["flush"] \in {"none", "line", "read", "write"}
  BY <1>1 DEF LineSound, Kinds
<1>7. \A m \in Kinds : i[m] \in Held => m = k
  BY <1>1, <1>3
<1>8. LineSound(l, i)
  BY <1>1, <1>4, <1>5, <1>6, <1>7 DEF LineSound, Kinds
<1> QED
  BY <1>1, <1>8 DEF HeadHeld, i

(* The head leaves its line.                                               *)
LEMMA LeaveSound ==
  ASSUME NEW l \in Seq(Kinds), NEW j \in [Kinds -> JobStages], LineSound(l, j),
         NEW k \in Kinds, l # <<>>, l[1] = k,
         k = "mark" => j["flush"] \notin Held
  PROVE  /\ LineSound(Tail(l), [j EXCEPT ![k] = "none"])
         /\ ~HeadHeld(Tail(l), [j EXCEPT ![k] = "none"])
<1> DEFINE i == [j EXCEPT ![k] = "none"]
           n == Tail(l)
<1>1. i[k] = "none" /\ \A m \in Kinds : m # k => i[m] = j[m]
  OBVIOUS
<1>2. /\ Len(l) \in Nat /\ DOMAIN l = 1 .. Len(l) /\ Len(l) >= 1
      /\ n \in Seq(Kinds) /\ DOMAIN n = 1 .. (Len(l) - 1)
      /\ \A a \in DOMAIN n : n[a] = l[a + 1]
      /\ n # <<>> => 1 \in DOMAIN n
  OBVIOUS
<1>3. \A a \in DOMAIN n : a + 1 \in DOMAIN l /\ a + 1 # 1
  BY <1>2
<1>4. \A a \in DOMAIN l : a # 1 => l[a] # k /\ l[a] \in Kinds
  BY <1>2 DEF LineSound
<1>5. \A m \in Kinds : i[m] \notin Held
  BY <1>1 DEF LineSound, Kinds, Held
<1> HIDE DEF i, n
<1>6. \A a \in DOMAIN n : i[n[a]] = "line"
  <2> SUFFICES ASSUME NEW a \in DOMAIN n PROVE i[n[a]] = "line"
    OBVIOUS
  <2>1. n[a] = l[a + 1] /\ l[a + 1] # k /\ l[a + 1] \in Kinds /\ j[l[a + 1]] = "line"
    BY <1>2, <1>3, <1>4 DEF LineSound
  <2> QED
    BY <2>1, <1>1
<1>7. \A a, b \in DOMAIN n : n[a] = n[b] => a = b
  <2> SUFFICES ASSUME NEW a \in DOMAIN n, NEW b \in DOMAIN n, n[a] = n[b] PROVE a = b
    OBVIOUS
  <2>1. a + 1 \in DOMAIN l /\ b + 1 \in DOMAIN l /\ l[a + 1] = l[b + 1]
    BY <1>2, <1>3
  <2>2. a + 1 = b + 1
    BY <2>1 DEF LineSound
  <2> QED
    BY <2>2, <1>2
<1>8. \A m \in Kinds : i[m] = "line" => \E a \in DOMAIN n : n[a] = m
  <2> SUFFICES ASSUME NEW m \in Kinds, i[m] = "line" PROVE \E a \in DOMAIN n : n[a] = m
    OBVIOUS
  <2>1. m # k /\ j[m] = "line"
    BY <1>1
  <2>2. PICK a \in DOMAIN l : l[a] = m
    BY <2>1 DEF LineSound
  <2>3. a # 1
    BY <2>1, <2>2
  <2>4. a - 1 \in DOMAIN n /\ (a - 1) + 1 = a
    BY <2>2, <2>3, <1>2
  <2>5. n[a - 1] = l[a]
    BY <2>4, <1>2
  <2> QED
    BY <2>2, <2>4, <2>5
<1>9. /\ i["overlay"] \in {"none", "owed", "line", "read", "write"}
      /\ i["mark"] \in {"none", "line", "held", "done"}
      /\ i["flush"] \in {"none", "line", "read", "write"}
  BY <1>1 DEF LineSound, Kinds
<1>10. n # <<>> => i[n[1]] = "line"
  BY <1>2, <1>6
<1>11. LineSound(n, i)
  BY <1>5, <1>6, <1>7, <1>8, <1>9, <1>10 DEF LineSound, Kinds
<1> QED
  BY <1>10, <1>11 DEF HeadHeld, Held, i, n

(* A job that goes on within its hold.                                     *)
LEMMA GoOnSound ==
  ASSUME NEW l \in Seq(Kinds), NEW j \in [Kinds -> JobStages], LineSound(l, j),
         NEW k \in Kinds, NEW s,
         \/ k # "mark" /\ j[k] = "read" /\ s = "write"
         \/ k = "mark" /\ j[k] = "held" /\ s = "done"
  PROVE  /\ LineSound(l, [j EXCEPT ![k] = s])
         /\ HeadHeld(l, [j EXCEPT ![k] = s])
<1> DEFINE i == [j EXCEPT ![k] = s]
<1>1. i[k] = s /\ s \in Held /\ j[k] \in Held /\ s # "line" /\ \A m \in Kinds : m # k => i[m] = j[m]
  BY DEF Held
<1>2. l # <<>> /\ l[1] \in Kinds /\ j[l[1]] \in Held
  BY <1>1, HeldHasHead DEF HeadHeld
<1>3. \A a \in DOMAIN l : l[a] \in Kinds
  OBVIOUS
<1> HIDE DEF i
<1>4. \A a \in DOMAIN l : a # 1 => i[l[a]] = "line"
  <2> SUFFICES ASSUME NEW a \in DOMAIN l, a # 1 PROVE i[l[a]] = "line"
    OBVIOUS
  <2>1. j[l[a]] = "line"
    BY DEF LineSound
  <2> QED
    BY <2>1, <1>1, <1>3
<1>5. \A m \in Kinds : i[m] = "line" => \E a \in DOMAIN l : l[a] = m
  BY <1>1 DEF LineSound
<1>6. /\ i["overlay"] \in {"none", "owed", "line", "read", "write"}
      /\ i["mark"] \in {"none", "line", "held", "done"}
      /\ i["flush"] \in {"none", "line", "read", "write"}
  BY <1>1 DEF LineSound, Kinds
<1>7. \A m \in Kinds : i[m] \in Held <=> j[m] \in Held
  BY <1>1
<1>8. LineSound(l, i)
  BY <1>2, <1>4, <1>5, <1>6, <1>7 DEF LineSound, Kinds
<1> QED
  BY <1>2, <1>7, <1>8 DEF HeadHeld, i

(* A flush begins within a mark.                                           *)
LEMMA NestSound ==
  ASSUME NEW l \in Seq(Kinds), NEW j \in [Kinds -> JobStages], LineSound(l, j),
         j["mark"] \in Held, j["flush"] = "none"
  PROVE  /\ LineSound(l, [j EXCEPT !["flush"] = "read"])
         /\ HeadHeld(l, [j EXCEPT !["flush"] = "read"])
<1> DEFINE i == [j EXCEPT !["flush"] = "read"]
<1>1. i["flush"] = "read" /\ i["mark"] = j["mark"] /\ i["overlay"] = j["overlay"]
  BY DEF Kinds
<1>2. l # <<>> /\ l[1] = "mark"
  BY DEF LineSound
<1>3. \A a \in DOMAIN l : l[a] \in Kinds /\ l[a] # "flush"
  BY NotInLine DEF Kinds
<1> HIDE DEF i
<1>4. \A m \in Kinds : m # "flush" => i[m] = j[m]
  BY <1>1 DEF Kinds
<1>5. LineSound(l, i)
  BY <1>1, <1>2, <1>3, <1>4 DEF LineSound, Kinds, Held
<1> QED
  BY <1>1, <1>2, <1>5 DEF HeadHeld, i

(* A flush within a mark ends, and the mark goes on or gives up.           *)
LEMMA UnnestSound ==
  ASSUME NEW l \in Seq(Kinds), NEW j \in [Kinds -> JobStages], LineSound(l, j),
         l[1] = "mark", l # <<>>, j["mark"] \in Held,
         NEW i \in [Kinds -> JobStages], i["flush"] = "none",
         i["mark"] \in {j["mark"], "done"}, i["overlay"] = j["overlay"],
         \A a \in DOMAIN l : l[a] # "flush"
  PROVE  LineSound(l, i) /\ HeadHeld(l, i)
<1>1. i["mark"] \in Held /\ i["mark"] \in {"none", "line", "held", "done"} /\ i["mark"] # "line" /\ j["mark"] # "line"
  BY DEF LineSound, Held
<1>2. \A a \in DOMAIN l : a # 1 => l[a] = "overlay"
  <2> SUFFICES ASSUME NEW a \in DOMAIN l, a # 1 PROVE l[a] = "overlay"
    OBVIOUS
  <2>1. 1 \in DOMAIN l /\ l[a] \in Kinds /\ l[a] # l[1]
    BY DEF LineSound
  <2> QED
    BY <2>1 DEF Kinds
<1>3. \A a \in DOMAIN l : a # 1 => i[l[a]] = "line"
  BY <1>2 DEF LineSound
<1>4. \A m \in Kinds : i[m] = "line" => \E a \in DOMAIN l : l[a] = m
  BY <1>1 DEF LineSound, Kinds
<1>5. i["overlay"] \notin Held
  BY DEF LineSound
<1>6. LineSound(l, i)
  BY <1>1, <1>3, <1>4, <1>5 DEF LineSound, Held
<1> QED
  BY <1>1, <1>6 DEF HeadHeld

(* A re-parent is owed its overlay.                                        *)
LEMMA OweSound ==
  ASSUME NEW l \in Seq(Kinds), NEW j \in [Kinds -> JobStages], LineSound(l, j),
         j["overlay"] = "none"
  PROVE  /\ LineSound(l, [j EXCEPT !["overlay"] = "owed"])
         /\ HeadHeld(l, [j EXCEPT !["overlay"] = "owed"]) <=> HeadHeld(l, j)
<1> DEFINE i == [j EXCEPT !["overlay"] = "owed"]
<1>1. i["overlay"] = "owed" /\ i["mark"] = j["mark"] /\ i["flush"] = j["flush"]
  BY DEF Kinds
<1>2. \A a \in DOMAIN l : l[a] \in Kinds /\ l[a] # "overlay"
  BY NotInLine DEF Kinds
<1>3. l # <<>> => 1 \in DOMAIN l
  OBVIOUS
<1> HIDE DEF i
<1>4. \A m \in Kinds : m # "overlay" => i[m] = j[m]
  BY <1>1 DEF Kinds
<1>5. LineSound(l, i)
  BY <1>1, <1>2, <1>3, <1>4 DEF LineSound, Kinds, Held
<1> QED
  BY <1>2, <1>3, <1>4, <1>5 DEF HeadHeld, i

-----------------------------------------------------------------------------
(* Type correctness *)

(* A write of the record gives each group it changes its number.           *)
LEMMA WrittenTyped ==
  ASSUME IndexTypeOK, NEW changed, Written(changed)
  PROVE  onDisk' \in Row /\ writes' \in 0 .. MaxWrites /\ writes' = writes + 1
<1>1. writes + 1 \in 0 .. MaxWrites
  BY IndexAssumption DEF IndexTypeOK, Written
<1>2. \A f \in Fields : (IF f \in changed THEN writes + 1 ELSE onDisk[f]) \in 0 .. MaxWrites
  BY <1>1 DEF IndexTypeOK, Row
<1> QED
  BY <1>1, <1>2 DEF Written, Row

(* A row is no missing entry.                                              *)
LEMMA RowIsEntry == \A r \in Row : r # None
BY IndexAssumption DEF Row

(* The line and the jobs of a process stay typed as it leaves the line.    *)
LEMMA LeavesTyped ==
  ASSUME IndexTypeOK, NEW p \in Processes, NEW k \in Kinds, Leaves(p, k)
  PROVE  /\ line' \in [Processes -> Seq(Kinds)]
         /\ job' \in [Processes -> [Kinds -> JobStages]]
         /\ fresh' \in [Processes -> [Kinds -> Row]]
         /\ lock' \in Processes \cup {None, Others} /\ holds' = holds
<1>1. Blank \in Row
  BY IndexAssumption DEF Blank, Row
<1>2. job' \in [Processes -> [Kinds -> JobStages]]
  BY DEF IndexTypeOK, Leaves, To, JobStages
<1>3. fresh' \in [Processes -> [Kinds -> Row]]
  BY <1>1 DEF IndexTypeOK, Leaves
<1>4. /\ line' \in [Processes -> Seq(Kinds)]
      /\ lock' \in Processes \cup {None, Others} /\ holds' = holds
  <2>1. CASE InLine(p, k)
    <3>1. line[p] \in Seq(Kinds) /\ line[p] # <<>>
      BY <2>1 DEF IndexTypeOK, InLine, ToSet
    <3>2. Tail(line[p]) \in Seq(Kinds)
      BY <3>1
    <3> QED
      BY <2>1, <3>2 DEF IndexTypeOK, Leaves
  <2>2. CASE ~InLine(p, k)
    BY <2>2 DEF IndexTypeOK, Leaves, locking
  <2> QED
    BY <2>1, <2>2
<1> QED
  BY <1>2, <1>3, <1>4

LEMMA TakesPendingTyped ==
  ASSUME IndexTypeOK, NEW p \in Processes, TakesPending(p)
  PROVE  /\ dirtyEntry' \in [Processes -> Row \cup {None}]
         /\ flushTimer' \in [Processes -> BOOLEAN]
         /\ fresh' \in [Processes -> [Kinds -> Row]]
<1>1. dirtyEntry[p] \in Row
  BY DEF IndexTypeOK, TakesPending
<1> QED
  BY <1>1 DEF IndexTypeOK, TakesPending

LEMMA EntersTyped ==
  ASSUME IndexTypeOK, NEW p \in Processes, NEW k \in Kinds, Enters(p, k)
  PROVE  line' \in [Processes -> Seq(Kinds)]
<1>1. Append(line[p], k) \in Seq(Kinds)
  BY DEF IndexTypeOK
<1> QED
  BY <1>1 DEF IndexTypeOK, Enters

LEMMA TypeBegins == IndexInit => IndexTypeOK
<1>1. Blank \in Row
  BY IndexAssumption DEF Blank, Row
<1>2. <<>> \in Seq(Kinds) /\ 0 \in 0 .. MaxWrites /\ 0 \in 0 .. MaxHolds
  BY IndexAssumption
<1> QED
  BY <1>1, <1>2 DEF IndexInit, IndexTypeOK

(* Every step keeps the state well formed.                                 *)
LEMMA TypeSteps == IndexTypeOK /\ [IndexNext]_indexVars => IndexTypeOK'
<1> SUFFICES ASSUME IndexTypeOK, [IndexNext]_indexVars PROVE IndexTypeOK'
  OBVIOUS
<1>1. Blank \in Row
  BY IndexAssumption DEF Blank, Row
<1> USE DEF queue, locking
<1>2. CASE UNCHANGED indexVars
  BY <1>2 DEF IndexTypeOK, indexVars
<1>3. ASSUME NEW p \in Processes, NEW changed \in SUBSET Fields, WriteRecord(p, changed) PROVE IndexTypeOK'
  <2>1. onDisk' \in Row /\ writes' \in 0 .. MaxWrites
    BY <1>3, WrittenTyped DEF WriteRecord
  <2>2. dirtyEntry' \in [Processes -> Row \cup {None}]
    BY <1>3, <2>1 DEF WriteRecord, IndexTypeOK
  <2>3. wanted' \in [Processes -> BOOLEAN] /\ flushTimer' \in [Processes -> BOOLEAN]
    BY <1>3 DEF WriteRecord, FlushNow, IndexTypeOK
  <2> QED
    BY <1>3, <2>1, <2>2, <2>3 DEF WriteRecord, IndexTypeOK
<1>4. ASSUME NEW p \in Processes, NEW changed \in SUBSET Fields, MarkWrites(p, changed) PROVE IndexTypeOK'
  <2>1. onDisk' \in Row /\ writes' \in 0 .. MaxWrites
    BY <1>4, WrittenTyped DEF MarkWrites
  <2>2. dirtyEntry' \in [Processes -> Row \cup {None}]
    BY <1>4, <2>1 DEF MarkWrites, IndexTypeOK
  <2>3. wanted' \in [Processes -> BOOLEAN] /\ flushTimer' \in [Processes -> BOOLEAN]
    BY <1>4 DEF MarkWrites, FlushNow, IndexTypeOK
  <2>4. job' \in [Processes -> [Kinds -> JobStages]]
    BY <1>4 DEF MarkWrites, To, IndexTypeOK, JobStages
  <2> QED
    BY <1>4, <2>1, <2>2, <2>3, <2>4 DEF MarkWrites, IndexTypeOK, JobStages
<1>5. ASSUME NEW p \in Processes, MoveRecord(p) PROVE IndexTypeOK'
  <2>1. onDisk' \in Row /\ writes' \in 0 .. MaxWrites
    BY <1>5, WrittenTyped DEF MoveRecord
  <2>2. job' \in [Processes -> [Kinds -> JobStages]]
    BY <1>5 DEF MoveRecord, To, IndexTypeOK, JobStages
  <2> QED
    BY <1>5, <2>1, <2>2 DEF MoveRecord, IndexTypeOK, JobStages
<1>6. ASSUME NEW p \in Processes, Mark(p) PROVE IndexTypeOK'
  <2>1. job' \in [Processes -> [Kinds -> JobStages]]
    BY <1>6 DEF Mark, To, IndexTypeOK, JobStages
  <2>2. line' \in [Processes -> Seq(Kinds)]
    BY <1>6, EntersTyped DEF Mark, Kinds
  <2> QED
    BY <1>6, <2>1, <2>2 DEF Mark, IndexTypeOK, JobStages
<1>7. ASSUME NEW p \in Processes, Overlay(p) PROVE IndexTypeOK'
  <2>1. job' \in [Processes -> [Kinds -> JobStages]]
    BY <1>7 DEF Overlay, To, IndexTypeOK, JobStages
  <2>2. line' \in [Processes -> Seq(Kinds)]
    BY <1>7, EntersTyped DEF Overlay, Kinds
  <2> QED
    BY <1>7, <2>1, <2>2 DEF Overlay, IndexTypeOK, JobStages
<1>8. ASSUME NEW p \in Processes, JoinsLine(p), wanted' \in [Processes -> BOOLEAN] PROVE IndexTypeOK'
  <2>1. job' \in [Processes -> [Kinds -> JobStages]]
    BY <1>8 DEF JoinsLine, To, IndexTypeOK, JobStages
  <2>2. line' \in [Processes -> Seq(Kinds)]
    BY <1>8, EntersTyped DEF JoinsLine, Kinds
  <2>3. TakesPending(p)
    BY <1>8 DEF JoinsLine
  <2>4. /\ dirtyEntry' \in [Processes -> Row \cup {None}]
        /\ flushTimer' \in [Processes -> BOOLEAN]
        /\ fresh' \in [Processes -> [Kinds -> Row]]
    BY <2>3, TakesPendingTyped
  <2> QED
    BY <1>8, <2>1, <2>2, <2>3, <2>4 DEF TakesPending, IndexTypeOK, JobStages
<1>9. ASSUME NEW p \in Processes, FlushTimerFires(p) PROVE IndexTypeOK'
  <2>1. wanted' \in [Processes -> BOOLEAN] /\ flushTimer' \in [Processes -> BOOLEAN]
    BY <1>9 DEF FlushTimerFires, FlushNow, IndexTypeOK
  <2>2. CASE JoinsLine(p)
    BY <2>1, <2>2, <1>8
  <2>3. CASE ~JoinsLine(p)
    BY <1>9, <2>1, <2>3 DEF FlushTimerFires, IndexTypeOK
  <2> QED
    BY <2>2, <2>3
<1>10. ASSUME NEW p \in Processes, StartFlush(p) PROVE IndexTypeOK'
  <2>1. wanted' \in [Processes -> BOOLEAN] /\ wanted' = wanted
    BY <1>10 DEF StartFlush, IndexTypeOK
  <2>2. CASE Within(p)
    <3>1. TakesPending(p) /\ To(p, "flush", "read") /\ line' = line
      BY <1>10, <2>2 DEF StartFlush
    <3>2. job' \in [Processes -> [Kinds -> JobStages]]
      BY <3>1 DEF To, IndexTypeOK, JobStages
    <3>3. /\ dirtyEntry' \in [Processes -> Row \cup {None}]
          /\ flushTimer' \in [Processes -> BOOLEAN]
          /\ fresh' \in [Processes -> [Kinds -> Row]]
      BY <3>1, TakesPendingTyped
    <3> QED
      BY <2>1, <3>1, <3>2, <3>3 DEF TakesPending, IndexTypeOK, JobStages
  <2>3. CASE ~Within(p)
    BY <1>8, <1>10, <2>1, <2>3 DEF StartFlush
  <2> QED
    BY <2>2, <2>3
<1>11. ASSUME NEW p \in Processes, MarkLoads(p) PROVE IndexTypeOK'
  BY <1>11 DEF MarkLoads, FlushNow, IndexTypeOK
<1>12. ASSUME NEW p \in Processes, Exits(p)
       PROVE  /\ living' \in [Processes -> {"running", "leaving", "gone"}]
              /\ wanted' \in [Processes -> BOOLEAN]
  BY <1>12 DEF Exits, IndexTypeOK
<1>13. ASSUME NEW p \in Processes, MarkEnds(p) PROVE IndexTypeOK'
  <2>1. Leaves(p, "mark") /\ Exits(p)
    BY <1>13 DEF MarkEnds
  <2>2. /\ line' \in [Processes -> Seq(Kinds)]
        /\ job' \in [Processes -> [Kinds -> JobStages]]
        /\ fresh' \in [Processes -> [Kinds -> Row]]
        /\ lock' \in Processes \cup {None, Others} /\ holds' = holds
    BY <2>1, LeavesTyped DEF Kinds
  <2> QED
    BY <1>12, <1>13, <2>1, <2>2 DEF MarkEnds, Exits, IndexTypeOK, JobStages
<1>14. ASSUME NEW p \in Processes, Departed(p) PROVE IndexTypeOK'
  <2>1. /\ living' \in [Processes -> {"running", "leaving", "gone"}]
        /\ dirtyEntry' \in [Processes -> Row \cup {None}]
        /\ flushTimer' \in [Processes -> BOOLEAN] /\ wanted' \in [Processes -> BOOLEAN]
    BY <1>14 DEF Departed, IndexTypeOK
  <2>2. <<>> \in Seq(Kinds)
    OBVIOUS
  <2>3. line' \in [Processes -> Seq(Kinds)]
    BY <1>14, <2>2 DEF Departed, IndexTypeOK
  <2>4. job' \in [Processes -> [Kinds -> JobStages]] /\ fresh' \in [Processes -> [Kinds -> Row]]
    BY <1>1, <1>14 DEF Departed, IndexTypeOK, JobStages
  <2>5. dropped' \subseteq Fields /\ lock' \in Processes \cup {None, Others}
    BY <1>14 DEF Departed, Stale, IndexTypeOK
  <2> QED
    BY <1>14, <2>1, <2>3, <2>4, <2>5 DEF Departed, IndexTypeOK, JobStages
<1>15. ASSUME NEW p \in Processes, NEW k \in Kinds, ReadRecord(p, k) PROVE IndexTypeOK'
  <2>1. job' \in [Processes -> [Kinds -> JobStages]]
    BY <1>15 DEF ReadRecord, To, IndexTypeOK, JobStages
  <2>2. fresh' \in [Processes -> [Kinds -> Row]]
    BY <1>15 DEF ReadRecord, IndexTypeOK
  <2> QED
    BY <1>15, <2>1, <2>2 DEF ReadRecord, IndexTypeOK, JobStages
<1>16. ASSUME NEW p \in Processes, NEW k \in Kinds, WriteIndex(p, k) PROVE IndexTypeOK'
  <2>1. Leaves(p, k)
    BY <1>16 DEF WriteIndex
  <2>2. /\ line' \in [Processes -> Seq(Kinds)]
        /\ job' \in [Processes -> [Kinds -> JobStages]]
        /\ fresh' \in [Processes -> [Kinds -> Row]]
        /\ lock' \in Processes \cup {None, Others} /\ holds' = holds
    BY <2>1, LeavesTyped
  <2>3. fresh[p][k] \in Row
    BY DEF IndexTypeOK
  <2>4. \A f \in Fields :
          (IF f \in Covered(k) THEN fresh[p][k][f] ELSE row[f]) \in 0 .. MaxWrites
    BY <2>3 DEF IndexTypeOK, Row
  <2>5. row' \in Row
    BY <1>16, <2>4 DEF WriteIndex, Row
  <2>6. /\ wanted' \in [Processes -> BOOLEAN] /\ known' \in [Processes -> BOOLEAN]
        /\ dropped' \subseteq Fields
    BY <1>16 DEF WriteIndex, IndexTypeOK
  <2> QED
    BY <1>16, <2>2, <2>5, <2>6 DEF WriteIndex, IndexTypeOK, JobStages
<1>17. ASSUME NEW p \in Processes, Leave(p) PROVE IndexTypeOK'
  BY <1>12, <1>17 DEF Leave, Exits, IndexTypeOK
<1>18. ASSUME NEW p \in Processes, NEW k \in Kinds, TakeLock(p, k) PROVE IndexTypeOK'
  <2>1. job' \in [Processes -> [Kinds -> JobStages]]
    BY <1>18 DEF TakeLock, To, IndexTypeOK, JobStages
  <2> QED
    BY <1>18, <2>1 DEF TakeLock, IndexTypeOK, JobStages
<1>19. ASSUME NEW p \in Processes, NEW k \in Kinds, LockTimeout(p, k) PROVE IndexTypeOK'
  <2>1. Leaves(p, k) /\ UNCHANGED <<onDisk, row, writes>>
    BY <1>19 DEF LockTimeout
  <2>2. /\ line' \in [Processes -> Seq(Kinds)]
        /\ job' \in [Processes -> [Kinds -> JobStages]]
        /\ fresh' \in [Processes -> [Kinds -> Row]]
        /\ lock' \in Processes \cup {None, Others} /\ holds' = holds
    BY <2>1, LeavesTyped
  <2>3. CASE k = "flush" /\ Deferred(p, k)
    <3>1. fresh[p][k] \in Row
      BY DEF IndexTypeOK
    <3>2. dirtyEntry' \in [Processes -> Row \cup {None}]
      BY <2>3, <3>1 DEF Deferred, IndexTypeOK
    <3>3. flushTimer' \in [Processes -> BOOLEAN] /\ wanted' \in [Processes -> BOOLEAN]
      BY <2>3 DEF Deferred, IndexTypeOK
    <3> QED
      BY <2>1, <2>2, <2>3, <3>2, <3>3 DEF Deferred, IndexTypeOK, JobStages
  <2>4. CASE /\ k = "overlay"
             /\ dropped' = dropped \cup (Linkage \cap Stale(row, onDisk))
             /\ UNCHANGED <<queue, living>>
    BY <2>1, <2>2, <2>4 DEF Stale, IndexTypeOK, JobStages
  <2>5. CASE k = "mark" /\ Exits(p) /\ UNCHANGED dropped
    BY <1>12, <2>1, <2>2, <2>5 DEF Exits, IndexTypeOK, JobStages
  <2> QED
    BY <1>19, <2>3, <2>4, <2>5 DEF LockTimeout
<1>20. ASSUME NEW p \in Processes, NEW k \in Kinds, UpdateFails(p, k) PROVE IndexTypeOK'
  <2>1. /\ wanted' \in [Processes -> BOOLEAN] /\ dropped' \subseteq Fields
    BY <1>20 DEF UpdateFails, Stale, IndexTypeOK
  <2>2. CASE InLine(p, k)
    <3>1. Leaves(p, k)
      BY <1>20, <2>2 DEF UpdateFails
    <3>2. /\ line' \in [Processes -> Seq(Kinds)]
          /\ job' \in [Processes -> [Kinds -> JobStages]]
          /\ fresh' \in [Processes -> [Kinds -> Row]]
          /\ lock' \in Processes \cup {None, Others} /\ holds' = holds
      BY <3>1, LeavesTyped
    <3> QED
      BY <1>20, <2>1, <3>2 DEF UpdateFails, IndexTypeOK, JobStages
  <2>3. CASE ~InLine(p, k)
    <3>1. /\ job' = [job EXCEPT ![p][k] = "none", ![p]["mark"] = "done"]
          /\ fresh' = [fresh EXCEPT ![p][k] = Blank]
          /\ UNCHANGED locking
      BY <1>20, <2>3 DEF UpdateFails
    <3>2. job' \in [Processes -> [Kinds -> JobStages]]
      BY <3>1 DEF IndexTypeOK, JobStages
    <3>3. fresh' \in [Processes -> [Kinds -> Row]]
      BY <1>1, <3>1 DEF IndexTypeOK
    <3> QED
      BY <1>20, <2>1, <3>1, <3>2, <3>3 DEF UpdateFails, IndexTypeOK, JobStages
  <2> QED
    BY <2>2, <2>3
<1>21. CASE OthersTake
  BY <1>21, IndexAssumption DEF OthersTake, IndexTypeOK
<1>22. CASE OthersRelease
  BY <1>22 DEF OthersRelease, IndexTypeOK
<1>23. ASSUME NEW p \in Processes, JobStep(p) PROVE IndexTypeOK'
  BY <1>7, <1>9, <1>10, <1>11, <1>13, <1>14, <1>15, <1>16, <1>23 DEF JobStep, Depart, RunsDry
<1> QED
  BY <1>2, <1>3, <1>4, <1>5, <1>6, <1>14, <1>17, <1>18, <1>19, <1>20, <1>21, <1>22, <1>23
     DEF IndexNext, IndexCrash

(* The row, the queues and the lines of every process are well formed.     *)
THEOREM IndexTypeCorrect == IndexSpec => []IndexTypeOK
BY TypeBegins, TypeSteps, PTL DEF IndexSpec

-----------------------------------------------------------------------------
(* The lock *)

Ordered == LinesSound /\ LockKept /\ NestedWanted

(* A step of one process that leaves its line sound, holds the lock as its *)
(* head says, and keeps a flush within a mark wanted.                      *)
LEMMA Local ==
  ASSUME LockInv, NEW p \in Processes, NEW l, NEW j, NEW w,
         line' = [line EXCEPT ![p] = l], job' = [job EXCEPT ![p] = j],
         wanted' = [wanted EXCEPT ![p] = w],
         LineSound(l, j), (lock' = p) <=> HeadHeld(l, j),
         \A q \in Processes : q # p => ((lock' = q) <=> (lock = q)),
         (j["flush"] \in Held /\ l[1] = "mark") => w
  PROVE  Ordered'
<1>1. /\ line'[p] = l /\ job'[p] = j /\ wanted'[p] = w
      /\ \A q \in Processes : q # p =>
           line'[q] = line[q] /\ job'[q] = job[q] /\ wanted'[q] = wanted[q]
  BY DEF LockInv, IndexTypeOK
<1>2. LinesSound'
  BY <1>1 DEF LockInv, LinesSound
<1>3. LockKept'
  BY <1>1 DEF LockInv, LockKept
<1>4. NestedWanted'
  BY <1>1 DEF LockInv, NestedWanted
<1> QED
  BY <1>2, <1>3, <1>4 DEF Ordered

(* A step that touches neither the lines nor the lock.                     *)
LEMMA Quiet ==
  ASSUME LockInv, UNCHANGED <<line, job>>,
         \A q \in Processes : (lock' = q) <=> (lock = q),
         \A q \in Processes : wanted[q] /\ job[q]["flush"] \in Held => wanted'[q]
  PROVE  Ordered'
<1>1. LinesSound'
  BY DEF LockInv, LinesSound
<1>2. LockKept'
  BY DEF LockInv, LockKept
<1>3. NestedWanted'
  BY DEF LockInv, NestedWanted
<1> QED
  BY <1>1, <1>2, <1>3 DEF Ordered

(* What is known of one process.                                           *)
LEMMA OfProcess ==
  ASSUME LockInv, NEW p \in Processes
  PROVE  /\ line[p] \in Seq(Kinds) /\ job[p] \in [Kinds -> JobStages]
         /\ LineSound(line[p], job[p])
         /\ (lock = p) <=> HeadHeld(line[p], job[p])
         /\ job[p]["flush"] \in Held /\ line[p][1] = "mark" => wanted[p]
         /\ lock \in Processes \cup {None, Others}
         /\ None \notin Processes /\ Others \notin Processes
         /\ wanted[p] \in BOOLEAN
         /\ fresh[p] \in [Kinds -> Row]
BY IndexAssumption DEF LockInv, IndexTypeOK, LinesSound, LockKept, NestedWanted, JobStages

(* The shape of the variables of the lines.                                *)
LEMMA Shapes ==
  ASSUME LockInv
  PROVE  /\ line = [q \in Processes |-> line[q]] /\ job = [q \in Processes |-> job[q]]
         /\ wanted = [q \in Processes |-> wanted[q]]
BY DEF LockInv, IndexTypeOK

(* A job joins its line.                                                   *)
LEMMA JoinOrdered ==
  ASSUME LockInv, NEW p \in Processes, NEW k \in Kinds, Enters(p, k), To(p, k, "line"),
         job[p][k] \in {"none", "owed"}, UNCHANGED lock, NEW w,
         wanted' = [wanted EXCEPT ![p] = w], wanted[p] => w
  PROVE  Ordered'
<1> DEFINE l == Append(line[p], k)
           j == [job[p] EXCEPT ![k] = "line"]
<1>1. line' = [line EXCEPT ![p] = l] /\ job' = [job EXCEPT ![p] = j]
  BY DEF Enters, To
<1>2. LineSound(line[p], job[p]) /\ line[p] \in Seq(Kinds) /\ job[p] \in [Kinds -> JobStages]
  BY OfProcess
<1>3. /\ LineSound(l, j)
      /\ HeadHeld(l, j) <=> HeadHeld(line[p], job[p])
      /\ line[p] # <<>> => l[1] = line[p][1]
      /\ line[p] = <<>> => l[1] = k
  BY <1>2, JoinSound
<1>4. j["flush"] \in Held => job[p]["flush"] \in Held
  BY <1>2 DEF Held, Kinds
<1>5. job[p]["flush"] \in Held => line[p] # <<>>
  BY <1>2 DEF LineSound
<1> HIDE DEF l, j
<1>6. (j["flush"] \in Held /\ l[1] = "mark") => w
  BY <1>3, <1>4, <1>5, OfProcess
<1>7. (lock' = p) <=> HeadHeld(l, j)
  BY <1>3, OfProcess
<1>8. \A q \in Processes : q # p => ((lock' = q) <=> (lock = q))
  OBVIOUS
<1> QED
  BY <1>1, <1>3, <1>6, <1>7, <1>8, Local

(* The head of its line leaves it.                                         *)
LEMMA LeaveOrdered ==
  ASSUME LockInv, NEW p \in Processes, NEW k \in Kinds, Leaves(p, k), InLine(p, k),
         line[p][1] = k, k = "mark" => job[p]["flush"] \notin Held, NEW w,
         wanted' = [wanted EXCEPT ![p] = w]
  PROVE  Ordered'
<1> DEFINE l == Tail(line[p])
           j == [job[p] EXCEPT ![k] = "none"]
<1>1. /\ line' = [line EXCEPT ![p] = l] /\ job' = [job EXCEPT ![p] = j]
      /\ lock' = IF lock = p THEN None ELSE lock
  BY DEF Leaves, To
<1>2. LineSound(line[p], job[p]) /\ line[p] \in Seq(Kinds) /\ job[p] \in [Kinds -> JobStages]
  BY OfProcess
<1>3. line[p] # <<>>
  BY DEF InLine, ToSet
<1>4. LineSound(l, j) /\ ~HeadHeld(l, j)
  BY <1>2, <1>3, LeaveSound
<1> HIDE DEF l, j
<1>5. lock' # p /\ \A q \in Processes : q # p => ((lock' = q) <=> (lock = q))
  BY <1>1, OfProcess
<1>6. j["flush"] \notin Held
  BY <1>4 DEF LineSound, HeadHeld
<1> QED
  BY <1>1, <1>4, <1>5, <1>6, Local

(* A job past waiting is the head of its line if it is in it.              *)
LEMMA HeldInLine ==
  ASSUME LockInv, NEW p \in Processes, NEW k \in Kinds, job[p][k] \in Held, InLine(p, k)
  PROVE  line[p][1] = k /\ lock = p
<1>1. PICK a \in DOMAIN line[p] : line[p][a] = k
  BY DEF InLine, ToSet
<1>2. LineSound(line[p], job[p]) /\ line[p] \in Seq(Kinds) /\ job[p] \in [Kinds -> JobStages]
  BY OfProcess
<1>3. a = 1 /\ HeadHeld(line[p], job[p])
  BY <1>1, <1>2, InLineIsHead
<1> QED
  BY <1>1, <1>3, OfProcess

LEMMA HeldOutOfLine ==
  ASSUME LockInv, NEW p \in Processes, NEW k \in Kinds, job[p][k] \in Held, ~InLine(p, k)
  PROVE  /\ k = "flush" /\ line[p] # <<>> /\ line[p][1] = "mark" /\ job[p]["mark"] \in Held
         /\ wanted[p] /\ \A a \in DOMAIN line[p] : line[p][a] # "flush"
<1>1. \A a \in DOMAIN line[p] : line[p][a] # k
  BY DEF InLine, ToSet
<1>2. LineSound(line[p], job[p]) /\ line[p] \in Seq(Kinds) /\ job[p] \in [Kinds -> JobStages]
  BY OfProcess
<1>3. k = "flush" /\ line[p] # <<>> /\ line[p][1] = "mark" /\ job[p]["mark"] \in Held
  BY <1>1, <1>2, OutOfLineIsNested
<1> QED
  BY <1>1, <1>3, OfProcess

(* Who is past waiting has the lock.                                       *)
LEMMA HeldHasLock ==
  ASSUME LockInv, NEW p \in Processes, NEW k \in Kinds, job[p][k] \in Held
  PROVE  lock = p
<1>1. LineSound(line[p], job[p]) /\ line[p] \in Seq(Kinds) /\ job[p] \in [Kinds -> JobStages]
  BY OfProcess
<1>2. HeadHeld(line[p], job[p])
  BY <1>1, HeldHasHead
<1> QED
  BY <1>2, OfProcess

(* A waiting head: its process has not got the lock.                       *)
LEMMA WaitingHead ==
  ASSUME LockInv, NEW p \in Processes, NEW k \in Kinds, job[p][k] = "line", Head(line[p]) = k
  PROVE  /\ line[p] # <<>> /\ line[p][1] = k /\ InLine(p, k) /\ lock # p
         /\ \A m \in Kinds : job[p][m] \notin Held
<1>1. LineSound(line[p], job[p]) /\ line[p] \in Seq(Kinds) /\ job[p] \in [Kinds -> JobStages]
  BY OfProcess
<1>2. PICK a \in DOMAIN line[p] : line[p][a] = k
  BY <1>1 DEF LineSound
<1>3. line[p] # <<>> /\ line[p][1] = k
  BY <1>1, <1>2
<1>4. InLine(p, k)
  BY <1>2 DEF InLine, ToSet
<1>5. ~HeadHeld(line[p], job[p])
  BY <1>3 DEF HeadHeld, Held
<1>6. \A m \in Kinds : job[p][m] \notin Held
  BY <1>1, <1>5, HeldHasHead
<1> QED
  BY <1>3, <1>4, <1>5, <1>6, OfProcess

(* Two updates are never under way at once.                                *)
LEMMA OneUpdate ==
  ASSUME LockInv, NEW p \in Processes, NEW q \in Processes, NEW k \in Kinds, NEW m \in Kinds,
         job[p][k] \in {"read", "write"}, job[q][m] \in {"read", "write"}
  PROVE  p = q /\ k = m
<1>1. lock = p /\ lock = q
  BY HeldHasLock DEF Held
<1>2. LineSound(line[p], job[p]) /\ line[p] \in Seq(Kinds) /\ job[p] \in [Kinds -> JobStages]
  BY OfProcess
<1> QED
  BY <1>1, <1>2, OneUnderWay

(* Who may start a move or a mark has none under way.                      *)
LEMMA FreeForVerb ==
  ASSUME NEW p \in Processes, Free(p), "move" \in Verbs[p] \/ "mark" \in Verbs[p]
  PROVE  job[p]["overlay"] = "none" /\ job[p]["mark"] = "none" /\ ~wanted[p]
BY IndexAssumption DEF Free

LEMMA OrderBegins == IndexInit => Ordered
<1> SUFFICES ASSUME IndexInit PROVE Ordered
  OBVIOUS
<1>1. \A p \in Processes : line[p] = <<>> /\ \A k \in Kinds : job[p][k] = "none"
  BY DEF IndexInit
<1>2. \A p \in Processes : LineSound(line[p], job[p]) /\ ~HeadHeld(line[p], job[p])
  BY <1>1 DEF LineSound, HeadHeld, Held, Kinds
<1>3. \A p \in Processes : lock # p
  BY IndexAssumption DEF IndexInit
<1>4. \A p \in Processes : job[p]["flush"] \notin Held
  BY <1>1 DEF Held, Kinds
<1> QED
  BY <1>2, <1>3, <1>4 DEF Ordered, LinesSound, LockKept, NestedWanted

(* A process that ends leaves its line empty and the lock free.            *)
LEMMA DepartOrdered ==
  ASSUME LockInv, NEW p \in Processes, Departed(p)
  PROVE  Ordered'
<1> DEFINE j == [k \in Kinds |-> "none"]
<1>1. /\ line' = [line EXCEPT ![p] = <<>>] /\ job' = [job EXCEPT ![p] = j]
      /\ wanted' = [wanted EXCEPT ![p] = FALSE]
      /\ lock' = IF lock = p THEN None ELSE lock
  BY DEF Departed
<1>2. LineSound(<<>>, j) /\ ~HeadHeld(<<>>, j) /\ j["flush"] \notin Held
  BY DEF LineSound, HeadHeld, Held, Kinds
<1> HIDE DEF j
<1>3. lock' # p /\ \A q \in Processes : q # p => ((lock' = q) <=> (lock = q))
  BY <1>1, OfProcess
<1> QED
  BY <1>1, <1>2, <1>3, Local

(* Every step keeps the lines in order and the lock with its holder.       *)
LEMMA OrderSteps == LockInv /\ [IndexNext]_indexVars => Ordered'
<1> SUFFICES ASSUME LockInv, [IndexNext]_indexVars PROVE Ordered'
  OBVIOUS
<1> USE DEF queue, locking
<1>1. CASE UNCHANGED indexVars
  BY <1>1, Quiet DEF indexVars
<1>2. ASSUME NEW p \in Processes, NEW changed \in SUBSET Fields, WriteRecord(p, changed) PROVE Ordered'
  <2>1. UNCHANGED <<line, job, lock>>
    BY <1>2 DEF WriteRecord
  <2>2. \A q \in Processes : wanted[q] => wanted'[q]
    BY <1>2, Shapes DEF WriteRecord, FlushNow
  <2> QED
    BY <2>1, <2>2, Quiet
<1>3. ASSUME NEW p \in Processes, NEW changed \in SUBSET Fields, MarkWrites(p, changed) PROVE Ordered'
  <2> DEFINE j == [job[p] EXCEPT !["mark"] = "done"]
  <2>1. /\ job' = [job EXCEPT ![p] = j] /\ line' = line /\ lock' = lock
        /\ wanted' = [wanted EXCEPT ![p] = TRUE] /\ job[p]["mark"] = "held"
    BY <1>3 DEF MarkWrites, To, FlushNow
  <2>2. LineSound(line[p], j) /\ HeadHeld(line[p], j)
    BY <2>1, OfProcess, GoOnSound DEF Kinds
  <2>3. lock = p
    BY <2>1, HeldHasLock DEF Held, Kinds
  <2> HIDE DEF j
  <2>4. line' = [line EXCEPT ![p] = line[p]]
    BY <2>1, Shapes
  <2> QED
    BY <2>1, <2>2, <2>3, <2>4, Local
<1>4. ASSUME NEW p \in Processes, MoveRecord(p) PROVE Ordered'
  <2> DEFINE j == [job[p] EXCEPT !["overlay"] = "owed"]
  <2>1. /\ job' = [job EXCEPT ![p] = j] /\ line' = line /\ lock' = lock /\ wanted' = wanted
        /\ job[p]["overlay"] = "none"
    BY <1>4, FreeForVerb DEF MoveRecord, To
  <2>2. /\ LineSound(line[p], j)
        /\ HeadHeld(line[p], j) <=> HeadHeld(line[p], job[p])
    BY <2>1, OfProcess, OweSound
  <2>3. j["flush"] = job[p]["flush"]
    BY OfProcess DEF Kinds
  <2> HIDE DEF j
  <2>4. line' = [line EXCEPT ![p] = line[p]] /\ wanted' = [wanted EXCEPT ![p] = wanted[p]]
    BY <2>1, Shapes
  <2>5. (j["flush"] \in Held /\ line[p][1] = "mark") => wanted[p]
    BY <2>3, OfProcess
  <2>6. (lock' = p) <=> HeadHeld(line[p], j)
    BY <2>1, <2>2, OfProcess
  <2> QED
    BY <2>1, <2>2, <2>4, <2>5, <2>6, Local
<1>5. ASSUME NEW p \in Processes, Mark(p) PROVE Ordered'
  <2>1. /\ job[p]["mark"] = "none" /\ To(p, "mark", "line") /\ Enters(p, "mark")
        /\ UNCHANGED <<lock, wanted>>
    BY <1>5, FreeForVerb DEF Mark
  <2>2. wanted' = [wanted EXCEPT ![p] = wanted[p]]
    BY <2>1, Shapes
  <2> QED
    BY <2>1, <2>2, JoinOrdered DEF Kinds
<1>6. ASSUME NEW p \in Processes, Overlay(p) PROVE Ordered'
  <2>1. /\ job[p]["overlay"] = "owed" /\ To(p, "overlay", "line") /\ Enters(p, "overlay")
        /\ UNCHANGED <<lock, wanted>>
    BY <1>6 DEF Overlay
  <2>2. wanted' = [wanted EXCEPT ![p] = wanted[p]]
    BY <2>1, Shapes
  <2> QED
    BY <2>1, <2>2, JoinOrdered DEF Kinds
<1>7. ASSUME NEW p \in Processes, NEW w, JoinsLine(p), wanted' = [wanted EXCEPT ![p] = w],
             wanted[p] => w
      PROVE  Ordered'
  <2>1. /\ job[p]["flush"] = "none" /\ To(p, "flush", "line") /\ Enters(p, "flush")
        /\ UNCHANGED lock
    BY <1>7 DEF JoinsLine, TakesPending
  <2> QED
    BY <1>7, <2>1, JoinOrdered DEF Kinds
<1>8. ASSUME NEW p \in Processes, FlushTimerFires(p) PROVE Ordered'
  <2>1. wanted' = [wanted EXCEPT ![p] = TRUE]
    BY <1>8 DEF FlushTimerFires, FlushNow
  <2>2. CASE JoinsLine(p)
    BY <2>1, <2>2, <1>7
  <2>3. CASE ~JoinsLine(p)
    <3>1. UNCHANGED <<line, job, lock>>
      BY <1>8, <2>3 DEF FlushTimerFires
    <3>2. \A q \in Processes : wanted[q] => wanted'[q]
      BY <2>1, Shapes
    <3> QED
      BY <3>1, <3>2, Quiet
  <2> QED
    BY <2>2, <2>3
<1>9. ASSUME NEW p \in Processes, StartFlush(p) PROVE Ordered'
  <2>1. wanted' = [wanted EXCEPT ![p] = wanted[p]] /\ wanted[p]
    BY <1>9, Shapes DEF StartFlush
  <2>2. CASE Within(p)
    <3> DEFINE j == [job[p] EXCEPT !["flush"] = "read"]
    <3>1. /\ job' = [job EXCEPT ![p] = j] /\ line' = line /\ lock' = lock
          /\ job[p]["flush"] = "none" /\ job[p]["mark"] \in Held
      BY <1>9, <2>2 DEF StartFlush, TakesPending, To, Within, Held
    <3>2. LineSound(line[p], j) /\ HeadHeld(line[p], j)
      BY <3>1, OfProcess, NestSound
    <3>3. lock = p
      BY <3>1, HeldHasLock DEF Kinds
    <3> HIDE DEF j
    <3>4. line' = [line EXCEPT ![p] = line[p]]
      BY <3>1, Shapes
    <3> QED
      BY <2>1, <3>1, <3>2, <3>3, <3>4, Local
  <2>3. CASE ~Within(p)
    BY <1>7, <1>9, <2>1, <2>3 DEF StartFlush
  <2> QED
    BY <2>2, <2>3
<1>10. ASSUME NEW p \in Processes, MarkLoads(p) PROVE Ordered'
  <2>1. UNCHANGED <<line, job, lock>>
    BY <1>10 DEF MarkLoads
  <2>2. \A q \in Processes : wanted[q] => wanted'[q]
    BY <1>10, Shapes DEF MarkLoads, FlushNow
  <2> QED
    BY <2>1, <2>2, Quiet
<1>11. ASSUME NEW p \in Processes, MarkEnds(p) PROVE Ordered'
  <2>1. /\ Leaves(p, "mark") /\ job[p]["mark"] \in Held
        /\ \/ job[p]["flush"] = "none"
           \/ wanted[p] => job[p]["flush"] = "line"
    BY <1>11 DEF MarkEnds, Held
  <2>2. LineSound(line[p], job[p]) /\ line[p] \in Seq(Kinds)
    BY OfProcess
  <2>3. line[p] # <<>> /\ line[p][1] = "mark"
    BY <2>1, <2>2 DEF LineSound
  <2>4. InLine(p, "mark")
    BY <2>2, <2>3 DEF InLine, ToSet
  <2>5. job[p]["flush"] \notin Held
    BY <2>1, <2>3, OfProcess DEF Held
  <2>6. PICK w : wanted' = [wanted EXCEPT ![p] = w]
    BY <1>11 DEF MarkEnds, Exits
  <2> QED
    BY <2>1, <2>3, <2>4, <2>5, <2>6, LeaveOrdered DEF Kinds
<1>12. ASSUME NEW p \in Processes, Departed(p) PROVE Ordered'
  BY <1>12, DepartOrdered
<1>13. ASSUME NEW p \in Processes, NEW k \in Kinds, ReadRecord(p, k) PROVE Ordered'
  <2> DEFINE j == [job[p] EXCEPT ![k] = "write"]
  <2>1. /\ job' = [job EXCEPT ![p] = j] /\ line' = line /\ lock' = lock /\ wanted' = wanted
        /\ job[p][k] = "read"
    BY <1>13 DEF ReadRecord, To
  <2>2. LineSound(line[p], job[p]) /\ line[p] \in Seq(Kinds) /\ job[p] \in [Kinds -> JobStages]
    BY OfProcess
  <2>3. k # "mark"
    BY <2>1, <2>2 DEF LineSound
  <2>4. LineSound(line[p], j) /\ HeadHeld(line[p], j)
    BY <2>1, <2>2, <2>3, GoOnSound
  <2>5. lock = p
    BY <2>1, HeldHasLock DEF Held
  <2>6. j["flush"] \in Held => job[p]["flush"] \in Held
    BY <2>1, <2>2 DEF Held, Kinds
  <2> HIDE DEF j
  <2>7. line' = [line EXCEPT ![p] = line[p]] /\ wanted' = [wanted EXCEPT ![p] = wanted[p]]
    BY <2>1, Shapes
  <2>8. (j["flush"] \in Held /\ line[p][1] = "mark") => wanted[p]
    BY <2>6, OfProcess
  <2> QED
    BY <2>1, <2>4, <2>5, <2>7, <2>8, Local
<1>14. ASSUME NEW p \in Processes, NEW k \in Kinds, WriteIndex(p, k) PROVE Ordered'
  <2>1. /\ Leaves(p, k) /\ job[p][k] = "write" /\ job[p][k] \in Held
        /\ wanted' = [wanted EXCEPT ![p] = @ /\ (k # "flush" \/ dirtyEntry[p] # None)]
    BY <1>14 DEF WriteIndex, Held
  <2>2. PICK w : wanted' = [wanted EXCEPT ![p] = w]
    BY <2>1
  <2>3. LineSound(line[p], job[p]) /\ line[p] \in Seq(Kinds) /\ job[p] \in [Kinds -> JobStages]
    BY OfProcess
  <2>4. CASE InLine(p, k)
    <3>1. line[p][1] = k
      BY <2>1, <2>4, HeldInLine
    <3>2. k # "mark"
      BY <2>1, <2>3 DEF LineSound
    <3> QED
      BY <2>1, <2>2, <2>4, <3>1, <3>2, LeaveOrdered
  <2>5. CASE ~InLine(p, k)
    <3> DEFINE j == [job[p] EXCEPT ![k] = "none"]
    <3>1. /\ k = "flush" /\ line[p] # <<>> /\ line[p][1] = "mark" /\ job[p]["mark"] \in Held
          /\ \A a \in DOMAIN line[p] : line[p][a] # "flush"
      BY <2>1, <2>5, HeldOutOfLine
    <3>2. /\ job' = [job EXCEPT ![p] = j] /\ line' = line /\ lock' = lock
      BY <2>1, <2>5 DEF Leaves, To
    <3>3. /\ j \in [Kinds -> JobStages] /\ j["flush"] = "none" /\ j["mark"] = job[p]["mark"]
          /\ j["overlay"] = job[p]["overlay"]
      BY <2>3, <3>1 DEF Kinds, JobStages
    <3> HIDE DEF j
    <3>4. LineSound(line[p], j) /\ HeadHeld(line[p], j)
      BY <2>3, <3>1, <3>3, UnnestSound
    <3>5. lock = p
      BY <2>1, HeldHasLock
    <3>6. line' = [line EXCEPT ![p] = line[p]]
      BY <3>2, Shapes
    <3>7. j["flush"] \notin Held
      BY <3>3 DEF Held
    <3> QED
      BY <2>2, <3>2, <3>4, <3>5, <3>6, <3>7, Local
  <2> QED
    BY <2>4, <2>5
<1>15. ASSUME NEW p \in Processes, Leave(p) PROVE Ordered'
  <2>1. UNCHANGED <<line, job, lock>>
    BY <1>15 DEF Leave
  <2>2. \A q \in Processes : wanted[q] /\ job[q]["flush"] \in Held => wanted'[q]
    <3>1. wanted' = [wanted EXCEPT ![p] = dirtyEntry[p] # None \/ job[p]["flush"] # "none"]
      BY <1>15 DEF Leave, Exits
    <3>2. \A q \in Processes : q # p => wanted'[q] = wanted[q]
      BY <3>1, Shapes
    <3>3. job[p]["flush"] \in Held => wanted'[p]
      BY <3>1, Shapes DEF Held
    <3> QED
      BY <3>2, <3>3
  <2> QED
    BY <2>1, <2>2, Quiet
<1>16. ASSUME NEW p \in Processes, NEW k \in Kinds, TakeLock(p, k) PROVE Ordered'
  <2> DEFINE s == IF k = "mark" THEN "held" ELSE "read"
             j == [job[p] EXCEPT ![k] = s]
  <2>1. /\ job' = [job EXCEPT ![p] = j] /\ line' = line /\ lock' = p /\ wanted' = wanted
        /\ job[p][k] = "line" /\ Head(line[p]) = k /\ lock = None
    BY <1>16 DEF TakeLock, To
  <2>2. line[p] # <<>> /\ line[p][1] = k /\ \A m \in Kinds : job[p][m] \notin Held
    BY <2>1, WaitingHead
  <2>3. LineSound(line[p], j) /\ HeadHeld(line[p], j)
    BY <2>1, <2>2, OfProcess, TakeSound
  <2>4. (j["flush"] \in Held /\ line[p][1] = "mark") => wanted[p]
    BY <2>2, OfProcess DEF Kinds
  <2> HIDE DEF s, j
  <2>5. line' = [line EXCEPT ![p] = line[p]] /\ wanted' = [wanted EXCEPT ![p] = wanted[p]]
    BY <2>1, Shapes
  <2>6. \A q \in Processes : q # p => ((lock' = q) <=> (lock = q))
    BY <2>1, OfProcess
  <2> QED
    BY <2>1, <2>3, <2>4, <2>5, <2>6, Local
<1>17. ASSUME NEW p \in Processes, NEW k \in Kinds, LockTimeout(p, k) PROVE Ordered'
  <2>1. /\ Leaves(p, k) /\ job[p][k] = "line" /\ Head(line[p]) = k
        /\ \/ wanted' = [wanted EXCEPT ![p] = FALSE]
           \/ wanted' = wanted
           \/ wanted' = [wanted EXCEPT ![p] = dirtyEntry[p] # None \/ job[p]["flush"] # "none"]
    BY <1>17 DEF LockTimeout, Deferred, Exits
  <2>2. /\ line[p] # <<>> /\ line[p][1] = k /\ InLine(p, k)
        /\ \A m \in Kinds : job[p][m] \notin Held
    BY <2>1, WaitingHead
  <2>3. PICK w : wanted' = [wanted EXCEPT ![p] = w]
    BY <2>1, Shapes
  <2> QED
    BY <2>1, <2>2, <2>3, LeaveOrdered DEF Kinds
<1>18. ASSUME NEW p \in Processes, NEW k \in Kinds, UpdateFails(p, k) PROVE Ordered'
  <2>1. /\ job[p][k] \in {"read", "write"} /\ job[p][k] \in Held
        /\ wanted' = [wanted EXCEPT ![p] = @ /\ k # "flush"]
    BY <1>18 DEF UpdateFails, Held
  <2>2. PICK w : wanted' = [wanted EXCEPT ![p] = w]
    BY <2>1
  <2>3. LineSound(line[p], job[p]) /\ line[p] \in Seq(Kinds) /\ job[p] \in [Kinds -> JobStages]
    BY OfProcess
  <2>4. CASE InLine(p, k)
    <3>1. line[p][1] = k
      BY <2>1, <2>4, HeldInLine
    <3>2. k # "mark"
      BY <2>1, <2>3 DEF LineSound
    <3>3. Leaves(p, k)
      BY <1>18, <2>4 DEF UpdateFails
    <3> QED
      BY <2>2, <2>4, <3>1, <3>2, <3>3, LeaveOrdered
  <2>5. CASE ~InLine(p, k)
    <3> DEFINE j == [job[p] EXCEPT ![k] = "none", !["mark"] = "done"]
    <3>1. /\ k = "flush" /\ line[p] # <<>> /\ line[p][1] = "mark" /\ job[p]["mark"] \in Held
          /\ \A a \in DOMAIN line[p] : line[p][a] # "flush"
      BY <2>1, <2>5, HeldOutOfLine
    <3>2. /\ job' = [job EXCEPT ![p][k] = "none", ![p]["mark"] = "done"]
          /\ line' = line /\ lock' = lock
      BY <1>18, <2>5 DEF UpdateFails
    <3>3. job' = [job EXCEPT ![p] = j]
      BY <3>2, Shapes, OfProcess
    <3>4. /\ j \in [Kinds -> JobStages] /\ j["flush"] = "none" /\ j["mark"] = "done"
          /\ j["overlay"] = job[p]["overlay"]
      BY <2>3, <3>1 DEF Kinds, JobStages
    <3> HIDE DEF j
    <3>5. LineSound(line[p], j) /\ HeadHeld(line[p], j)
      BY <2>3, <3>1, <3>4, UnnestSound
    <3>6. lock = p
      BY <2>1, HeldHasLock
    <3>7. line' = [line EXCEPT ![p] = line[p]]
      BY <3>2, Shapes
    <3>8. j["flush"] \notin Held
      BY <3>4 DEF Held
    <3> QED
      BY <2>2, <3>2, <3>3, <3>5, <3>6, <3>7, <3>8, Local
  <2> QED
    BY <2>4, <2>5
<1>19. CASE OthersTake \/ OthersRelease
  <2>1. UNCHANGED <<line, job, wanted>> /\ lock \in {None, Others} /\ lock' \in {None, Others}
    BY <1>19 DEF OthersTake, OthersRelease
  <2>2. \A q \in Processes : (lock' = q) <=> (lock = q)
    BY <2>1, IndexAssumption
  <2> QED
    BY <2>1, <2>2, Quiet
<1>20. ASSUME NEW p \in Processes, JobStep(p) PROVE Ordered'
  BY <1>6, <1>8, <1>9, <1>10, <1>11, <1>12, <1>13, <1>14, <1>20 DEF JobStep, Depart, RunsDry
<1> QED
  BY <1>1, <1>2, <1>3, <1>4, <1>5, <1>12, <1>15, <1>16, <1>17, <1>18, <1>19, <1>20
     DEF IndexNext, IndexCrash

-----------------------------------------------------------------------------
(* The row and the record *)

Followed == GoneIsEmpty /\ RowBehind /\ FreshBetween /\ StaleIsOwed

(* Nothing happens to the other processes.                                 *)
Elsewhere(p) ==
  \A q \in Processes : q # p =>
    /\ living'[q] = living[q] /\ dirtyEntry'[q] = dirtyEntry[q]
    /\ job'[q] = job[q] /\ fresh'[q] = fresh[q]

LEMMA GoneStep ==
  ASSUME GoneIsEmpty, NEW p \in Processes, Elsewhere(p), living'[p] # "gone"
  PROVE  GoneIsEmpty'
BY DEF GoneIsEmpty, Elsewhere

(* Who has something to do is not gone.                                    *)
LEMMA BusyLives ==
  ASSUME GoneIsEmpty, NEW p \in Processes,
         \/ dirtyEntry[p] # None
         \/ \E k \in Kinds : job[p][k] # "none"
  PROVE  living[p] # "gone"
BY DEF GoneIsEmpty

(* A step of one process that changes neither row nor record, makes no new *)
(* projection, and keeps what it owes or gives it up.                      *)
LEMMA TameStep ==
  ASSUME IndexInv, NEW p \in Processes, Elsewhere(p), living'[p] # "gone",
         UNCHANGED <<onDisk, row, writes>>,
         \A m \in Kinds : job'[p][m] = "write" =>
           job[p][m] = "write" /\ fresh'[p][m] = fresh[p][m],
         \A f \in Stale(row, onDisk) :
           /\ f \in dropped => f \in dropped'
           /\ Owes(p, f) => Owes(p, f)' \/ f \in dropped'
  PROVE  Followed'
<1>1. GoneIsEmpty'
  BY GoneStep DEF IndexInv
<1>2. RowBehind'
  BY DEF IndexInv, RowBehind
<1>3. FreshBetween'
  <2> SUFFICES ASSUME NEW q \in Processes, NEW m \in Kinds, job'[q][m] = "write",
                      NEW f \in Fields
               PROVE  row'[f] <= fresh'[q][m][f] /\ fresh'[q][m][f] <= onDisk'[f]
    BY DEF FreshBetween
  <2>1. job[q][m] = "write" /\ fresh'[q][m] = fresh[q][m]
    BY DEF Elsewhere
  <2> QED
    BY <2>1 DEF IndexInv, FreshBetween
<1>4. StaleIsOwed'
  <2> SUFFICES ASSUME NEW f \in Stale(row', onDisk')
               PROVE  f \in dropped' \/ \E q \in Processes : Owes(q, f)'
    BY DEF StaleIsOwed
  <2>1. f \in Stale(row, onDisk)
    OBVIOUS
  <2>2. CASE f \in dropped
    BY <2>1, <2>2
  <2>3. ASSUME NEW q \in Processes, Owes(q, f) PROVE f \in dropped' \/ Owes(q, f)'
    <3>1. CASE q = p
      BY <2>1, <2>3, <3>1
    <3>2. CASE q # p
      BY <2>3, <3>2 DEF Owes, Elsewhere
    <3> QED
      BY <3>1, <3>2
  <2>4. f \in dropped \/ \E q \in Processes : Owes(q, f)
    BY <2>1 DEF IndexInv, StaleIsOwed
  <2> QED
    BY <2>2, <2>3, <2>4
<1> QED
  BY <1>1, <1>2, <1>3, <1>4 DEF Followed

(* A write of the record after which its process owes every group it has   *)
(* changed.                                                                *)
LEMMA WriteStep ==
  ASSUME IndexInv, NEW p \in Processes, NEW changed \in SUBSET Fields, Written(changed),
         Elsewhere(p), living'[p] # "gone", UNCHANGED <<row, fresh, dropped>>,
         \A m \in Kinds : job'[p][m] = "write" => job[p][m] = "write",
         \A f \in changed : Owes(p, f)',
         \A f \in Fields \ changed : Owes(p, f) => Owes(p, f)'
  PROVE  Followed'
<1>1. GoneIsEmpty'
  BY GoneStep DEF IndexInv
<1>2. /\ onDisk \in Row /\ onDisk' \in Row /\ row \in Row
      /\ writes \in Nat /\ writes' = writes + 1
  BY WrittenTyped, IndexAssumption DEF IndexInv, LockInv, IndexTypeOK
<1>3. \A f \in Fields : onDisk'[f] = IF f \in changed THEN writes + 1 ELSE onDisk[f]
  BY DEF Written
<1>4. \A f \in Fields : onDisk[f] \in Nat /\ row[f] \in Nat /\ onDisk'[f] \in Nat
  BY <1>2, IndexAssumption DEF Row
<1>5. \A f \in Fields : onDisk[f] <= onDisk'[f] /\ onDisk'[f] <= writes'
  BY <1>2, <1>3, <1>4 DEF IndexInv, RowBehind
<1>6. RowBehind'
  BY <1>4, <1>5 DEF IndexInv, RowBehind
<1>7. FreshBetween'
  <2> SUFFICES ASSUME NEW q \in Processes, NEW m \in Kinds, job'[q][m] = "write",
                      NEW f \in Fields
               PROVE  row'[f] <= fresh'[q][m][f] /\ fresh'[q][m][f] <= onDisk'[f]
    BY DEF FreshBetween
  <2>1. job[q][m] = "write" /\ fresh'[q][m] = fresh[q][m]
    BY DEF Elsewhere
  <2>2. fresh[q][m][f] \in Nat
    BY IndexAssumption DEF IndexInv, LockInv, IndexTypeOK, Row
  <2>3. row[f] <= fresh[q][m][f] /\ fresh[q][m][f] <= onDisk[f]
    BY <2>1 DEF IndexInv, FreshBetween
  <2> QED
    BY <1>4, <1>5, <2>1, <2>2, <2>3
<1>8. StaleIsOwed'
  <2> SUFFICES ASSUME NEW f \in Stale(row', onDisk')
               PROVE  f \in dropped' \/ \E q \in Processes : Owes(q, f)'
    BY DEF StaleIsOwed
  <2>1. CASE f \in changed
    BY <2>1
  <2>2. CASE f \notin changed
    <3>1. onDisk'[f] = onDisk[f] /\ f \in Stale(row, onDisk) /\ f \in Fields
      BY <1>3, <2>2 DEF Stale
    <3>2. ASSUME NEW q \in Processes, Owes(q, f) PROVE Owes(q, f)'
      <4>1. CASE q = p
        BY <2>2, <3>1, <3>2, <4>1
      <4>2. CASE q # p
        BY <3>1, <3>2, <4>2 DEF Owes, Elsewhere
      <4> QED
        BY <4>1, <4>2
    <3>3. f \in dropped \/ \E q \in Processes : Owes(q, f)
      BY <3>1 DEF IndexInv, StaleIsOwed
    <3> QED
      BY <3>2, <3>3
  <2> QED
    BY <2>1, <2>2
<1> QED
  BY <1>1, <1>6, <1>7, <1>8 DEF Followed

(* What an update writes is no older than the row and no newer than the    *)
(* record, and it is the only one under way.                               *)
LEMMA UpdateStep ==
  ASSUME IndexInv, NEW p \in Processes, NEW k \in Kinds, WriteIndex(p, k)
  PROVE  Followed' /\ \A f \in Fields : row'[f] >= row[f]
<1>1. /\ job[p][k] = "write" /\ Leaves(p, k)
      /\ \A f \in Fields : row'[f] = IF f \in Covered(k) THEN fresh[p][k][f] ELSE row[f]
      /\ dropped' = dropped \cap Stale(row', onDisk)
      /\ UNCHANGED <<onDisk, writes, living, dirtyEntry>>
  BY DEF WriteIndex
<1>2. /\ onDisk \in Row /\ row \in Row /\ fresh[p][k] \in Row
      /\ job \in [Processes -> [Kinds -> JobStages]] /\ fresh \in [Processes -> [Kinds -> Row]]
  BY DEF IndexInv, LockInv, IndexTypeOK, JobStages
<1>3. \A f \in Fields : onDisk[f] \in Nat /\ row[f] \in Nat /\ fresh[p][k][f] \in Nat
  BY <1>2, IndexAssumption DEF Row
<1>4. \A f \in Fields : row[f] <= fresh[p][k][f] /\ fresh[p][k][f] <= onDisk[f]
  BY <1>1 DEF IndexInv, FreshBetween
<1>5. \A f \in Fields : row'[f] \in Nat /\ row[f] <= row'[f] /\ row'[f] <= onDisk[f]
  BY <1>1, <1>3, <1>4 DEF IndexInv, RowBehind
<1>6. /\ job' = [job EXCEPT ![p][k] = "none"] /\ fresh' = [fresh EXCEPT ![p][k] = Blank]
  BY <1>1 DEF Leaves, To
<1>7. Elsewhere(p)
  BY <1>1, <1>2, <1>6 DEF Elsewhere
<1>8. \A m \in Kinds : m # k => job'[p][m] = job[p][m] /\ fresh'[p][m] = fresh[p][m]
  BY <1>2, <1>6
<1>9. GoneIsEmpty'
  BY <1>1, <1>7, BusyLives, GoneStep DEF IndexInv
<1>10. RowBehind'
  BY <1>1, <1>5 DEF IndexInv, RowBehind
<1>11. FreshBetween'
  <2> SUFFICES ASSUME NEW q \in Processes, NEW m \in Kinds, job'[q][m] = "write" PROVE FALSE
    BY DEF FreshBetween
  <2>1. job'[p][k] = "none"
    BY <1>2, <1>6
  <2>2. ~(q = p /\ m = k)
    BY <2>1
  <2>3. job[q][m] = "write"
    BY <1>7, <1>8, <2>2 DEF Elsewhere
  <2> QED
    BY <1>1, <2>2, <2>3, OneUpdate DEF IndexInv
<1>12. StaleIsOwed'
  <2> SUFFICES ASSUME NEW f \in Stale(row', onDisk')
               PROVE  f \in dropped' \/ \E q \in Processes : Owes(q, f)'
    BY DEF StaleIsOwed
  <2>1. f \in Fields /\ row'[f] # onDisk[f] /\ onDisk' = onDisk
    BY <1>1 DEF Stale
  <2>2. row[f] # onDisk[f]
    BY <1>3, <1>5, <2>1
  <2>3. CASE f \in dropped
    BY <1>1, <2>1, <2>3 DEF Stale
  <2>4. ASSUME NEW q \in Processes, Owes(q, f) PROVE Owes(q, f)'
    <3>1. CASE q # p
      BY <1>7, <2>1, <2>4, <3>1 DEF Owes, Elsewhere
    <3>2. CASE q = p
      <4>1. CASE dirtyEntry[p] # None
        BY <1>1, <2>4, <3>2, <4>1 DEF Owes
      <4>2. CASE dirtyEntry[p] = None
        <5>1. PICK m \in {"flush", "overlay"} :
                /\ f \in Covered(m)
                /\ \/ job[p][m] \in {"owed", "line", "read"}
                   \/ job[p][m] = "write" /\ fresh[p][m][f] = onDisk[f]
          BY <2>4, <3>2, <4>2 DEF Owes
        <5>2. m # k
          BY <1>1, <2>1, <5>1
        <5>3. job'[p][m] = job[p][m] /\ fresh'[p][m] = fresh[p][m]
          BY <1>8, <5>2 DEF Kinds
        <5>4. living'[p] # "gone"
          BY <1>1, <2>4, <3>2 DEF Owes
        <5> QED
          BY <2>1, <3>2, <5>1, <5>3, <5>4 DEF Owes
      <4> QED
        BY <4>1, <4>2
    <3> QED
      BY <3>1, <3>2
  <2>5. f \in dropped \/ \E q \in Processes : Owes(q, f)
    BY <2>1, <2>2 DEF IndexInv, StaleIsOwed, Stale
  <2> QED
    BY <2>3, <2>4, <2>5
<1> QED
  BY <1>5, <1>3, <1>9, <1>10, <1>11, <1>12 DEF Followed

(* A process that ends: what it owed of a stale row is given up.           *)
LEMMA DepartFollowed ==
  ASSUME IndexInv, NEW p \in Processes, Departed(p)
  PROVE  Followed'
<1>1. /\ living' = [living EXCEPT ![p] = "gone"]
      /\ dropped' = dropped \cup {f \in Stale(row, onDisk) : Owes(p, f)}
      /\ dirtyEntry' = [dirtyEntry EXCEPT ![p] = None]
      /\ job' = [job EXCEPT ![p] = [k \in Kinds |-> "none"]]
      /\ fresh' = [fresh EXCEPT ![p] = [k \in Kinds |-> Blank]]
      /\ UNCHANGED <<onDisk, row, writes>>
  BY DEF Departed
<1>2. Elsewhere(p)
  BY <1>1 DEF Elsewhere, IndexInv, LockInv, IndexTypeOK
<1>3. dirtyEntry'[p] = None /\ \A k \in Kinds : job'[p][k] = "none"
  BY <1>1 DEF IndexInv, LockInv, IndexTypeOK
<1>4. GoneIsEmpty'
  BY <1>2, <1>3 DEF IndexInv, GoneIsEmpty, Elsewhere
<1>5. RowBehind'
  BY <1>1 DEF IndexInv, RowBehind
<1>6. FreshBetween'
  <2> SUFFICES ASSUME NEW q \in Processes, NEW m \in Kinds, job'[q][m] = "write",
                      NEW f \in Fields
               PROVE  row'[f] <= fresh'[q][m][f] /\ fresh'[q][m][f] <= onDisk'[f]
    BY DEF FreshBetween
  <2>1. q # p
    BY <1>3
  <2> QED
    BY <1>1, <1>2, <2>1 DEF IndexInv, FreshBetween, Elsewhere
<1>7. StaleIsOwed'
  <2> SUFFICES ASSUME NEW f \in Stale(row', onDisk')
               PROVE  f \in dropped' \/ \E q \in Processes : Owes(q, f)'
    BY DEF StaleIsOwed
  <2>1. f \in Stale(row, onDisk)
    BY <1>1
  <2>2. ASSUME NEW q \in Processes, Owes(q, f), q # p PROVE Owes(q, f)'
    BY <1>1, <1>2, <2>2 DEF Owes, Elsewhere
  <2>3. f \in dropped \/ \E q \in Processes : Owes(q, f)
    BY <2>1 DEF IndexInv, StaleIsOwed
  <2> QED
    BY <1>1, <2>1, <2>2, <2>3
<1> QED
  BY <1>4, <1>5, <1>6, <1>7 DEF Followed

(* Taking the dirty entry: the flush that took it owes every group.        *)
LEMMA TakenFollowed ==
  ASSUME IndexInv, NEW p \in Processes, TakesPending(p),
         NEW s \in {"line", "read"}, To(p, "flush", s)
  PROVE  Followed'
<1>1. /\ dirtyEntry[p] # None /\ job' = [job EXCEPT ![p]["flush"] = s]
      /\ fresh' = [fresh EXCEPT ![p]["flush"] = dirtyEntry[p]]
      /\ dirtyEntry' = [dirtyEntry EXCEPT ![p] = None]
      /\ UNCHANGED <<onDisk, row, writes, living, dropped>>
  BY DEF TakesPending, To
<1>2. /\ job \in [Processes -> [Kinds -> JobStages]] /\ fresh \in [Processes -> [Kinds -> Row]]
      /\ dirtyEntry \in [Processes -> Row \cup {None}]
  BY DEF IndexInv, LockInv, IndexTypeOK, JobStages
<1>3. Elsewhere(p)
  BY <1>1, <1>2 DEF Elsewhere
<1>4. living[p] # "gone" /\ living'[p] # "gone"
  BY <1>1, BusyLives DEF IndexInv
<1>5. job'[p]["flush"] = s
  BY <1>1, <1>2 DEF Kinds
<1>6. \A m \in Kinds : job'[p][m] = "write" =>
        job[p][m] = "write" /\ fresh'[p][m] = fresh[p][m]
  BY <1>1, <1>2, <1>5
<1>7. \A f \in Fields : Owes(p, f)'
  BY <1>4, <1>5 DEF Owes, Covered
<1> QED
  BY <1>1, <1>3, <1>4, <1>6, <1>7, TameStep DEF Stale

LEMMA FollowBegins == IndexInit => Followed
<1> SUFFICES ASSUME IndexInit PROVE Followed
  OBVIOUS
<1>1. \A f \in Fields : row[f] = 0 /\ onDisk[f] = 0
  BY DEF IndexInit, Blank
<1>2. \A p \in Processes : living[p] = "running" /\ \A k \in Kinds : job[p][k] = "none"
  BY DEF IndexInit
<1>3. writes = 0
  BY DEF IndexInit
<1> QED
  BY <1>1, <1>2, <1>3 DEF Followed, GoneIsEmpty, RowBehind, FreshBetween, StaleIsOwed, Stale

(* Every step keeps the row behind the record, the projections between     *)
(* them, and somebody responsible for what is stale.                       *)
LEMMA FollowSteps == IndexInv /\ [IndexNext]_indexVars => Followed'
<1> SUFFICES ASSUME IndexInv, [IndexNext]_indexVars PROVE Followed'
  OBVIOUS
<1> USE DEF queue, locking
<1>t. /\ job \in [Processes -> [Kinds -> JobStages]] /\ fresh \in [Processes -> [Kinds -> Row]]
      /\ dirtyEntry \in [Processes -> Row \cup {None}]
      /\ living \in [Processes -> {"running", "leaving", "gone"}]
      /\ onDisk \in Row /\ GoneIsEmpty
  BY DEF IndexInv, LockInv, IndexTypeOK, JobStages
<1>1. CASE UNCHANGED <<onDisk, row, writes, living, dirtyEntry, job, fresh, dropped>>
  <2>1. GoneIsEmpty' /\ RowBehind' /\ FreshBetween'
    BY <1>1 DEF IndexInv, GoneIsEmpty, RowBehind, FreshBetween
  <2>2. StaleIsOwed'
    BY <1>1 DEF IndexInv, StaleIsOwed, Stale, Owes
  <2> QED
    BY <2>1, <2>2 DEF Followed
<1>2. ASSUME NEW p \in Processes, NEW changed \in SUBSET Fields, WriteRecord(p, changed) PROVE Followed'
  <2>1. /\ Written(changed) /\ living[p] = "running"
        /\ dirtyEntry' = [dirtyEntry EXCEPT ![p] = onDisk']
        /\ UNCHANGED <<row, living, job, fresh, dropped>>
    BY <1>2 DEF WriteRecord, Free
  <2>2. onDisk' # None
    BY <2>1, WrittenTyped, RowIsEntry DEF IndexInv, LockInv
  <2>3. Elsewhere(p) /\ dirtyEntry'[p] # None
    BY <1>t, <2>1, <2>2 DEF Elsewhere
  <2>4. \A f \in Fields : Owes(p, f)'
    BY <2>1, <2>3 DEF Owes
  <2> QED
    BY <2>1, <2>3, <2>4, WriteStep
<1>3. ASSUME NEW p \in Processes, NEW changed \in SUBSET Fields, MarkWrites(p, changed) PROVE Followed'
  <2>1. /\ Written(changed) /\ job[p]["mark"] = "held"
        /\ dirtyEntry' = [dirtyEntry EXCEPT ![p] = onDisk']
        /\ job' = [job EXCEPT ![p]["mark"] = "done"]
        /\ UNCHANGED <<row, living, fresh, dropped>>
    BY <1>3 DEF MarkWrites, To
  <2>2. onDisk' # None
    BY <2>1, WrittenTyped, RowIsEntry DEF IndexInv, LockInv
  <2>3. Elsewhere(p) /\ dirtyEntry'[p] # None
    BY <1>t, <2>1, <2>2 DEF Elsewhere
  <2>4. living[p] # "gone"
    BY <1>t, <2>1, BusyLives DEF Kinds
  <2>5. \A f \in Fields : Owes(p, f)'
    BY <2>1, <2>3, <2>4 DEF Owes
  <2>6. \A m \in Kinds : job'[p][m] = "write" => job[p][m] = "write"
    BY <1>t, <2>1
  <2> QED
    BY <2>1, <2>3, <2>4, <2>5, <2>6, WriteStep
<1>4. ASSUME NEW p \in Processes, MoveRecord(p) PROVE Followed'
  <2>1. /\ Written(Linkage) /\ living[p] = "running"
        /\ job' = [job EXCEPT ![p]["overlay"] = "owed"]
        /\ UNCHANGED <<row, living, dirtyEntry, fresh, dropped>>
    BY <1>4 DEF MoveRecord, To, Free
  <2>2. Elsewhere(p)
    BY <1>t, <2>1 DEF Elsewhere
  <2>3. /\ job'[p]["overlay"] = "owed" /\ job'[p]["flush"] = job[p]["flush"]
        /\ \A m \in Kinds : job'[p][m] = "write" => job[p][m] = "write"
    BY <1>t, <2>1 DEF Kinds
  <2>4. Linkage \in SUBSET Fields
    BY IndexAssumption
  <2>5. \A f \in Linkage : Owes(p, f)'
    BY <2>1, <2>3 DEF Owes, Covered
  <2>6. \A f \in Fields \ Linkage : onDisk'[f] = onDisk[f]
    BY <2>1 DEF Written
  <2>7. \A f \in Fields \ Linkage : Owes(p, f) => Owes(p, f)'
    BY <2>1, <2>3, <2>6 DEF Owes, Covered
  <2> QED
    BY <2>1, <2>2, <2>3, <2>4, <2>5, <2>7, WriteStep
<1>5. ASSUME NEW p \in Processes, Mark(p) PROVE Followed'
  <2>1. /\ living[p] = "running" /\ job' = [job EXCEPT ![p]["mark"] = "line"]
        /\ UNCHANGED <<onDisk, row, writes, living, dirtyEntry, fresh, dropped>>
    BY <1>5 DEF Mark, To, Free
  <2>2. Elsewhere(p)
    BY <1>t, <2>1 DEF Elsewhere
  <2>3. \A m \in Kinds : m # "mark" => job'[p][m] = job[p][m]
    BY <1>t, <2>1
  <2>4. job'[p]["mark"] = "line"
    BY <1>t, <2>1 DEF Kinds
  <2>5. \A f \in Fields : Owes(p, f) => Owes(p, f)'
    BY <2>1, <2>3 DEF Owes, Kinds
  <2>6. \A m \in Kinds : job'[p][m] = "write" => job[p][m] = "write"
    BY <2>3, <2>4
  <2> QED
    BY <2>1, <2>2, <2>5, <2>6, TameStep DEF Stale
<1>6. ASSUME NEW p \in Processes, Overlay(p) PROVE Followed'
  <2>1. /\ job[p]["overlay"] = "owed" /\ job' = [job EXCEPT ![p]["overlay"] = "line"]
        /\ UNCHANGED <<onDisk, row, writes, living, dirtyEntry, fresh, dropped>>
    BY <1>6 DEF Overlay, To
  <2>2. Elsewhere(p) /\ living[p] # "gone"
    BY <1>t, <2>1, BusyLives DEF Elsewhere, Kinds
  <2>3. /\ job'[p]["overlay"] = "line" /\ job'[p]["flush"] = job[p]["flush"]
        /\ \A m \in Kinds : job'[p][m] = "write" => job[p][m] = "write"
    BY <1>t, <2>1 DEF Kinds
  <2>4. \A f \in Fields : Owes(p, f) => Owes(p, f)'
    BY <2>1, <2>3 DEF Owes
  <2> QED
    BY <2>1, <2>2, <2>3, <2>4, TameStep DEF Stale
<1>7. ASSUME NEW p \in Processes, FlushTimerFires(p) PROVE Followed'
  <2>1. CASE JoinsLine(p)
    BY <2>1, TakenFollowed DEF JoinsLine
  <2>2. CASE ~JoinsLine(p)
    BY <1>1, <1>7, <2>2 DEF FlushTimerFires
  <2> QED
    BY <2>1, <2>2
<1>8. ASSUME NEW p \in Processes, StartFlush(p) PROVE Followed'
  <2>1. CASE Within(p)
    BY <1>8, <2>1, TakenFollowed DEF StartFlush
  <2>2. CASE ~Within(p)
    BY <1>8, <2>2, TakenFollowed DEF StartFlush, JoinsLine
  <2> QED
    BY <2>1, <2>2
<1>9. ASSUME NEW p \in Processes, MarkLoads(p) PROVE Followed'
  BY <1>1, <1>9 DEF MarkLoads
<1>10. ASSUME NEW p \in Processes, Leaves(p, "mark"), living[p] # "gone",
              living' = living \/ living' = [living EXCEPT ![p] = "leaving"],
              UNCHANGED <<onDisk, row, writes, dirtyEntry, dropped>>
       PROVE  Followed'
  <2>1. job' = [job EXCEPT ![p]["mark"] = "none"] /\ fresh' = [fresh EXCEPT ![p]["mark"] = Blank]
    BY <1>10 DEF Leaves, To
  <2>2. Elsewhere(p)
    BY <1>t, <1>10, <2>1 DEF Elsewhere
  <2>3. /\ \A m \in Kinds : m # "mark" => job'[p][m] = job[p][m] /\ fresh'[p][m] = fresh[p][m]
        /\ job'[p]["mark"] = "none" /\ living'[p] # "gone"
    BY <1>t, <1>10, <2>1 DEF Kinds
  <2>4. \A f \in Fields : Owes(p, f) => Owes(p, f)'
    BY <1>10, <2>3 DEF Owes, Kinds
  <2>5. \A m \in Kinds : job'[p][m] = "write" =>
          job[p][m] = "write" /\ fresh'[p][m] = fresh[p][m]
    BY <2>3
  <2> QED
    BY <1>10, <2>2, <2>3, <2>4, <2>5, TameStep DEF Stale
<1>11. ASSUME NEW p \in Processes, MarkEnds(p) PROVE Followed'
  <2>1. job[p]["mark"] # "none" /\ Leaves(p, "mark") /\ Exits(p)
        /\ UNCHANGED <<onDisk, row, writes, dropped>>
    BY <1>11 DEF MarkEnds
  <2>2. living[p] # "gone"
    BY <1>t, <2>1, BusyLives DEF Kinds
  <2> QED
    BY <1>10, <2>1, <2>2 DEF Exits
<1>12. ASSUME NEW p \in Processes, Departed(p) PROVE Followed'
  BY <1>12, DepartFollowed
<1>13. ASSUME NEW p \in Processes, NEW k \in Kinds, ReadRecord(p, k) PROVE Followed'
  <2>1. /\ job[p][k] = "read" /\ fresh' = [fresh EXCEPT ![p][k] = onDisk]
        /\ job' = [job EXCEPT ![p][k] = "write"]
        /\ UNCHANGED <<onDisk, row, writes, living, dirtyEntry, dropped>>
    BY <1>13 DEF ReadRecord, To
  <2>2. Elsewhere(p) /\ living[p] # "gone"
    BY <1>t, <2>1, BusyLives DEF Elsewhere
  <2>3. /\ job'[p][k] = "write" /\ fresh'[p][k] = onDisk
        /\ \A m \in Kinds : m # k => job'[p][m] = job[p][m] /\ fresh'[p][m] = fresh[p][m]
    BY <1>t, <2>1
  <2>4. GoneIsEmpty' /\ RowBehind'
    BY <1>t, <2>1, <2>2, GoneStep DEF IndexInv, RowBehind
  <2>5. FreshBetween'
    <3> SUFFICES ASSUME NEW q \in Processes, NEW m \in Kinds, job'[q][m] = "write",
                        NEW f \in Fields
                 PROVE  row'[f] <= fresh'[q][m][f] /\ fresh'[q][m][f] <= onDisk'[f]
      BY DEF FreshBetween
    <3>1. CASE q = p /\ m = k
      <4>1. onDisk[f] \in Nat
        BY <1>t, IndexAssumption DEF Row
      <4>2. row[f] <= onDisk[f]
        BY DEF IndexInv, RowBehind
      <4> QED
        BY <2>1, <2>3, <3>1, <4>1, <4>2
    <3>2. CASE ~(q = p /\ m = k)
      <4>1. job[q][m] = "write" /\ fresh'[q][m] = fresh[q][m]
        BY <2>2, <2>3, <3>2 DEF Elsewhere
      <4> QED
        BY <2>1, <4>1 DEF IndexInv, FreshBetween
    <3> QED
      BY <3>1, <3>2
  <2>6. StaleIsOwed'
    <3> SUFFICES ASSUME NEW f \in Stale(row', onDisk')
                 PROVE  f \in dropped' \/ \E q \in Processes : Owes(q, f)'
      BY DEF StaleIsOwed
    <3>1. ASSUME NEW q \in Processes, Owes(q, f) PROVE Owes(q, f)'
      <4>1. CASE q # p
        BY <2>1, <2>2, <3>1, <4>1 DEF Owes, Elsewhere
      <4>2. CASE q = p
        BY <2>1, <2>3, <3>1, <4>2 DEF Owes, Kinds
      <4> QED
        BY <4>1, <4>2
    <3>2. f \in dropped \/ \E q \in Processes : Owes(q, f)
      BY <2>1 DEF IndexInv, StaleIsOwed
    <3> QED
      BY <2>1, <3>1, <3>2
  <2> QED
    BY <2>4, <2>5, <2>6 DEF Followed
<1>14. ASSUME NEW p \in Processes, NEW k \in Kinds, WriteIndex(p, k) PROVE Followed'
  BY <1>14, UpdateStep
<1>15. ASSUME NEW p \in Processes, Leave(p) PROVE Followed'
  <2>1. /\ living[p] = "running" /\ living' = [living EXCEPT ![p] = "leaving"]
        /\ UNCHANGED <<onDisk, row, writes, dirtyEntry, job, fresh, dropped>>
    BY <1>15 DEF Leave, Free, Exits
  <2>2. Elsewhere(p) /\ living'[p] = "leaving"
    BY <1>t, <2>1 DEF Elsewhere
  <2>3. \A f \in Fields : Owes(p, f) => Owes(p, f)'
    BY <2>1, <2>2 DEF Owes
  <2> QED
    BY <2>1, <2>2, <2>3, TameStep DEF Stale
<1>16. ASSUME NEW p \in Processes, NEW k \in Kinds, TakeLock(p, k) PROVE Followed'
  <2> DEFINE s == IF k = "mark" THEN "held" ELSE "read"
  <2>1. /\ job[p][k] = "line" /\ job' = [job EXCEPT ![p][k] = s]
        /\ UNCHANGED <<onDisk, row, writes, living, dirtyEntry, fresh, dropped>>
    BY <1>16 DEF TakeLock, To
  <2>2. Elsewhere(p) /\ living[p] # "gone"
    BY <1>t, <2>1, BusyLives DEF Elsewhere
  <2>3. job'[p][k] = s /\ \A m \in Kinds : m # k => job'[p][m] = job[p][m]
    BY <1>t, <2>1
  <2>4. \A f \in Fields : Owes(p, f) => Owes(p, f)'
    BY <2>1, <2>3 DEF Owes, Kinds
  <2>5. \A m \in Kinds : job'[p][m] = "write" => job[p][m] = "write"
    BY <2>3
  <2> QED
    BY <2>1, <2>2, <2>4, <2>5, TameStep DEF Stale
<1>17. ASSUME NEW p \in Processes, NEW k \in Kinds, LockTimeout(p, k) PROVE Followed'
  <2>1. /\ Leaves(p, k) /\ job[p][k] = "line" /\ UNCHANGED <<onDisk, row, writes>>
    BY <1>17 DEF LockTimeout
  <2>2. living[p] # "gone"
    BY <1>t, <2>1, BusyLives
  <2>3. job' = [job EXCEPT ![p][k] = "none"] /\ fresh' = [fresh EXCEPT ![p][k] = Blank]
    BY <2>1 DEF Leaves, To
  <2>4. /\ job'[p][k] = "none"
        /\ \A m \in Kinds : m # k => job'[p][m] = job[p][m] /\ fresh'[p][m] = fresh[p][m]
    BY <1>t, <2>3
  <2>5. CASE k = "flush" /\ Deferred(p, k)
    <3>1. /\ dirtyEntry' = [dirtyEntry EXCEPT ![p] = IF @ = None THEN fresh[p][k] ELSE @]
          /\ UNCHANGED <<dropped, living>>
      BY <2>5 DEF Deferred
    <3>2. fresh[p][k] # None
      BY <1>t, RowIsEntry
    <3>3. Elsewhere(p) /\ dirtyEntry'[p] # None
      BY <1>t, <2>3, <3>1, <3>2 DEF Elsewhere
    <3>4. \A f \in Fields : Owes(p, f)'
      BY <2>2, <3>1, <3>3 DEF Owes
    <3> QED
      BY <2>1, <2>2, <2>4, <3>1, <3>3, <3>4, TameStep DEF Stale
  <2>6. CASE /\ k = "overlay"
             /\ dropped' = dropped \cup (Linkage \cap Stale(row, onDisk))
             /\ UNCHANGED <<queue, living>>
    <3>1. Elsewhere(p)
      BY <1>t, <2>3, <2>6 DEF Elsewhere
    <3>2. \A f \in Stale(row, onDisk) : Owes(p, f) => Owes(p, f)' \/ f \in dropped'
      <4> SUFFICES ASSUME NEW f \in Stale(row, onDisk), Owes(p, f), f \notin Linkage
                   PROVE  Owes(p, f)'
        BY <2>6
      <4> QED
        BY <2>1, <2>4, <2>6 DEF Owes, Covered, Kinds
    <3> QED
      BY <2>1, <2>2, <2>4, <2>6, <3>1, <3>2, TameStep
  <2>7. CASE k = "mark" /\ Exits(p) /\ UNCHANGED dropped
    BY <1>10, <2>1, <2>2, <2>7 DEF Exits
  <2> QED
    BY <1>17, <2>5, <2>6, <2>7 DEF LockTimeout
<1>18. ASSUME NEW p \in Processes, NEW k \in Kinds, UpdateFails(p, k) PROVE Followed'
  <2>1. /\ job[p][k] \in {"read", "write"}
        /\ dropped' = dropped \cup (Covered(k) \cap Stale(row, onDisk))
        /\ UNCHANGED <<onDisk, row, writes, living, dirtyEntry>>
    BY <1>18 DEF UpdateFails
  <2>2. living[p] # "gone"
    BY <1>t, <2>1, BusyLives
  <2>3. /\ Elsewhere(p) /\ job'[p][k] # "write"
        /\ \A m \in Kinds : m # k =>
             /\ job'[p][m] = job[p][m] \/ (m = "mark" /\ job'[p][m] = "done")
             /\ fresh'[p][m] = fresh[p][m]
    <3>1. CASE InLine(p, k)
      <4>1. job' = [job EXCEPT ![p][k] = "none"] /\ fresh' = [fresh EXCEPT ![p][k] = Blank]
        BY <1>18, <3>1 DEF UpdateFails, Leaves, To
      <4> QED
        BY <1>t, <2>1, <4>1 DEF Elsewhere
    <3>2. CASE ~InLine(p, k)
      <4>1. /\ job' = [job EXCEPT ![p][k] = "none", ![p]["mark"] = "done"]
            /\ fresh' = [fresh EXCEPT ![p][k] = Blank]
        BY <1>18, <3>2 DEF UpdateFails
      <4>2. Elsewhere(p)
        BY <1>t, <2>1, <4>1 DEF Elsewhere
      <4>3. \A m \in Kinds : job'[p][m] = IF m = "mark" THEN "done" ELSE IF m = k THEN "none" ELSE job[p][m]
        BY <1>t, <4>1 DEF Kinds
      <4>4. \A m \in Kinds : m # k => fresh'[p][m] = fresh[p][m]
        BY <1>t, <4>1
      <4> QED
        BY <4>2, <4>3, <4>4
    <3> QED
      BY <3>1, <3>2
  <2>4. \A f \in Stale(row, onDisk) : Owes(p, f) => Owes(p, f)' \/ f \in dropped'
    <3> SUFFICES ASSUME NEW f \in Stale(row, onDisk), Owes(p, f), f \notin Covered(k)
                 PROVE  Owes(p, f)'
      BY <2>1
    <3> QED
      BY <2>1, <2>3 DEF Owes, Kinds
  <2>5. \A m \in Kinds : job'[p][m] = "write" =>
          job[p][m] = "write" /\ fresh'[p][m] = fresh[p][m]
    BY <2>3
  <2> QED
    BY <2>1, <2>2, <2>3, <2>4, <2>5, TameStep
<1>19. CASE OthersTake \/ OthersRelease
  BY <1>1, <1>19 DEF OthersTake, OthersRelease
<1>20. ASSUME NEW p \in Processes, JobStep(p) PROVE Followed'
  BY <1>6, <1>7, <1>8, <1>9, <1>11, <1>12, <1>13, <1>14, <1>20 DEF JobStep, Depart, RunsDry
<1>21. CASE UNCHANGED indexVars
  BY <1>1, <1>21 DEF indexVars
<1> QED
  BY <1>2, <1>3, <1>4, <1>5, <1>12, <1>15, <1>16, <1>17, <1>18, <1>19, <1>20, <1>21
     DEF IndexNext, IndexCrash

LEMMA IndexBegins == IndexInit => IndexInv
BY TypeBegins, OrderBegins, FollowBegins DEF IndexInv, LockInv, Ordered, Followed

LEMMA IndexSteps == IndexInv /\ [IndexNext]_indexVars => IndexInv'
<1> SUFFICES ASSUME IndexInv, [IndexNext]_indexVars PROVE IndexInv'
  OBVIOUS
<1>1. LockInv /\ IndexTypeOK
  BY DEF IndexInv, LockInv
<1>2. IndexTypeOK' /\ Ordered' /\ Followed'
  BY <1>1, TypeSteps, OrderSteps, FollowSteps
<1> QED
  BY <1>2 DEF IndexInv, LockInv, Ordered, Followed

(* The row moves only as an update writes it.                              *)
LEMMA RowMoves ==
  ASSUME [IndexNext]_indexVars
  PROVE  row' = row \/ \E p \in Processes, k \in Kinds : WriteIndex(p, k)
<1> USE DEF queue, locking
<1>1. ASSUME NEW p \in Processes, JobStep(p)
      PROVE  row' = row \/ \E k \in Kinds : WriteIndex(p, k)
  BY <1>1 DEF JobStep, Overlay, FlushTimerFires, StartFlush, JoinsLine, TakesPending, MarkLoads,
              MarkEnds, Depart, RunsDry, Departed, ReadRecord
<1>2. ASSUME NEW p \in Processes,
             \/ \E changed \in SUBSET Fields \ {{}} : WriteRecord(p, changed) \/ MarkWrites(p, changed)
             \/ MoveRecord(p) \/ Mark(p) \/ Leave(p) \/ IndexCrash(p)
             \/ \E k \in Kinds : TakeLock(p, k) \/ LockTimeout(p, k) \/ UpdateFails(p, k)
      PROVE  row' = row
  BY <1>2 DEF WriteRecord, MarkWrites, MoveRecord, Mark, Leave, IndexCrash, Departed, TakeLock,
              LockTimeout, UpdateFails
<1>3. CASE OthersTake \/ OthersRelease \/ UNCHANGED indexVars
  BY <1>3 DEF OthersTake, OthersRelease, indexVars
<1> QED
  BY <1>1, <1>2, <1>3 DEF IndexNext

(* No projection lands over a newer one, whatever processes write, move and *)
(* mark the session and wherever one ends.                                  *)
THEOREM RowNeverGoesBackAlways == IndexSpec => RowNeverGoesBack
<1>1. ASSUME IndexInv, [IndexNext]_indexVars PROVE \A f \in Fields : row'[f] >= row[f]
  <2>1. \A f \in Fields : row[f] \in Nat
    BY <1>1, IndexAssumption DEF IndexInv, LockInv, IndexTypeOK, Row
  <2>2. CASE row' = row
    BY <2>1, <2>2
  <2>3. CASE \E p \in Processes, k \in Kinds : WriteIndex(p, k)
    BY <1>1, <2>3, UpdateStep
  <2> QED
    BY <1>1, <2>2, <2>3, RowMoves
<1>2. IndexInv /\ [IndexNext]_indexVars => [\A f \in Fields : row'[f] >= row[f]]_indexVars
  BY <1>1
<1> QED
  BY <1>2, IndexBegins, IndexSteps, PTL DEF IndexSpec, RowNeverGoesBack

(* While the row is stale, a living process owes it the update, or one was *)
(* given up.                                                               *)
THEOREM StaleIsAlwaysOwed == IndexSpec => []StaleIsOwed
<1>1. IndexInv => StaleIsOwed
  BY DEF IndexInv
<1> QED
  BY <1>1, IndexBegins, IndexSteps, PTL DEF IndexSpec

-----------------------------------------------------------------------------
(***************************************************************************)
(* The saves that carry a turn's changes and its sub-agents' to the disk   *)
(* (CoalescedSaves), for any number of changes and batches.                *)
(***************************************************************************)

(* The record.  A save that has read an older state leaves the record      *)
(* dirty; only the turn's own flush is without a timer, and it is over     *)
(* before the agent is prompted.                                           *)
SavesKnown ==
  /\ carried # 0 => joined # {} /\ carried <= memory
  /\ carried # 0 /\ carried < memory => dirty
  /\ "turn" \in joined => stage \in {"opening", "ending"}
  /\ stage = "opening" => memory = 1 /\ ~timer /\ joined \subseteq {"turn"}
  /\ disk <= memory /\ turnFlush <= memory /\ memory > 0

(* The timer, a save or a message stands for what is not on disk.          *)
ChangesCovered == (stage = "prompting" /\ disk < memory) => (timer \/ joined # {} \/ told)

(* The sub-agent.  Its last state is the pending one, else the one being   *)
(* saved, else the one on disk, unless a failure was told.                 *)
ChildKnown ==
  /\ childPending # 0 => childPending = child /\ inFlight < childPending
  /\ childPending = 0 /\ inFlight # 0 => inFlight = child
  /\ childPending = 0 /\ inFlight = 0 => childDisk = child \/ childTold
  /\ childFlush # 0 => stage = "flushing"
  /\ stage = "flushing" => childFlush = child /\ child # 0
  /\ stage \in {"writing", "over"} => childPending = 0 /\ inFlight = 0

SavesInv == SavesTypeOK /\ SavesKnown /\ ChangesCovered /\ ChildKnown

(* The part of NothingForgotten that needs no fairness.                    *)
NothingDropped ==
  /\ [](( stage = "prompting" /\ disk < memory ) => (timer \/ joined # {} \/ told))
  /\ []((stage \in {"writing", "over"} /\ childDisk < child) => childTold)
  /\ FlushWritesItsState

(* The types, one variable at a time.                                      *)
Flags == /\ dirty \in BOOLEAN /\ timer \in BOOLEAN /\ told \in BOOLEAN
         /\ childTimer \in BOOLEAN /\ flushRequested \in BOOLEAN /\ childTold \in BOOLEAN

Versions ==
  /\ memory \in 0..MaxChanges /\ disk \in 0..MaxChanges
  /\ carried \in 0..MaxChanges /\ turnFlush \in 0..MaxChanges
  /\ joined \subseteq {"timer", "turn"}
  /\ child \in 0..MaxBatches /\ childDisk \in 0..MaxBatches /\ childPending \in 0..MaxBatches
  /\ inFlight \in 0..MaxBatches /\ childFlush \in 0..MaxBatches

(* SavesTypeOK is what it says of each variable.                           *)
LEMMA SavesTyped == SavesTypeOK <=> stage \in Stages /\ Versions /\ Flags
<1>1. {dirty, timer, told, childTimer, flushRequested, childTold} \subseteq BOOLEAN <=> Flags
  BY Zenon DEF Flags
<1> QED
  BY <1>1 DEF SavesTypeOK, Versions

(* The same of the next state.                                             *)
LEMMA SavesTypedNext == SavesTypeOK' <=> stage' \in Stages /\ Versions' /\ Flags'
<1>1. {dirty', timer', told', childTimer', flushRequested', childTold'} \subseteq BOOLEAN <=> Flags'
  BY Zenon DEF Flags
<1> QED
  BY <1>1 DEF SavesTypeOK, Versions, Stages

(* At the start nothing has been saved.                                    *)
LEMMA SavesBegin == SavesInit => SavesInv
<1> SUFFICES ASSUME SavesInit PROVE SavesInv
  OBVIOUS
<1>1. Flags
  BY Zenon DEF SavesInit, Flags
<1>2. Versions /\ stage \in Stages
  BY SavesAssumption DEF SavesInit, Versions, Stages
<1>3. SavesKnown
  BY DEF SavesInit, SavesKnown
<1>4. ChangesCovered /\ ChildKnown
  BY DEF SavesInit, ChangesCovered, ChildKnown
<1> QED
  BY <1>1, <1>2, <1>3, <1>4, SavesTyped DEF SavesInv

(* A step of the turn's record leaves the sub-agent's alone.               *)
LEMMA MainSteps ==
  ASSUME SavesInv, Request \/ TimerFires \/ Checkpoint \/ SaveReads \/ SaveEnds \/ SaveFails
                   \/ LastFlush \/ PromptEnds \/ (\E ok \in BOOLEAN : CloseWriter(ok))
  PROVE  SavesInv'
<1>0. stage \in Stages /\ Versions /\ Flags /\ SavesKnown /\ ChangesCovered /\ ChildKnown
  BY SavesTyped DEF SavesInv
<1>1. CASE Request
  <2>1. Flags'
    BY <1>0, <1>1, Zenon DEF Request, childVars, Flags
  <2>2. stage' \in Stages /\ Versions'
    BY <1>0, <1>1, SavesAssumption DEF Request, childVars, Stages, Versions, SavesKnown
  <2>3. SavesKnown'
    BY <1>0, <1>1 DEF Request, childVars, Versions, SavesKnown
  <2>4. ChangesCovered'
    BY <1>0, <1>1 DEF Request, childVars, Versions, ChangesCovered, SavesKnown
  <2>5. ChildKnown'
    BY <1>0, <1>1 DEF Request, childVars, Versions, ChildKnown, SavesKnown
  <2> QED
    BY <2>1, <2>2, <2>3, <2>4, <2>5, SavesTypedNext DEF SavesInv
<1>2. CASE TimerFires
  <2>1. Flags'
    BY <1>0, <1>2, Zenon DEF TimerFires, childVars, Flags
  <2>2. stage' \in Stages /\ Versions'
    BY <1>0, <1>2, SavesAssumption DEF TimerFires, childVars, Stages, Versions, SavesKnown
  <2>3. SavesKnown'
    BY <1>0, <1>2 DEF TimerFires, childVars, Versions, SavesKnown
  <2>4. ChangesCovered'
    BY <1>0, <1>2 DEF TimerFires, childVars, Versions, ChangesCovered, SavesKnown
  <2>5. ChildKnown'
    BY <1>0, <1>2 DEF TimerFires, childVars, Versions, ChildKnown, SavesKnown
  <2> QED
    BY <2>1, <2>2, <2>3, <2>4, <2>5, SavesTypedNext DEF SavesInv
<1>3. CASE Checkpoint
  <2>1. Flags'
    BY <1>0, <1>3, Zenon DEF Checkpoint, childVars, Flags
  <2>2. stage' \in Stages /\ Versions'
    BY <1>0, <1>3, SavesAssumption DEF Checkpoint, childVars, Stages, Versions, SavesKnown
  <2>3. SavesKnown'
    BY <1>0, <1>3 DEF Checkpoint, childVars, Versions, SavesKnown
  <2>4. ChangesCovered'
    BY <1>0, <1>3 DEF Checkpoint, childVars, Versions, ChangesCovered, SavesKnown
  <2>5. ChildKnown'
    BY <1>0, <1>3 DEF Checkpoint, childVars, Versions, ChildKnown, SavesKnown
  <2> QED
    BY <2>1, <2>2, <2>3, <2>4, <2>5, SavesTypedNext DEF SavesInv
<1>4. CASE SaveReads
  <2>1. Flags'
    BY <1>0, <1>4, Zenon DEF SaveReads, childVars, Flags
  <2>2. stage' \in Stages /\ Versions'
    BY <1>0, <1>4, SavesAssumption DEF SaveReads, childVars, Stages, Versions, SavesKnown
  <2>3. SavesKnown'
    BY <1>0, <1>4 DEF SaveReads, childVars, Versions, SavesKnown
  <2>4. ChangesCovered'
    BY <1>0, <1>4 DEF SaveReads, childVars, Versions, ChangesCovered, SavesKnown
  <2>5. ChildKnown'
    BY <1>0, <1>4 DEF SaveReads, childVars, Versions, ChildKnown, SavesKnown
  <2> QED
    BY <2>1, <2>2, <2>3, <2>4, <2>5, SavesTypedNext DEF SavesInv
<1>5. CASE SaveEnds
  <2>1. Flags'
    BY <1>0, <1>5, Zenon DEF SaveEnds, TurnGoesOn, childVars, Flags
  <2>2. stage' \in Stages /\ Versions'
    <3>1. CASE dirty
      <4>1. /\ stage' = stage /\ joined' = joined /\ disk' = carried /\ carried' = 0
            /\ memory' = memory /\ turnFlush' = turnFlush /\ childVars' = childVars
        BY <1>5, <3>1, Zenon DEF SaveEnds, childVars
      <4> QED
        BY <1>0, <4>1, SavesAssumption DEF childVars, Versions
    <3>2. CASE ~dirty
      <4>1. /\ joined' = {} /\ disk' = carried /\ carried' = 0
            /\ memory' = memory /\ turnFlush' = turnFlush /\ childVars' = childVars
        BY <1>5, <3>2, Zenon DEF SaveEnds, childVars
      <4>2. stage' \in Stages
        BY <1>0, <1>5, <3>2 DEF SaveEnds, TurnGoesOn, Stages
      <4> QED
        BY <1>0, <4>1, <4>2, SavesAssumption DEF childVars, Versions
    <3> QED
      BY <3>1, <3>2
  <2>3. SavesKnown'
    BY <1>0, <1>5 DEF SaveEnds, TurnGoesOn, childVars, Versions, SavesKnown
  <2>4. ChangesCovered'
    BY <1>0, <1>5 DEF SaveEnds, TurnGoesOn, childVars, Versions, ChangesCovered, SavesKnown
  <2>5. ChildKnown'
    BY <1>0, <1>5 DEF SaveEnds, TurnGoesOn, childVars, Versions, ChildKnown, SavesKnown
  <2> QED
    BY <2>1, <2>2, <2>3, <2>4, <2>5, SavesTypedNext DEF SavesInv
<1>6. CASE SaveFails
  <2>1. Flags'
    BY <1>0, <1>6, Zenon DEF SaveFails, TurnGoesOn, childVars, Flags
  <2>2. stage' \in Stages /\ Versions'
    BY <1>0, <1>6, SavesAssumption DEF SaveFails, TurnGoesOn, childVars, Stages, Versions, SavesKnown
  <2>3. SavesKnown'
    BY <1>0, <1>6 DEF SaveFails, TurnGoesOn, childVars, Versions, SavesKnown
  <2>4. ChangesCovered'
    BY <1>0, <1>6 DEF SaveFails, TurnGoesOn, childVars, Versions, ChangesCovered, SavesKnown
  <2>5. ChildKnown'
    BY <1>0, <1>6 DEF SaveFails, TurnGoesOn, childVars, Versions, ChildKnown, SavesKnown
  <2> QED
    BY <2>1, <2>2, <2>3, <2>4, <2>5, SavesTypedNext DEF SavesInv
<1>7. CASE LastFlush
  <2>1. Flags'
    BY <1>0, <1>7, Zenon DEF LastFlush, childVars, Flags
  <2>2. stage' \in Stages /\ Versions'
    BY <1>0, <1>7, SavesAssumption DEF LastFlush, childVars, Stages, Versions, SavesKnown
  <2>3. SavesKnown'
    <3>1. CASE joined # {}
      <4>1. /\ joined' = joined \cup {"turn"} /\ stage' = stage /\ (dirty => dirty')
            /\ memory' = memory /\ carried' = carried /\ disk' = disk /\ turnFlush' = memory
            /\ stage = "ending"
        BY <1>7, <3>1 DEF LastFlush
      <4> QED
        BY <1>0, <4>1 DEF Versions, SavesKnown
    <3>2. CASE joined = {}
      <4>1. /\ joined' \in {{}, {"turn"}} /\ (joined' # {} => stage' = "ending")
            /\ stage' \in {"ending", "children"} /\ carried' = carried
            /\ memory' = memory /\ disk' = disk /\ turnFlush' = memory
        BY <1>7, <3>2 DEF LastFlush
      <4>2. carried = 0
        BY <1>0, <3>2 DEF SavesKnown
      <4> QED
        BY <1>0, <4>1, <4>2 DEF Versions, SavesKnown
    <3> QED
      BY <3>1, <3>2
  <2>4. ChangesCovered'
    BY <1>0, <1>7 DEF LastFlush, childVars, Versions, ChangesCovered, SavesKnown
  <2>5. ChildKnown'
    BY <1>0, <1>7 DEF LastFlush, childVars, Versions, ChildKnown, SavesKnown
  <2> QED
    BY <2>1, <2>2, <2>3, <2>4, <2>5, SavesTypedNext DEF SavesInv
<1>8. CASE PromptEnds
  <2>1. Flags'
    BY <1>0, <1>8, Zenon DEF PromptEnds, mainVars, childVars, Flags
  <2>2. stage' \in Stages /\ Versions'
    BY <1>0, <1>8, SavesAssumption DEF PromptEnds, mainVars, childVars, Stages, Versions, SavesKnown
  <2>3. SavesKnown'
    BY <1>0, <1>8 DEF PromptEnds, mainVars, childVars, Versions, SavesKnown
  <2>4. ChangesCovered'
    BY <1>0, <1>8 DEF PromptEnds, mainVars, childVars, Versions, ChangesCovered, SavesKnown
  <2>5. ChildKnown'
    BY <1>0, <1>8 DEF PromptEnds, mainVars, childVars, Versions, ChildKnown, SavesKnown
  <2> QED
    BY <2>1, <2>2, <2>3, <2>4, <2>5, SavesTypedNext DEF SavesInv
<1>9. ASSUME NEW ok \in BOOLEAN, CloseWriter(ok)
      PROVE  SavesInv'
  <2>1. Flags'
    BY <1>0, <1>9, Zenon DEF CloseWriter, childVars, Flags
  <2>2. stage' \in Stages /\ Versions'
    BY <1>0, <1>9, SavesAssumption DEF CloseWriter, childVars, Stages, Versions, SavesKnown
  <2>3. SavesKnown'
    BY <1>0, <1>9 DEF CloseWriter, childVars, Versions, SavesKnown
  <2>4. ChangesCovered'
    BY <1>0, <1>9 DEF CloseWriter, childVars, Versions, ChangesCovered, SavesKnown
  <2>5. ChildKnown'
    BY <1>0, <1>9 DEF CloseWriter, childVars, Versions, ChildKnown, SavesKnown
  <2> QED
    BY <2>1, <2>2, <2>3, <2>4, <2>5, SavesTypedNext DEF SavesInv
<1> QED
  BY <1>1, <1>2, <1>3, <1>4, <1>5, <1>6, <1>7, <1>8, <1>9

(* A step of the sub-agent's leaves the turn's record alone.               *)
LEMMA ChildSteps ==
  ASSUME SavesInv, Enqueue \/ ChildTimerFires \/ ChildEnds \/ FlushChildren
                   \/ (\E ok \in BOOLEAN : ChildSaveEnds(ok))
  PROVE  SavesInv'
<1>0. stage \in Stages /\ Versions /\ Flags /\ SavesKnown /\ ChangesCovered /\ ChildKnown
  BY SavesTyped DEF SavesInv
<1>1. CASE Enqueue
  <2>1. Flags'
    BY <1>0, <1>1, Zenon DEF Enqueue, mainVars, Flags
  <2>2. stage' \in Stages /\ Versions'
    BY <1>0, <1>1, SavesAssumption DEF Enqueue, mainVars, Stages, Versions, SavesKnown
  <2>3. SavesKnown'
    BY <1>0, <1>1 DEF Enqueue, mainVars, Versions, SavesKnown
  <2>4. ChangesCovered'
    BY <1>0, <1>1 DEF Enqueue, mainVars, Versions, ChangesCovered, SavesKnown
  <2>5. ChildKnown'
    BY <1>0, <1>1 DEF Enqueue, mainVars, Versions, ChildKnown, SavesKnown
  <2> QED
    BY <2>1, <2>2, <2>3, <2>4, <2>5, SavesTypedNext DEF SavesInv
<1>2. CASE ChildTimerFires
  <2>1. Flags'
    BY <1>0, <1>2, Zenon DEF ChildTimerFires, StartSave, mainVars, Flags
  <2>2. stage' \in Stages /\ Versions'
    BY <1>0, <1>2, SavesAssumption DEF ChildTimerFires, StartSave, mainVars, Stages, Versions, SavesKnown
  <2>3. SavesKnown'
    BY <1>0, <1>2 DEF ChildTimerFires, StartSave, mainVars, Versions, SavesKnown
  <2>4. ChangesCovered'
    BY <1>0, <1>2 DEF ChildTimerFires, StartSave, mainVars, Versions, ChangesCovered, SavesKnown
  <2>5. ChildKnown'
    BY <1>0, <1>2 DEF ChildTimerFires, StartSave, mainVars, Versions, ChildKnown, SavesKnown
  <2> QED
    BY <2>1, <2>2, <2>3, <2>4, <2>5, SavesTypedNext DEF SavesInv
<1>3. CASE ChildEnds
  <2>1. Flags'
    BY <1>0, <1>3, Zenon DEF ChildEnds, FlushChild, StartSave, mainVars, Flags
  <2>2. stage' \in Stages /\ Versions'
    BY <1>0, <1>3, SavesAssumption DEF ChildEnds, FlushChild, StartSave, mainVars, Stages, Versions, SavesKnown
  <2>3. SavesKnown'
    BY <1>0, <1>3 DEF ChildEnds, FlushChild, StartSave, mainVars, Versions, SavesKnown
  <2>4. ChangesCovered'
    BY <1>0, <1>3 DEF ChildEnds, FlushChild, StartSave, mainVars, Versions, ChangesCovered, SavesKnown
  <2>5. ChildKnown'
    BY <1>0, <1>3 DEF ChildEnds, FlushChild, StartSave, mainVars, Versions, ChildKnown, SavesKnown
  <2> QED
    BY <2>1, <2>2, <2>3, <2>4, <2>5, SavesTypedNext DEF SavesInv
<1>4. CASE FlushChildren
  <2>1. Flags'
    BY <1>0, <1>4, Zenon DEF FlushChildren, FlushChild, Awaited, StartSave, mainVars, Flags
  <2>2. stage' \in Stages /\ Versions'
    BY <1>0, <1>4, SavesAssumption DEF FlushChildren, FlushChild, Awaited, StartSave, mainVars, Stages, Versions, SavesKnown
  <2>3. SavesKnown'
    BY <1>0, <1>4 DEF FlushChildren, FlushChild, Awaited, StartSave, mainVars, Versions, SavesKnown
  <2>4. ChangesCovered'
    BY <1>0, <1>4 DEF FlushChildren, FlushChild, Awaited, StartSave, mainVars, Versions, ChangesCovered, SavesKnown
  <2>5. ChildKnown'
    BY <1>0, <1>4 DEF FlushChildren, FlushChild, Awaited, StartSave, mainVars, Versions, ChildKnown, SavesKnown
  <2> QED
    BY <2>1, <2>2, <2>3, <2>4, <2>5, SavesTypedNext DEF SavesInv
<1>5. ASSUME NEW ok \in BOOLEAN, ChildSaveEnds(ok)
      PROVE  SavesInv'
  <2>1. Flags'
    BY <1>0, <1>5, Zenon DEF ChildSaveEnds, AfterSave, StartSave, mainVars, Flags
  <2>2. stage' \in Stages /\ Versions'
    BY <1>0, <1>5, SavesAssumption DEF ChildSaveEnds, AfterSave, StartSave, mainVars, Stages, Versions, SavesKnown
  <2>3. SavesKnown'
    <3>1. /\ mainVars' = mainVars /\ childDisk' \in {inFlight, childDisk} /\ child' = child
          /\ stage' \in {stage, "writing"}
      BY <1>5 DEF ChildSaveEnds, mainVars
    <3>2. stage' = "writing" => childFlush # 0 \/ stage = "writing"
      BY <1>5 DEF ChildSaveEnds
    <3> QED
      BY <1>0, <3>1, <3>2 DEF mainVars, Versions, SavesKnown, ChildKnown
  <2>4. ChangesCovered'
    BY <1>0, <1>5 DEF ChildSaveEnds, AfterSave, StartSave, mainVars, Versions, ChangesCovered, SavesKnown
  <2>5. ChildKnown'
    <3>1. inFlight # 0 /\ child' = child /\ (childTold => childTold')
      BY <1>5 DEF ChildSaveEnds
    <3>2. childDisk' = inFlight \/ childTold'
      BY <1>5 DEF ChildSaveEnds
    <3>3. \/ childPending # 0 /\ inFlight' = childPending /\ childPending' = 0
          \/ inFlight' = 0 /\ childPending' = childPending
      BY <1>5 DEF ChildSaveEnds, AfterSave, StartSave
    <3>4. IF childFlush # 0 /\ childFlush <= inFlight
          THEN childFlush' = 0 /\ stage' = "writing"
          ELSE childFlush' = childFlush /\ stage' = stage
      BY <1>5 DEF ChildSaveEnds
    <3>5. CASE childPending = 0
      <4>1. inFlight = child /\ childPending' = 0 /\ inFlight' = 0
        BY <1>0, <3>1, <3>3, <3>5 DEF ChildKnown
      <4> QED
        BY <1>0, <3>1, <3>2, <3>4, <4>1 DEF Versions, ChildKnown
    <3>6. CASE childPending # 0
      <4>1. childPending = child /\ inFlight < child
        BY <1>0, <3>1, <3>6 DEF ChildKnown
      <4>2. childFlush' = childFlush /\ stage' = stage
        BY <1>0, <3>4, <4>1 DEF Versions, ChildKnown
      <4> QED
        BY <1>0, <3>1, <3>3, <3>6, <4>1, <4>2 DEF Versions, ChildKnown
    <3> QED
      BY <3>5, <3>6
  <2> QED
    BY <2>1, <2>2, <2>3, <2>4, <2>5, SavesTypedNext DEF SavesInv
<1> QED
  BY <1>1, <1>2, <1>3, <1>4, <1>5

(* Every step keeps the invariant.                                         *)
LEMMA SavesSteps == SavesInv /\ [SavesNext]_savesVars => SavesInv'
<1> SUFFICES ASSUME SavesInv, [SavesNext]_savesVars PROVE SavesInv'
  OBVIOUS
<1>1. CASE UNCHANGED savesVars
  BY <1>1 DEF savesVars, mainVars, childVars, SavesInv, SavesTypeOK, SavesKnown, ChangesCovered, ChildKnown
<1>2. CASE SavesNext
  BY <1>2, MainSteps, ChildSteps DEF SavesNext
<1> QED
  BY <1>1, <1>2

(* The saves are well typed, for any number of changes and batches.        *)
THEOREM SavesTypeCorrect == SavesSpec => []SavesTypeOK
<1>1. SavesInv => SavesTypeOK
  BY DEF SavesInv
<1> QED
  BY <1>1, SavesBegin, SavesSteps, PTL DEF SavesSpec

(* Whenever a timer fires, a flush joins a save or cancels a timer, and a  *)
(* save fails: what changed while the turn runs is due to be saved or its  *)
(* loss was told, a flush that resolves has written what it was called     *)
(* for, and a sub-agent's last state is on disk when its flush is over.    *)
THEOREM NothingIsDropped == SavesSpec => NothingDropped
<1>1. SavesInv => ((stage = "prompting" /\ disk < memory) => (timer \/ joined # {} \/ told))
  BY DEF SavesInv, ChangesCovered
<1>2. SavesInv => ((stage \in {"writing", "over"} /\ childDisk < child) => childTold)
  BY DEF SavesInv, ChildKnown, SavesTypeOK
<1>3. SavesInv /\ [SavesNext]_savesVars =>
        [(SaveEnds /\ "turn" \in joined /\ joined' = {}) => disk' >= turnFlush]_savesVars
  <2> SUFFICES ASSUME SavesInv, SaveEnds, joined' = {}, "turn" \in joined
               PROVE  disk' >= turnFlush
    OBVIOUS
  <2>1. ~dirty /\ carried # 0 /\ disk' = carried
    BY Zenon DEF SaveEnds
  <2>2. SavesKnown /\ Versions
    BY SavesTyped DEF SavesInv
  <2> QED
    BY <2>1, <2>2 DEF SavesKnown, Versions
<1> QED
  BY <1>1, <1>2, <1>3, SavesBegin, SavesSteps, PTL DEF SavesSpec, NothingDropped, FlushWritesItsState

-----------------------------------------------------------------------------
(***************************************************************************)
(* The style on the record (OutputStyle), for any setters, styles and      *)
(* number of prompts.                                                      *)
(***************************************************************************)

(* The record names the style of the setter that wrote last; what waits in *)
(* the owner's memory was sent.                                            *)
StyleInv == StyleTypeOK /\ styleRec.desired = given /\ styleQueue <= prompts

StyleTurns == [at : {"none", "taken", "read", "live", "saved"}, want : Styles,
               applied : Styles, refused : Styles \cup {NoStyle}]

StyleSetters == [at : {"start", "asked", "read", "recycle", "done"}, style : Styles,
                 alive : BOOLEAN, active : BOOLEAN, copy : StyleRecord]

(* The invariant, one variable at a time.                                  *)
LEMMA StyleParts ==
  StyleInv <=> /\ styleRec \in StyleRecord /\ styleRec.desired = given
               /\ styleOwner \in {"none", "idle", "turn", "boundary"}
               /\ made \in Styles /\ query \in Styles \cup {NoStyle}
               /\ styleTurn \in StyleTurns
               /\ styleQueue \in 0 .. MaxPrompts /\ prompts \in 0 .. MaxPrompts
               /\ styleQueue <= prompts
               /\ setter \in [Setters -> StyleSetters]
               /\ given \in Styles
  BY DEF StyleInv, StyleTypeOK, StyleTurns, StyleSetters

(* The same of the next state.                                             *)
LEMMA StyleNextParts ==
  StyleInv' <=> /\ styleRec' \in StyleRecord /\ styleRec'.desired = given'
                /\ styleOwner' \in {"none", "idle", "turn", "boundary"}
                /\ made' \in Styles /\ query' \in Styles \cup {NoStyle}
                /\ styleTurn' \in StyleTurns
                /\ styleQueue' \in 0 .. MaxPrompts /\ prompts' \in 0 .. MaxPrompts
                /\ styleQueue' <= prompts'
                /\ setter' \in [Setters -> StyleSetters]
                /\ given' \in Styles
  BY DEF StyleInv, StyleTypeOK, StyleTurns, StyleSetters

(* At the start nobody has asked for a style.                              *)
LEMMA StyleBegins == StyleInit => StyleInv
<1> SUFFICES ASSUME StyleInit PROVE StyleInv
  OBVIOUS
<1>1. DefaultStyle \in Styles /\ 0 \in 0 .. MaxPrompts
  BY StyleAssumption
<1>2. styleRec \in StyleRecord /\ styleRec.desired = given
  BY <1>1 DEF StyleInit, StyleRecord
<1>3. NoTurn \in StyleTurns
  BY <1>1 DEF NoTurn, StyleTurns
<1>4. setter \in [Setters -> StyleSetters]
  BY <1>1, <1>2 DEF StyleInit, StyleSetters
<1> QED
  <2>1. /\ styleOwner = "none" /\ made = DefaultStyle /\ query = NoStyle /\ styleTurn = NoTurn
        /\ styleQueue = 0 /\ prompts = 0 /\ given = DefaultStyle
    BY DEF StyleInit
  <2> QED
    BY <1>1, <1>2, <1>3, <1>4, <2>1, StyleParts

(* A step of the owner or of a sender.                                     *)
LEMMA OwnerStepsStyle ==
  ASSUME StyleInv, SendPrompt \/ OwnerGone \/ StyleOwnerSteps
  PROVE  StyleInv'
<1>0. /\ styleRec \in StyleRecord /\ styleRec.desired = given /\ given \in Styles
      /\ styleOwner \in {"none", "idle", "turn", "boundary"}
      /\ made \in Styles /\ query \in Styles \cup {NoStyle}
      /\ styleTurn \in StyleTurns
      /\ styleQueue \in 0 .. MaxPrompts /\ prompts \in 0 .. MaxPrompts /\ styleQueue <= prompts
      /\ setter \in [Setters -> StyleSetters]
  BY StyleParts
<1>a. /\ DefaultStyle \in Styles /\ MaxPrompts \in Nat /\ NoTurn \in StyleTurns
      /\ 0 \in 0 .. MaxPrompts
  BY StyleAssumption DEF NoTurn, StyleTurns
<1>1. CASE SendPrompt
  <2>1. styleRec' \in StyleRecord /\ styleRec'.desired = given' /\ given' \in Styles
    BY <1>0, <1>1 DEF SendPrompt
  <2>2. styleOwner' \in {"none", "idle", "turn", "boundary"} /\ made' \in Styles
       /\ query' \in Styles \cup {NoStyle}
    BY <1>0, <1>a, <1>1 DEF SendPrompt
  <2>3. styleTurn' \in StyleTurns
    BY <1>0, <1>a, <1>1 DEF SendPrompt
  <2>4. styleQueue' \in 0 .. MaxPrompts /\ prompts' \in 0 .. MaxPrompts /\ styleQueue' <= prompts'
    BY <1>0, <1>a, <1>1 DEF SendPrompt
  <2>5. setter' \in [Setters -> StyleSetters]
    BY <1>0, <1>1 DEF SendPrompt
  <2> QED
    BY <2>1, <2>2, <2>3, <2>4, <2>5, StyleNextParts
<1>2. CASE OwnerGone
  <2>1. styleRec' \in StyleRecord /\ styleRec'.desired = given' /\ given' \in Styles
    BY <1>0, <1>2 DEF OwnerGone, OwnerEnds
  <2>2. styleOwner' \in {"none", "idle", "turn", "boundary"} /\ made' \in Styles
       /\ query' \in Styles \cup {NoStyle}
    BY <1>0, <1>a, <1>2 DEF OwnerGone, OwnerEnds
  <2>3. styleTurn' \in StyleTurns
    BY <1>0, <1>a, <1>2 DEF OwnerGone, OwnerEnds
  <2>4. styleQueue' \in 0 .. MaxPrompts /\ prompts' \in 0 .. MaxPrompts /\ styleQueue' <= prompts'
    BY <1>0, <1>a, <1>2 DEF OwnerGone, OwnerEnds
  <2>5. setter' \in [Setters -> StyleSetters]
    BY <1>0, <1>2 DEF OwnerGone, OwnerEnds
  <2> QED
    BY <2>1, <2>2, <2>3, <2>4, <2>5, StyleNextParts
<1>3. CASE TakePrompt
  <2>1. styleRec' \in StyleRecord /\ styleRec'.desired = given' /\ given' \in Styles
    BY <1>0, <1>3 DEF TakePrompt
  <2>2. styleOwner' \in {"none", "idle", "turn", "boundary"} /\ made' \in Styles
       /\ query' \in Styles \cup {NoStyle}
    BY <1>0, <1>a, <1>3 DEF TakePrompt
  <2>3. styleTurn' \in StyleTurns
    BY <1>0, <1>a, <1>3 DEF TakePrompt, StyleTurns, StyleRecord, NoTurn
  <2>4. styleQueue' \in 0 .. MaxPrompts /\ prompts' \in 0 .. MaxPrompts /\ styleQueue' <= prompts'
    BY <1>0, <1>a, <1>3 DEF TakePrompt
  <2>5. setter' \in [Setters -> StyleSetters]
    BY <1>0, <1>3 DEF TakePrompt
  <2> QED
    BY <2>1, <2>2, <2>3, <2>4, <2>5, StyleNextParts
<1>4. CASE ReadForTurn
  <2>1. styleRec' \in StyleRecord /\ styleRec'.desired = given' /\ given' \in Styles
    BY <1>0, <1>4 DEF ReadForTurn
  <2>2. styleOwner' \in {"none", "idle", "turn", "boundary"} /\ made' \in Styles
       /\ query' \in Styles \cup {NoStyle}
    BY <1>0, <1>a, <1>4 DEF ReadForTurn
  <2>3. styleTurn' \in StyleTurns
    BY <1>0, <1>a, <1>4 DEF ReadForTurn, StyleTurns, StyleRecord, NoTurn
  <2>4. styleQueue' \in 0 .. MaxPrompts /\ prompts' \in 0 .. MaxPrompts /\ styleQueue' <= prompts'
    BY <1>0, <1>a, <1>4 DEF ReadForTurn
  <2>5. setter' \in [Setters -> StyleSetters]
    BY <1>0, <1>4 DEF ReadForTurn
  <2> QED
    BY <2>1, <2>2, <2>3, <2>4, <2>5, StyleNextParts
<1>5. CASE ConnectWarm
  <2>1. styleRec' \in StyleRecord /\ styleRec'.desired = given' /\ given' \in Styles
    BY <1>0, <1>5 DEF ConnectWarm, Outcome
  <2>2. styleOwner' \in {"none", "idle", "turn", "boundary"} /\ made' \in Styles
       /\ query' \in Styles \cup {NoStyle}
    BY <1>0, <1>a, <1>5 DEF ConnectWarm, Outcome
  <2>3. styleTurn' \in StyleTurns
    BY <1>0, <1>a, <1>5 DEF ConnectWarm, Outcome, StyleTurns, StyleRecord, NoTurn
  <2>4. styleQueue' \in 0 .. MaxPrompts /\ prompts' \in 0 .. MaxPrompts /\ styleQueue' <= prompts'
    BY <1>0, <1>a, <1>5 DEF ConnectWarm, Outcome
  <2>5. setter' \in [Setters -> StyleSetters]
    BY <1>0, <1>5 DEF ConnectWarm, Outcome
  <2> QED
    BY <2>1, <2>2, <2>3, <2>4, <2>5, StyleNextParts
<1>6. CASE ConnectCold
  <2>1. styleRec' \in StyleRecord /\ styleRec'.desired = given' /\ given' \in Styles
    BY <1>0, <1>6 DEF ConnectCold, Outcome
  <2>2. styleOwner' \in {"none", "idle", "turn", "boundary"} /\ made' \in Styles
       /\ query' \in Styles \cup {NoStyle}
    BY <1>0, <1>a, <1>6 DEF ConnectCold, Outcome
  <2>3. styleTurn' \in StyleTurns
    BY <1>0, <1>a, <1>6 DEF ConnectCold, Outcome, StyleTurns, StyleRecord, NoTurn
  <2>4. styleQueue' \in 0 .. MaxPrompts /\ prompts' \in 0 .. MaxPrompts /\ styleQueue' <= prompts'
    BY <1>0, <1>a, <1>6 DEF ConnectCold, Outcome
  <2>5. setter' \in [Setters -> StyleSetters]
    BY <1>0, <1>6 DEF ConnectCold, Outcome
  <2> QED
    BY <2>1, <2>2, <2>3, <2>4, <2>5, StyleNextParts
<1>7. CASE SaveTurn
  <2>1. styleRec' \in StyleRecord /\ styleRec'.desired = given' /\ given' \in Styles
    BY <1>0, <1>7 DEF SaveTurn, Merged, StyleRecord, StyleTurns
  <2>2. styleOwner' \in {"none", "idle", "turn", "boundary"} /\ made' \in Styles
       /\ query' \in Styles \cup {NoStyle}
    BY <1>0, <1>a, <1>7 DEF SaveTurn, Merged
  <2>3. styleTurn' \in StyleTurns
    BY <1>0, <1>a, <1>7 DEF SaveTurn, Merged, StyleTurns
  <2>4. styleQueue' \in 0 .. MaxPrompts /\ prompts' \in 0 .. MaxPrompts /\ styleQueue' <= prompts'
    BY <1>0, <1>a, <1>7 DEF SaveTurn, Merged
  <2>5. setter' \in [Setters -> StyleSetters]
    BY <1>0, <1>7 DEF SaveTurn, Merged
  <2> QED
    BY <2>1, <2>2, <2>3, <2>4, <2>5, StyleNextParts
<1>8. CASE TurnOver
  <2>1. styleRec' \in StyleRecord /\ styleRec'.desired = given' /\ given' \in Styles
    BY <1>0, <1>8 DEF TurnOver
  <2>2. styleOwner' \in {"none", "idle", "turn", "boundary"} /\ made' \in Styles
       /\ query' \in Styles \cup {NoStyle}
    BY <1>0, <1>a, <1>8 DEF TurnOver
  <2>3. styleTurn' \in StyleTurns
    BY <1>0, <1>a, <1>8 DEF TurnOver
  <2>4. styleQueue' \in 0 .. MaxPrompts /\ prompts' \in 0 .. MaxPrompts /\ styleQueue' <= prompts'
    BY <1>0, <1>a, <1>8 DEF TurnOver
  <2>5. setter' \in [Setters -> StyleSetters]
    BY <1>0, <1>8 DEF TurnOver
  <2> QED
    BY <2>1, <2>2, <2>3, <2>4, <2>5, StyleNextParts
<1>9. CASE AtBoundary
  <2>1. styleRec' \in StyleRecord /\ styleRec'.desired = given' /\ given' \in Styles
    BY <1>0, <1>9 DEF AtBoundary, OwnerEnds
  <2>2. styleOwner' \in {"none", "idle", "turn", "boundary"} /\ made' \in Styles
       /\ query' \in Styles \cup {NoStyle}
    BY <1>0, <1>a, <1>9 DEF AtBoundary, OwnerEnds
  <2>3. styleTurn' \in StyleTurns
    BY <1>0, <1>a, <1>9 DEF AtBoundary, OwnerEnds
  <2>4. styleQueue' \in 0 .. MaxPrompts /\ prompts' \in 0 .. MaxPrompts /\ styleQueue' <= prompts'
    BY <1>0, <1>a, <1>9 DEF AtBoundary, OwnerEnds
  <2>5. setter' \in [Setters -> StyleSetters]
    BY <1>0, <1>9 DEF AtBoundary, OwnerEnds
  <2> QED
    BY <2>1, <2>2, <2>3, <2>4, <2>5, StyleNextParts
<1>10. CASE IdleRelease
  <2>1. styleRec' \in StyleRecord /\ styleRec'.desired = given' /\ given' \in Styles
    BY <1>0, <1>10 DEF IdleRelease, OwnerEnds
  <2>2. styleOwner' \in {"none", "idle", "turn", "boundary"} /\ made' \in Styles
       /\ query' \in Styles \cup {NoStyle}
    BY <1>0, <1>a, <1>10 DEF IdleRelease, OwnerEnds
  <2>3. styleTurn' \in StyleTurns
    BY <1>0, <1>a, <1>10 DEF IdleRelease, OwnerEnds
  <2>4. styleQueue' \in 0 .. MaxPrompts /\ prompts' \in 0 .. MaxPrompts /\ styleQueue' <= prompts'
    BY <1>0, <1>a, <1>10 DEF IdleRelease, OwnerEnds
  <2>5. setter' \in [Setters -> StyleSetters]
    BY <1>0, <1>10 DEF IdleRelease, OwnerEnds
  <2> QED
    BY <2>1, <2>2, <2>3, <2>4, <2>5, StyleNextParts
<1> QED
  BY <1>1, <1>2, <1>3, <1>4, <1>5, <1>6, <1>7, <1>8, <1>9, <1>10 DEF StyleOwnerSteps

(* A step of a setter.                                                     *)
LEMMA SetterStepsStyle ==
  ASSUME StyleInv, NEW c \in Setters, SetterSteps(c)
  PROVE  StyleInv'
<1>0. /\ styleRec \in StyleRecord /\ styleRec.desired = given /\ given \in Styles
      /\ styleOwner \in {"none", "idle", "turn", "boundary"}
      /\ made \in Styles /\ query \in Styles \cup {NoStyle}
      /\ styleTurn \in StyleTurns
      /\ styleQueue \in 0 .. MaxPrompts /\ prompts \in 0 .. MaxPrompts /\ styleQueue <= prompts
      /\ setter \in [Setters -> StyleSetters]
  BY StyleParts
<1>a. /\ DefaultStyle \in Styles /\ MaxPrompts \in Nat /\ NoTurn \in StyleTurns
      /\ 0 \in 0 .. MaxPrompts
  BY StyleAssumption DEF NoTurn, StyleTurns
<1>1. ASSUME NEW s \in Styles, AskOwner(c, s)
      PROVE  StyleInv'
  <2>1. styleRec' \in StyleRecord /\ styleRec'.desired = given' /\ given' \in Styles
    BY <1>0, <1>1 DEF AskOwner
  <2>2. styleOwner' \in {"none", "idle", "turn", "boundary"} /\ made' \in Styles
       /\ query' \in Styles \cup {NoStyle}
    BY <1>0, <1>a, <1>1 DEF AskOwner
  <2>3. styleTurn' \in StyleTurns
    BY <1>0, <1>a, <1>1 DEF AskOwner
  <2>4. styleQueue' \in 0 .. MaxPrompts /\ prompts' \in 0 .. MaxPrompts /\ styleQueue' <= prompts'
    BY <1>0, <1>a, <1>1 DEF AskOwner
  <2>5. setter' \in [Setters -> StyleSetters]
    <3>1. PICK answered \in BOOLEAN :
            setter' = [setter EXCEPT ![c].at = "asked", ![c].style = s,
                         ![c].alive = styleOwner # "none",
                         ![c].active = answered /\ styleOwner = "turn"]
      BY <1>1 DEF AskOwner
    <3>2. PICK b1 \in BOOLEAN, b2 \in BOOLEAN :
            setter' = [setter EXCEPT ![c].at = "asked", ![c].style = s,
                         ![c].alive = b1, ![c].active = b2]
      BY <3>1, Zenon
    <3>3. PICK r \in StyleSetters :
            setter' = [setter EXCEPT ![c] = r]
      <4>1. /\ setter[c] \in StyleSetters
            /\ [setter[c] EXCEPT !.at = "asked", !.style = s, !.alive = b1, !.active = b2]
                 \in StyleSetters
        BY <1>0 DEF StyleSetters
      <4> QED
        BY <3>2, <4>1
    <3> QED
      BY <1>0, <3>3
  <2> QED
    BY <2>1, <2>2, <2>3, <2>4, <2>5, StyleNextParts
<1>2. CASE ReadForSet(c)
  <2>1. styleRec' \in StyleRecord /\ styleRec'.desired = given' /\ given' \in Styles
    BY <1>0, <1>2 DEF ReadForSet
  <2>2. styleOwner' \in {"none", "idle", "turn", "boundary"} /\ made' \in Styles
       /\ query' \in Styles \cup {NoStyle}
    BY <1>0, <1>a, <1>2 DEF ReadForSet
  <2>3. styleTurn' \in StyleTurns
    BY <1>0, <1>a, <1>2 DEF ReadForSet
  <2>4. styleQueue' \in 0 .. MaxPrompts /\ prompts' \in 0 .. MaxPrompts /\ styleQueue' <= prompts'
    BY <1>0, <1>a, <1>2 DEF ReadForSet
  <2>5. setter' \in [Setters -> StyleSetters]
    <3>1. /\ setter[c] \in StyleSetters
          /\ [setter[c] EXCEPT !.at = "read", !.copy = styleRec] \in StyleSetters
      BY <1>0 DEF StyleSetters
    <3>2. setter' = [setter EXCEPT ![c] = [setter[c] EXCEPT !.at = "read", !.copy = styleRec]]
      BY <1>2 DEF ReadForSet
    <3> QED
      BY <1>0, <3>1, <3>2
  <2> QED
    BY <2>1, <2>2, <2>3, <2>4, <2>5, StyleNextParts
<1>3. CASE WriteStyle(c)
  <2>1. styleRec' \in StyleRecord /\ styleRec'.desired = given' /\ given' \in Styles
    <3>1. setter[c].copy \in StyleRecord /\ setter[c].style \in Styles
      BY <1>0 DEF StyleSetters
    <3>2. /\ styleRec' = [setter[c].copy EXCEPT !.desired = setter[c].style]
          /\ given' = setter[c].style
      BY <1>3 DEF WriteStyle
    <3> QED
      BY <3>1, <3>2 DEF StyleRecord
  <2>2. styleOwner' \in {"none", "idle", "turn", "boundary"} /\ made' \in Styles
       /\ query' \in Styles \cup {NoStyle}
    BY <1>0, <1>a, <1>3 DEF WriteStyle
  <2>3. styleTurn' \in StyleTurns
    BY <1>0, <1>a, <1>3 DEF WriteStyle, StyleTurns
  <2>4. styleQueue' \in 0 .. MaxPrompts /\ prompts' \in 0 .. MaxPrompts /\ styleQueue' <= prompts'
    BY <1>0, <1>a, <1>3 DEF WriteStyle
  <2>5. setter' \in [Setters -> StyleSetters]
    BY <1>0, <1>3 DEF WriteStyle, StyleSetters, StyleRecord
  <2> QED
    BY <2>1, <2>2, <2>3, <2>4, <2>5, StyleNextParts
<1>4. CASE RecycleOwner(c)
  <2>1. styleRec' \in StyleRecord /\ styleRec'.desired = given' /\ given' \in Styles
    BY <1>0, <1>4 DEF RecycleOwner, OwnerEnds
  <2>2. styleOwner' \in {"none", "idle", "turn", "boundary"} /\ made' \in Styles
       /\ query' \in Styles \cup {NoStyle}
    BY <1>0, <1>a, <1>4 DEF RecycleOwner, OwnerEnds
  <2>3. styleTurn' \in StyleTurns
    BY <1>0, <1>a, <1>4 DEF RecycleOwner, OwnerEnds
  <2>4. styleQueue' \in 0 .. MaxPrompts /\ prompts' \in 0 .. MaxPrompts /\ styleQueue' <= prompts'
    BY <1>0, <1>a, <1>4 DEF RecycleOwner, OwnerEnds
  <2>5. setter' \in [Setters -> StyleSetters]
    BY <1>0, <1>4 DEF RecycleOwner, OwnerEnds, StyleSetters, StyleRecord
  <2> QED
    BY <2>1, <2>2, <2>3, <2>4, <2>5, StyleNextParts
<1> QED
  BY <1>1, <1>2, <1>3, <1>4 DEF SetterSteps

(* Every step keeps the invariant.                                         *)
LEMMA StyleStep == StyleInv /\ [StyleNext]_styleVars => StyleInv'
<1> SUFFICES ASSUME StyleInv, [StyleNext]_styleVars PROVE StyleInv'
  OBVIOUS
<1>1. CASE UNCHANGED styleVars
  BY <1>1, StyleParts, StyleNextParts DEF styleVars
<1>2. CASE StyleNext
  BY <1>2, OwnerStepsStyle, SetterStepsStyle DEF StyleNext
<1> QED
  BY <1>1, <1>2

(* The record, its owner, its turns and its setters are well typed, for    *)
(* any styles, setters and prompts.                                        *)
THEOREM StyleTypeCorrect == StyleSpec => []StyleTypeOK
<1>1. StyleInv => StyleTypeOK
  BY DEF StyleInv
<1> QED
  BY <1>1, StyleBegins, StyleStep, PTL DEF StyleSpec

(* No save of a turn that read the record before a setter wrote it, and no *)
(* end of an owner, brings an older style back: the part of StyleTakenUp   *)
(* that needs no fairness.                                                 *)
THEOREM LastStyleAlwaysStands == StyleSpec => LastStyleStands
<1>1. StyleInv' => [styleRec'.desired = given']_styleVars
  BY DEF StyleInv
<1> QED
  BY <1>1, StyleBegins, StyleStep, PTL DEF StyleSpec, LastStyleStands

==============================================================================
