------------------------- MODULE MessagesLogProofs -------------------------
(***************************************************************************)
(* The history of a session on disk (MessagesLog), for any window, any     *)
(* number of entries, of writes under way and of ends of a process, of a   *)
(* session that is not closed while it has an owner: what a reader gets    *)
(* has every entry once, in order, and loses none that a record write had  *)
(* put on disk.                                                            *)
(*                                                                         *)
(* The argument compares everything with one sequence, the conversation as *)
(* the process that holds the copy has it: the log up to its pointer, then *)
(* the entries it has not logged (Live).  Every step but a compaction      *)
(* makes it grow or leaves it, and whatever is on disk, or is about to be, *)
(* is a less advanced copy of it.                                          *)
(***************************************************************************)
EXTENDS MessagesLog, SequenceTheorems, FiniteSetTheorems, TLAPS

(***************************************************************************)
(* Sequences of entries.                                                   *)
(***************************************************************************)

\* In the order in which they were said, each once.
Ascending(s) == \A i, j \in DOMAIN s : i < j => s[i].id < s[j].id

\* An entry is in the sequence, and no less whole.
Has(s, e) == \E k \in DOMAIN s : s[k].id = e.id /\ (e.whole => s[k].whole)

\* Or at least a window of entries came after it.
Survives(s, e, ids) == Has(s, e) \/ Cardinality({n \in ids : n > e.id}) >= Window

\* The one sequence is an earlier state of the other.
Advances(s, t) ==
  /\ Len(s) <= Len(t)
  /\ \A k \in 1 .. Len(s) : t[k].id = s[k].id /\ (s[k].whole => t[k].whole)

\* The inline tail of a record goes on where its pointer ends.
Follows(rec, s) ==
  \A i \in 1 .. Len(rec.tail) :
    /\ Upto(rec.pointer) + i <= Len(s)
    /\ s[Upto(rec.pointer) + i].id = rec.tail[i].id
    /\ rec.tail[i].whole => s[Upto(rec.pointer) + i].whole

\* What a holder or a record counts as logged, and the conversation as a holder has it.
Counted(pointer, lines) == IF pointer = NoPointer THEN <<>> ELSE lines
Live(c, lines) == Counted(c.pointer, lines) \o After(c.messages, c.logged)

\* What is left of a sequence after some of its elements.
LEMMA AfterFacts ==
  ASSUME NEW S, NEW s \in Seq(S), NEW n \in 0 .. Len(s)
  PROVE  /\ After(s, n) \in Seq(S)
         /\ Len(After(s, n)) = Len(s) - n
         /\ \A i \in 1 .. Len(s) - n : After(s, n)[i] = s[n + i]
<1>1. n + 1 \in Int /\ Len(s) \in Int /\ \A i \in n + 1 .. Len(s) : s[i] \in S
  BY LenProperties, ElementOfSeq
<1>2. /\ SubSeq(s, n + 1, Len(s)) \in Seq(S)
      /\ Len(SubSeq(s, n + 1, Len(s))) = IF n + 1 <= Len(s) THEN Len(s) - (n + 1) + 1 ELSE 0
      /\ \A i \in 1 .. Len(s) - (n + 1) + 1 : SubSeq(s, n + 1, Len(s))[i] = s[n + 1 + i - 1]
  BY <1>1, SubSeqProperties
<1>3. \A i \in 1 .. Len(s) - n : n + 1 + i - 1 = n + i
  BY <1>1
<1> QED
  BY <1>1, <1>2, <1>3 DEF After

\* The last elements of a sequence.
LEMMA LastOfFacts ==
  ASSUME NEW S, NEW s \in Seq(S), NEW n \in Nat
  PROVE  /\ LastOf(s, n) \in Seq(S)
         /\ Len(LastOf(s, n)) = IF Len(s) > n THEN n ELSE Len(s)
         /\ \A i \in 1 .. Len(LastOf(s, n)) : LastOf(s, n)[i] = s[Len(s) - Len(LastOf(s, n)) + i]
         /\ Len(s) <= n => LastOf(s, n) = s
<1>1. Len(s) \in Nat
  BY LenProperties
<1>2. CASE Len(s) > n
  <2>1. PICK m \in 0 .. Len(s) : m = Len(s) - n
    BY <1>1, <1>2
  <2>2. LastOf(s, n) = After(s, m) /\ Len(s) - m = n
    BY <1>1, <1>2, <2>1 DEF LastOf, After
  <2>3. /\ After(s, m) \in Seq(S) /\ Len(After(s, m)) = n
        /\ \A i \in 1 .. n : After(s, m)[i] = s[m + i]
    BY <2>2, AfterFacts
  <2>4. Len(LastOf(s, n)) = n /\ Len(s) - Len(LastOf(s, n)) = m
    BY <2>1, <2>2, <2>3
  <2>5. \A i \in 1 .. Len(LastOf(s, n)) : LastOf(s, n)[i] = s[Len(s) - Len(LastOf(s, n)) + i]
    BY <2>2, <2>3, <2>4
  <2>6. ~(Len(s) <= n)
    BY <1>1, <1>2
  <2> QED
    BY <1>2, <2>2, <2>3, <2>4, <2>5, <2>6
<1>3. CASE ~(Len(s) > n)
  BY <1>1, <1>3 DEF LastOf
<1> QED
  BY <1>2, <1>3

\* The conversation as a holder has it: the lines it counts, and its own entries after them.
LEMMA LiveFacts ==
  ASSUME NEW S, NEW lines \in Seq(S), NEW c, c.messages \in Seq(S), c.logged \in 0 .. Len(c.messages)
  PROVE  /\ Live(c, lines) \in Seq(S) /\ Counted(c.pointer, lines) \in Seq(S)
         /\ Len(Counted(c.pointer, lines)) \in Nat
         /\ Len(Live(c, lines)) = Len(Counted(c.pointer, lines)) + (Len(c.messages) - c.logged)
         /\ \A i \in 1 .. Len(Counted(c.pointer, lines)) : Live(c, lines)[i] = Counted(c.pointer, lines)[i]
         /\ \A j \in c.logged + 1 .. Len(c.messages) :
              Live(c, lines)[Len(Counted(c.pointer, lines)) + (j - c.logged)] = c.messages[j]
<1> DEFINE counted == Counted(c.pointer, lines)
           rest == After(c.messages, c.logged)
<1>1. counted \in Seq(S) /\ Len(counted) \in Nat
  BY EmptySeq, LenProperties DEF Counted
<1>2. /\ rest \in Seq(S) /\ Len(rest) = Len(c.messages) - c.logged
      /\ \A i \in 1 .. Len(c.messages) - c.logged : rest[i] = c.messages[c.logged + i]
  BY AfterFacts
<1>3. Len(c.messages) \in Nat /\ c.logged \in Nat
  BY LenProperties
<1> HIDE DEF counted, rest
<1>4. /\ counted \o rest \in Seq(S)
      /\ Len(counted \o rest) = Len(counted) + Len(rest)
      /\ \A i \in 1 .. Len(counted) + Len(rest) :
           (counted \o rest)[i] = IF i <= Len(counted) THEN counted[i] ELSE rest[i - Len(counted)]
  BY <1>1, <1>2, ConcatProperties
<1>5. ASSUME NEW j \in c.logged + 1 .. Len(c.messages)
      PROVE  (counted \o rest)[Len(counted) + (j - c.logged)] = c.messages[j]
  <2>1. PICK i \in 1 .. Len(c.messages) - c.logged : j = c.logged + i /\ j - c.logged = i
    BY <1>3, <1>5
  <2>2. /\ Len(counted) + i \in 1 .. Len(counted) + Len(rest)
        /\ ~(Len(counted) + i <= Len(counted)) /\ (Len(counted) + i) - Len(counted) = i
    BY <1>1, <1>2, <1>3
  <2> QED
    BY <1>2, <1>4, <2>1, <2>2
<1>6. /\ Len(counted \o rest) = Len(counted) + (Len(c.messages) - c.logged)
      /\ \A i \in 1 .. Len(counted) : (counted \o rest)[i] = counted[i]
  BY <1>1, <1>2, <1>3, <1>4
<1>7. Live(c, lines) = counted \o rest /\ Counted(c.pointer, lines) = counted
  BY DEF Live, counted, rest
<1> QED
  BY <1>1, <1>4, <1>5, <1>6, <1>7

\* The lesser and the greater of two numbers.
LEMMA OfTwo ==
  ASSUME NEW a \in Nat, NEW b \in Nat
  PROVE  /\ Min({a, b}) = IF a <= b THEN a ELSE b
         /\ Max({a, b}) = IF a <= b THEN b ELSE a
<1>1. \E x \in {a, b} : \A y \in {a, b} : x =< y
  OBVIOUS
<1>2. Min({a, b}) \in {a, b} /\ \A y \in {a, b} : Min({a, b}) =< y
  BY <1>1 DEF Min
<1>3. \E x \in {a, b} : \A y \in {a, b} : x >= y
  OBVIOUS
<1>4. Max({a, b}) \in {a, b} /\ \A y \in {a, b} : Max({a, b}) >= y
  BY <1>3 DEF Max
<1> QED
  BY <1>2, <1>4

\* What a reader gets from a record and a log without broken lines: the lines, if the record has a
\* pointer, and the entries of its tail that go beyond them.
LEMMA HistoryFacts ==
  ASSUME NEW S, \A x \in S : x.id # 0,
         NEW rec, rec.pointer \in Nat, rec.tail \in Seq(S), NEW lines \in Seq(S),
         rec.pointer # NoPointer => Upto(rec.pointer) <= Len(lines)
  PROVE  /\ History(rec, lines) \in Seq(S)
         /\ Len(History(rec, lines)) = IF Upto(rec.pointer) + Len(rec.tail) > Len(Counted(rec.pointer, lines))
                                       THEN Upto(rec.pointer) + Len(rec.tail)
                                       ELSE Len(Counted(rec.pointer, lines))
         /\ Upto(rec.pointer) \in Nat /\ Upto(rec.pointer) <= Len(Counted(rec.pointer, lines))
         /\ \A i \in 1 .. Len(History(rec, lines)) :
              History(rec, lines)[i] = IF i <= Len(Counted(rec.pointer, lines))
                                       THEN Counted(rec.pointer, lines)[i]
                                       ELSE rec.tail[i - Upto(rec.pointer)]
<1>1. Len(lines) \in Nat /\ Len(rec.tail) \in Nat /\ Upto(rec.pointer) \in Nat
  BY LenProperties DEF Upto, NoPointer
<1>2. CASE rec.pointer = NoPointer
  <2>1. /\ History(rec, lines) = <<>> \o rec.tail /\ Counted(rec.pointer, lines) = <<>>
        /\ Upto(rec.pointer) = 0
    BY <1>2 DEF History, Logged, Inline, Counted, Upto, NoPointer
  <2>2. History(rec, lines) = rec.tail
    BY <2>1, ConcatEmptySeq
  <2>3. Len(<<>>) = 0 /\ \A i \in 1 .. Len(rec.tail) : i - 0 = i /\ ~(i <= 0)
    BY EmptySeq, <1>1
  <2> QED
    BY <1>1, <2>1, <2>2, <2>3
<1>3. CASE rec.pointer # NoPointer
  <2> DEFINE n == Upto(rec.pointer)
             beyond == Len(lines) - n
             skip == IF beyond <= Len(rec.tail) THEN beyond ELSE Len(rec.tail)
  <2>1. \A s \in Seq(S) : Readable(s) = s
    <3>1. ASSUME NEW s \in Seq(S) PROVE \A i \in DOMAIN s : s[i].id # 0
      BY <3>1, LenProperties, ElementOfSeq
    <3> QED
      BY <3>1 DEF Readable
  <2>2. n \in 0 .. Len(lines) /\ beyond \in Nat /\ skip \in 0 .. Len(rec.tail)
    BY <1>1, <1>3
  <2>3. After(lines, n) \in Seq(S) /\ Len(After(lines, n)) = beyond
    BY <2>2, AfterFacts
  <2>4. Unrecorded(rec, lines) = After(lines, n)
    BY <2>1, <2>3 DEF Unrecorded
  <2>5. Min({beyond, Len(rec.tail)}) = skip
    BY <1>1, <2>2, OfTwo
  <2> HIDE DEF n, beyond, skip
  <2>6. /\ Inline(rec, lines) = After(rec.tail, skip)
        /\ Logged(rec, lines) = lines /\ Counted(rec.pointer, lines) = lines
    BY <1>3, <2>1, <2>3, <2>4, <2>5 DEF Inline, Logged, Counted
  <2>7. /\ After(rec.tail, skip) \in Seq(S) /\ Len(After(rec.tail, skip)) = Len(rec.tail) - skip
        /\ \A i \in 1 .. Len(rec.tail) - skip : After(rec.tail, skip)[i] = rec.tail[skip + i]
    BY <2>2, AfterFacts
  <2> DEFINE told == lines \o After(rec.tail, skip)
  <2>8. /\ told \in Seq(S) /\ Len(told) = Len(lines) + Len(After(rec.tail, skip))
        /\ \A i \in 1 .. Len(lines) + Len(After(rec.tail, skip)) :
             told[i] = IF i <= Len(lines) THEN lines[i] ELSE After(rec.tail, skip)[i - Len(lines)]
    BY <2>7, ConcatProperties
  <2>9. History(rec, lines) = told
    BY <2>6 DEF History
  <2> HIDE DEF told
  <2>10. PICK a \in Nat, b \in Nat, x \in Nat :
          /\ a = Len(lines) /\ b = Len(rec.tail) /\ x = n
          /\ n <= a /\ beyond = a - x /\ skip = IF a - x <= b THEN a - x ELSE b
          /\ Len(told) = a + (b - skip)
    <3>1. beyond = Len(lines) - n /\ skip = IF beyond <= Len(rec.tail) THEN beyond ELSE Len(rec.tail)
      BY DEF beyond, skip
    <3>2. Len(told) = Len(lines) + (Len(rec.tail) - skip)
      BY <2>7, <2>8
    <3>3. n \in Nat /\ n <= Len(lines)
      BY <1>1, <2>2
    <3> QED
      BY <1>1, <3>1, <3>2, <3>3
  <2>11. Len(told) = IF n + Len(rec.tail) > Len(lines) THEN n + Len(rec.tail) ELSE Len(lines)
    <3>1. skip \in Nat
      BY <2>2
    <3>2. Len(told) = IF x + b > a THEN x + b ELSE a
      <4>1. \A z, t \in Nat :
              x <= a /\ z = (IF a - x <= b THEN a - x ELSE b) /\ t = a + (b - z)
                => t = IF x + b > a THEN x + b ELSE a
        OBVIOUS
      <4> QED
        BY <2>8, <2>10, <3>1, <4>1, LenProperties
    <3> QED
      BY <2>10, <3>2
  <2>12. ASSUME NEW i \in 1 .. Len(told), ~(i <= Len(lines)) PROVE told[i] = rec.tail[i - n]
    <3>1. PICK k \in Nat : k = i /\ 1 <= k /\ k <= a + (b - skip) /\ ~(k <= a)
      BY <2>2, <2>10, <2>12
    <3>2. skip \in Nat /\ skip <= b
      BY <2>2, <2>10
    <3>3. a - x <= b
      <4>1. CASE ~(a - x <= b)
        <5>1. skip = b
          BY <2>10, <4>1
        <5> QED
          BY <3>1, <5>1
      <4> QED
        BY <4>1
    <3>4. skip = a - x
      BY <2>10, <3>3
    <3>5. k - a \in 1 .. b - skip /\ skip + (k - a) = k - x
      BY <2>10, <3>1, <3>2, <3>4
    <3>6. told[k] = After(rec.tail, skip)[k - a] /\ After(rec.tail, skip)[k - a] = rec.tail[skip + (k - a)]
      BY <2>7, <2>8, <2>10, <2>12, <3>1, <3>5
    <3> QED
      BY <2>10, <3>1, <3>5, <3>6
  <2>13. \A i \in 1 .. Len(told) : i <= Len(lines) => told[i] = lines[i]
    BY <2>8
  <2>14. n = Upto(rec.pointer) /\ n <= Len(lines)
    BY <2>2 DEF n
  <2> QED
    BY <1>1, <2>6, <2>8, <2>9, <2>11, <2>12, <2>13, <2>14
<1> QED
  BY <1>2, <1>3

\* An ascending sequence has each entry at one place.
LEMMA OnePlace ==
  ASSUME NEW S, \A x \in S : x.id \in Nat, NEW s \in Seq(S), Ascending(s),
         NEW i \in 1 .. Len(s), NEW j \in 1 .. Len(s), s[i].id = s[j].id
  PROVE  i = j
<1>1. DOMAIN s = 1 .. Len(s) /\ s[i].id \in Nat /\ s[j].id \in Nat /\ Len(s) \in Nat
  BY LenProperties, ElementOfSeq
<1>2. ~(i < j) /\ ~(j < i)
  BY <1>1 DEF Ascending
<1> QED
  BY <1>1, <1>2

\* The history that a record and the log give is an earlier state of a conversation that both
\* follow: the lines are its beginning, and the tail goes on in it.
LEMMA HistoryBehind ==
  ASSUME NEW S, \A x \in S : x.id \in Nat \ {0},
         NEW rec, rec.pointer \in Nat, rec.tail \in Seq(S), NEW lines \in Seq(S),
         rec.pointer # NoPointer => Upto(rec.pointer) <= Len(lines),
         NEW s \in Seq(S), Follows(rec, s), Len(Counted(rec.pointer, lines)) <= Len(s),
         \A i \in 1 .. Len(Counted(rec.pointer, lines)) : s[i] = Counted(rec.pointer, lines)[i]
  PROVE  /\ History(rec, lines) \in Seq(S) /\ Advances(History(rec, lines), s)
         /\ Ascending(s) => Ascending(History(rec, lines))
<1> DEFINE told == History(rec, lines)
           seen == Counted(rec.pointer, lines)
           n == Upto(rec.pointer)
<1>1. /\ told \in Seq(S)
      /\ Len(told) = IF n + Len(rec.tail) > Len(seen) THEN n + Len(rec.tail) ELSE Len(seen)
      /\ n \in Nat /\ n <= Len(seen)
      /\ \A i \in 1 .. Len(told) : told[i] = IF i <= Len(seen) THEN seen[i] ELSE rec.tail[i - n]
  BY HistoryFacts
<1>2. /\ Len(s) \in Nat /\ Len(told) \in Nat /\ Len(rec.tail) \in Nat
      /\ DOMAIN told = 1 .. Len(told) /\ DOMAIN s = 1 .. Len(s)
  BY <1>1, LenProperties
<1>3. Len(seen) <= Len(s) /\ (\A i \in 1 .. Len(seen) : s[i] = seen[i]) /\ Len(seen) \in Nat
  BY LenProperties, EmptySeq DEF Counted
<1>4. \A i \in 1 .. Len(rec.tail) :
        n + i <= Len(s) /\ s[n + i].id = rec.tail[i].id /\ (rec.tail[i].whole => s[n + i].whole)
  BY DEF Follows
<1> HIDE DEF told, seen, n
<1>5. Len(told) <= Len(s)
  <2>1. CASE n + Len(rec.tail) > Len(seen)
    <3>1. Len(rec.tail) \in 1 .. Len(rec.tail)
      BY <1>1, <1>2, <1>3, <2>1
    <3> QED
      BY <1>1, <1>4, <2>1, <3>1
  <2>2. CASE ~(n + Len(rec.tail) > Len(seen))
    BY <1>1, <1>3, <2>2
  <2> QED
    BY <2>1, <2>2
<1>6. ASSUME NEW k \in 1 .. Len(told) PROVE s[k].id = told[k].id /\ (told[k].whole => s[k].whole)
  <2>1. CASE k <= Len(seen)
    BY <1>1, <1>2, <1>3, <2>1
  <2>2. CASE ~(k <= Len(seen))
    <3>1. PICK a \in Nat, b \in Nat, x \in Nat :
            /\ a = Len(seen) /\ b = Len(rec.tail) /\ x = n /\ x <= a
            /\ k \in 1 .. IF x + b > a THEN x + b ELSE a
      BY <1>1, <1>2, <1>3
    <3>2. ~(k <= a)
      BY <2>2, <3>1
    <3>3. PICK i \in 1 .. b : i = k - x /\ x + i = k
      <4>1. x + b > a
        BY <3>1, <3>2
      <4>2. k - x \in 1 .. b /\ x + (k - x) = k
        BY <3>1, <3>2, <4>1
      <4> QED
        BY <4>2
    <3>4. told[k] = rec.tail[i]
      BY <1>1, <2>2, <3>1, <3>3
    <3>5. s[k].id = rec.tail[i].id /\ (rec.tail[i].whole => s[k].whole)
      BY <1>4, <3>1, <3>3
    <3> QED
      BY <3>4, <3>5
  <2> QED
    BY <2>1, <2>2
<1>7. Advances(told, s)
  BY <1>5, <1>6 DEF Advances
<1>8. ASSUME Ascending(s) PROVE Ascending(told)
  <2>1. ASSUME NEW i \in DOMAIN told, NEW j \in DOMAIN told, i < j PROVE told[i].id < told[j].id
    <3>1. i \in 1 .. Len(told) /\ j \in 1 .. Len(told) /\ i \in DOMAIN s /\ j \in DOMAIN s
      BY <1>2, <1>5, <2>1
    <3>2. s[i].id < s[j].id
      BY <1>8, <2>1, <3>1 DEF Ascending
    <3> QED
      BY <1>6, <3>1, <3>2
  <2> QED
    BY <2>1 DEF Ascending
<1> QED
  BY <1>1, <1>7, <1>8 DEF told


(***************************************************************************)
(* What grows.                                                             *)
(***************************************************************************)

\* A record that speaks of this log has the conversation up to some entry.
Under(rec, c, lines) ==
  /\ Upto(rec.pointer) <= Len(Counted(c.pointer, lines))
  /\ Follows(rec, Live(c, lines))

\* The conversation of a holder goes on: lines are added to those it counts, entries said after
\* the n-th at the end, and none is less whole than before.
Grows(c, lines, d, more, n) ==
  /\ c.pointer # NoPointer =>
       /\ d.pointer # NoPointer
       /\ Len(lines) <= Len(more) /\ \A i \in 1 .. Len(lines) : more[i] = lines[i]
  /\ Advances(Live(c, lines), Live(d, more))
  /\ \A k \in Len(Live(c, lines)) + 1 .. Len(Live(d, more)) : Live(d, more)[k].id > n

\* Each element is from one of two sequences, from the first only up to the n-th.
MadeOf(t, n, s, before) ==
  \A k \in 1 .. Len(t) :
    \/ k <= n /\ t[k] = s[k]
    \/ k <= Len(before) /\ t[k] = before[k]

\* An entry that is in a sequence is in a more advanced one.
LEMMA HasAdvances ==
  ASSUME NEW S, NEW s \in Seq(S), NEW t \in Seq(S), Advances(s, t)
  PROVE  Ids(s) \subseteq Ids(t) /\ \A e : Has(s, e) => Has(t, e)
<1>1. DOMAIN s = 1 .. Len(s) /\ DOMAIN t = 1 .. Len(t) /\ Len(s) \in Nat /\ Len(t) \in Nat
  BY LenProperties
<1>2. \A k \in DOMAIN s : k \in DOMAIN t /\ t[k].id = s[k].id /\ (s[k].whole => t[k].whole)
  BY <1>1 DEF Advances
<1> QED
  BY <1>2 DEF Ids, Has

\* What survives in one sequence survives where it is kept and more entries come after it.
LEMMA SurvivesMore ==
  ASSUME NEW n \in Nat, NEW e, NEW s, NEW t, NEW few, NEW many,
         few \subseteq many, many \subseteq 1 .. n, Survives(s, e, few), Has(s, e) => Has(t, e)
  PROVE  Survives(t, e, many)
<1> DEFINE later(ids) == {k \in ids : k > e.id}
<1>1. CASE Has(s, e)
  BY <1>1 DEF Survives
<1>2. CASE ~Has(s, e)
  <2>1. Cardinality(later(few)) >= Window
    BY <1>2 DEF Survives
  <2>2. IsFiniteSet(1 .. n)
    BY FS_Interval
  <2>3. IsFiniteSet(later(many)) /\ later(few) \in SUBSET later(many)
    BY <2>2, FS_Subset
  <2>4. Cardinality(later(few)) <= Cardinality(later(many)) /\ IsFiniteSet(later(few))
    BY <2>3, FS_Subset
  <2>5. Cardinality(later(few)) \in Nat /\ Cardinality(later(many)) \in Nat /\ Window \in Nat
    BY <2>3, <2>4, FS_CardinalityType, BoundsAssumption
  <2> HIDE DEF later
  <2>6. Cardinality(later(many)) >= Window
    BY <2>1, <2>4, <2>5
  <2> QED
    BY <2>6 DEF Survives, later
<1> QED
  BY <1>1, <1>2

\* A record that speaks of a conversation speaks of it when it has grown.
LEMMA UnderGrows ==
  ASSUME NEW S, NEW lines \in Seq(S), NEW more \in Seq(S), NEW n,
         NEW rec, rec.pointer \in Nat, rec.tail \in Seq(S),
         NEW c, c.messages \in Seq(S), c.logged \in 0 .. Len(c.messages),
         NEW d, d.messages \in Seq(S), d.logged \in 0 .. Len(d.messages),
         Grows(c, lines, d, more, n), Under(rec, c, lines)
  PROVE  Under(rec, d, more)
<1>1. /\ Len(lines) \in Nat /\ Len(more) \in Nat /\ Upto(rec.pointer) \in Nat /\ Len(rec.tail) \in Nat
      /\ Live(c, lines) \in Seq(S) /\ Live(d, more) \in Seq(S)
  <2>1. Live(c, lines) \in Seq(S) /\ Live(d, more) \in Seq(S)
    BY LiveFacts
  <2> QED
    BY <2>1, LenProperties DEF Upto, NoPointer
<1>2. Len(Live(c, lines)) \in Nat /\ Len(Live(d, more)) \in Nat
  BY <1>1, LenProperties
<1>3. Len(<<>>) = 0
  BY EmptySeq
<1>4. Upto(rec.pointer) <= Len(Counted(d.pointer, more))
  <2>1. CASE c.pointer = NoPointer
    <3>1. Upto(rec.pointer) = 0
      BY <1>1, <1>3, <2>1 DEF Under, Counted
    <3> QED
      BY <1>1, <1>3, <3>1 DEF Counted
  <2>2. CASE c.pointer # NoPointer
    BY <1>1, <2>2 DEF Under, Counted, Grows
  <2> QED
    BY <2>1, <2>2
<1>5. ASSUME NEW i \in 1 .. Len(rec.tail)
      PROVE  /\ Upto(rec.pointer) + i <= Len(Live(d, more))
             /\ Live(d, more)[Upto(rec.pointer) + i].id = rec.tail[i].id
             /\ rec.tail[i].whole => Live(d, more)[Upto(rec.pointer) + i].whole
  <2>1. PICK k \in 1 .. Len(Live(c, lines)) : k = Upto(rec.pointer) + i
    BY <1>1, <1>2 DEF Under, Follows
  <2>2. Live(c, lines)[k].id = rec.tail[i].id /\ (rec.tail[i].whole => Live(c, lines)[k].whole)
    BY <2>1 DEF Under, Follows
  <2>3. /\ k <= Len(Live(d, more)) /\ Live(d, more)[k].id = Live(c, lines)[k].id
        /\ Live(c, lines)[k].whole => Live(d, more)[k].whole
    BY <1>2 DEF Grows, Advances
  <2> QED
    BY <2>1, <2>2, <2>3
<1> QED
  BY <1>4, <1>5 DEF Under, Follows

\* The history of a record advances with the log, along a conversation that both follow.
LEMMA HistoryGrows ==
  ASSUME NEW S, \A x \in S : x.id # 0,
         NEW rec, rec.pointer \in Nat, rec.tail \in Seq(S), NEW lines \in Seq(S), NEW more \in Seq(S),
         rec.pointer # NoPointer =>
           /\ Upto(rec.pointer) <= Len(lines) /\ Len(lines) <= Len(more)
           /\ \A i \in 1 .. Len(lines) : more[i] = lines[i],
         NEW s \in Seq(S), Follows(rec, s),
         \A i \in 1 .. Len(Counted(rec.pointer, more)) : s[i] = Counted(rec.pointer, more)[i]
  PROVE  /\ History(rec, lines) \in Seq(S) /\ History(rec, more) \in Seq(S)
         /\ Advances(History(rec, lines), History(rec, more))
         /\ MadeOf(History(rec, more), Len(Counted(rec.pointer, more)), s, History(rec, lines))
<1> DEFINE before == History(rec, lines)
           told == History(rec, more)
           few == Counted(rec.pointer, lines)
           many == Counted(rec.pointer, more)
           n == Upto(rec.pointer)
<1>1. Len(lines) \in Nat /\ Len(more) \in Nat
  BY LenProperties
<1>2. /\ before \in Seq(S) /\ n \in Nat /\ n <= Len(few)
      /\ Len(before) = IF n + Len(rec.tail) > Len(few) THEN n + Len(rec.tail) ELSE Len(few)
      /\ \A i \in 1 .. Len(before) : before[i] = IF i <= Len(few) THEN few[i] ELSE rec.tail[i - n]
  BY HistoryFacts
<1>3. rec.pointer # NoPointer => Upto(rec.pointer) <= Len(more)
  BY <1>1, <1>2 DEF n
<1>4. /\ told \in Seq(S)
      /\ Len(told) = IF n + Len(rec.tail) > Len(many) THEN n + Len(rec.tail) ELSE Len(many)
      /\ \A i \in 1 .. Len(told) : told[i] = IF i <= Len(many) THEN many[i] ELSE rec.tail[i - n]
  BY <1>3, HistoryFacts
<1>5. /\ Len(few) \in Nat /\ Len(many) \in Nat /\ Len(few) <= Len(many)
      /\ \A i \in 1 .. Len(few) : many[i] = few[i]
  BY <1>1, EmptySeq DEF Counted
<1>6. \A i \in 1 .. Len(rec.tail) : s[n + i].id = rec.tail[i].id /\ (rec.tail[i].whole => s[n + i].whole)
  BY DEF Follows
<1>7. \A i \in 1 .. Len(many) : s[i] = many[i]
  OBVIOUS
<1>8. Len(rec.tail) \in Nat
  BY LenProperties
<1> HIDE DEF before, told, few, many, n
<1>9. PICK a \in Nat, b \in Nat, p \in Nat, q \in Nat :
        /\ a = n /\ b = Len(rec.tail) /\ p = Len(few) /\ q = Len(many) /\ a <= p /\ p <= q
        /\ Len(before) = (IF a + b > p THEN a + b ELSE p) /\ Len(told) = (IF a + b > q THEN a + b ELSE q)
  BY <1>2, <1>4, <1>5, <1>8
<1>10. Len(before) <= Len(told)
  BY <1>9
<1>11. ASSUME NEW k \in 1 .. Len(before)
       PROVE  told[k].id = before[k].id /\ (before[k].whole => told[k].whole)
  <2>1. k \in 1 .. Len(told) /\ k \in Nat
    BY <1>9, <1>10
  <2>2. CASE k <= p
    <3>1. k \in 1 .. Len(few) /\ k <= Len(few) /\ k <= Len(many)
      BY <1>9, <2>1, <2>2
    <3>2. before[k] = few[k] /\ told[k] = many[k] /\ many[k] = few[k]
      BY <1>2, <1>4, <1>5, <2>1, <3>1
    <3> QED
      BY <3>2
  <2>3. CASE ~(k <= p) /\ k <= q
    <3>1. k - a \in 1 .. b /\ a + (k - a) = k
      <4>1. a + b > p
        BY <1>9, <2>3
      <4> QED
        BY <1>9, <2>3, <4>1
    <3>2. before[k] = rec.tail[k - a]
      BY <1>2, <1>9, <2>3
    <3>3. told[k] = s[k]
      BY <1>4, <1>7, <1>9, <2>1, <2>3
    <3>4. PICK i \in 1 .. Len(rec.tail) : i = k - a /\ n + i = k
      BY <1>9, <3>1
    <3>5. s[k].id = rec.tail[i].id /\ (rec.tail[i].whole => s[k].whole)
      BY <1>6, <3>4
    <3> QED
      BY <3>2, <3>3, <3>4, <3>5
  <2>4. CASE ~(k <= q)
    <3>1. ~(k <= p)
      BY <1>9, <2>1, <2>4
    <3> QED
      BY <1>2, <1>4, <1>9, <2>1, <2>4, <3>1
  <2> QED
    BY <2>2, <2>3, <2>4
<1>12. ASSUME NEW k \in 1 .. Len(told)
       PROVE  \/ k <= Len(many) /\ told[k] = s[k]
              \/ k <= Len(before) /\ told[k] = before[k]
  <2>1. CASE k <= q
    <3>1. k \in 1 .. Len(many)
      BY <1>9, <2>1
    <3>2. k <= Len(many) /\ told[k] = many[k]
      BY <1>4, <1>9, <2>1
    <3> QED
      BY <1>7, <3>1, <3>2
  <2>2. CASE ~(k <= q)
    <3>1. k <= Len(before) /\ k \in 1 .. Len(before) /\ ~(k <= p)
      <4>1. a + b > q
        BY <1>9, <2>2
      <4> QED
        BY <1>9, <2>2, <4>1
    <3> QED
      BY <1>2, <1>4, <1>9, <2>2, <3>1
  <2> QED
    BY <2>1, <2>2
<1>13. Advances(before, told)
  BY <1>10, <1>11 DEF Advances
<1>14. MadeOf(told, Len(many), s, before)
  BY <1>12 DEF MadeOf
<1> QED
  BY <1>2, <1>4, <1>13, <1>14 DEF before, told, many

\* A conversation has what is on disk, as whole as there.
Remembered(s, e) ==
  /\ Survives(s, e, Ids(s))
  /\ e.whole => \A k \in DOMAIN s : s[k].id = e.id => s[k].whole

\* It goes on having it when entries said later join it.
LEMMA RememberedGrows ==
  ASSUME NEW n \in Nat, NEW S, S \subseteq [id : 1 .. n, whole : BOOLEAN], NEW s \in Seq(S), NEW t \in Seq(S),
         Advances(s, t), NEW said1 \in Nat, \A k \in Len(s) + 1 .. Len(t) : t[k].id > said1,
         NEW e, e.id \in 1 .. said1, Remembered(s, e)
  PROVE  Remembered(t, e)
<1>1. DOMAIN s = 1 .. Len(s) /\ DOMAIN t = 1 .. Len(t) /\ Len(s) \in Nat /\ Len(t) \in Nat
  BY LenProperties
<1>2. \A k \in 1 .. Len(t) : t[k].id \in 1 .. n
  BY ElementOfSeq
<1>3. Survives(t, e, Ids(t))
  <2>1. Ids(t) \subseteq 1 .. n
    BY <1>1, <1>2 DEF Ids
  <2>2. Ids(s) \subseteq Ids(t) /\ (Has(s, e) => Has(t, e))
    BY HasAdvances
  <2>3. Survives(s, e, Ids(s))
    BY DEF Remembered
  <2> QED
    BY <2>1, <2>2, <2>3, SurvivesMore
<1>4. ASSUME e.whole, NEW k \in DOMAIN t, t[k].id = e.id PROVE t[k].whole
  <2>1. CASE k \in 1 .. Len(s)
    BY <1>1, <1>4, <2>1 DEF Remembered, Advances
  <2>2. CASE k \notin 1 .. Len(s)
    <3>1. k \in Len(s) + 1 .. Len(t)
      BY <1>1, <1>4, <2>2
    <3>2. t[k].id > said1
      BY <3>1
    <3>3. t[k].id \in Nat
      BY <1>1, <1>2, <1>4
    <3> QED
      BY <1>4, <3>2, <3>3
  <2> QED
    BY <2>1, <2>2
<1> QED
  BY <1>3, <1>4 DEF Remembered

(***************************************************************************)
(* The invariant.                                                          *)
(***************************************************************************)

\* Entries of a conversation of n entries, a record file, a copy of it, and a write.
Uttered(n) == [id : 1 .. n, whole : BOOLEAN]
Image(n) == [pointer : Nat, tail : Seq(Uttered(n))]
Appending == {"prepared", "truncated", "appended", "compacting"}
CopyForm(n) ==
  [stage : {"none", "reading", "open", "over"}, messages : Seq(Uttered(n)), logged : Nat, pointer : Nat,
   image : Image(n)]
WriteForm(n) ==
  [stage : Appending \cup {"idle", "waiting", "unrecorded", "serialized"}, through : 0 .. n,
   slice : Seq(Uttered(n)), image : Image(n), replaced : BOOLEAN]

\* What is where: no line is broken.
LogShape ==
  /\ said \in 0 .. MaxMessages /\ talk \in {"none", "prompted", "streaming"}
  /\ log \in Seq(Uttered(said)) /\ record \in Image(said) /\ Len(record.tail) <= Window
  /\ written \subseteq Uttered(said)
  /\ copyOf \in [Holders -> CopyForm(said)]
  /\ write \in [Holders -> [LogWrites -> WriteForm(said)]]
  /\ chain \in [Holders -> Seq(LogWrites)]

\* One process at a time has the session, and only one with a copy writes.
OneHolder ==
  /\ \A g, h \in Holders : Busy(g) /\ Busy(h) => g = h
  /\ \A h \in Holders :
       /\ ~HoldsCopy(h) => copyOf[h].messages = <<>> /\ \A w \in LogWrites : write[h][w] = NoWrite
       /\ copyOf[h].stage = "reading" => copyOf[h].image = record

\* One write at a time is at the log, and one at the record; a close writes once.
OneAtATime ==
  \A h \in Holders, w \in LogWrites :
    /\ write[h][w].stage = "idle" => write[h][w] = NoWrite
    /\ write[h][w].stage \in Appending => FirstInChain(h, w)
    /\ write[h][w].stage = "serialized" => lock = <<h, w>>
    /\ h # LogOwner /\ write[h][w].stage # "idle" => \A v \in LogWrites : v # w => write[h][v] = NoWrite

\* A copy goes on where the log ends, and has the end of it.
CopyFits(c, lines) ==
  /\ c.logged \in 0 .. Len(c.messages) /\ Len(c.messages) <= Window
  /\ c.pointer = NoPointer => c.logged = 0
  /\ c.pointer # NoPointer =>
       /\ Upto(c.pointer) = Len(lines) /\ c.logged <= Len(lines)
       /\ \A j \in 1 .. c.logged : c.messages[j] = lines[(Len(lines) - c.logged) + j]
       /\ c.logged < Len(lines) => Len(c.messages) = Window
  /\ Ascending(Live(c, lines))
CopiesFit == \A h \in Holders : HoldsCopy(h) => CopyFits(copyOf[h], log)

\* What streams is the last entry.
StreamsLast ==
  /\ talk # "none" => HoldsCopy(LogOwner)
  /\ talk = "streaming" =>
       /\ copyOf[LogOwner].logged < Len(copyOf[LogOwner].messages)
       /\ copyOf[LogOwner].messages[Len(copyOf[LogOwner].messages)].id = said

\* A slice under way is what comes next, up to the entry that streams.
SliceFits(c, slice, streaming) ==
  /\ c.logged + Len(slice) <= Len(c.messages)
  /\ streaming => c.logged + Len(slice) < Len(c.messages)
  /\ \A j \in 1 .. Len(slice) : slice[j] = c.messages[c.logged + j]

\* What a write has to do fits the copy: the entry that streams is not in it, and only a write of
\* everything, outside a turn, compacts.
Fits(h, q) ==
  /\ h = LogOwner /\ q.stage \in Appending \cup {"waiting"} =>
       /\ q.through = 0 => talk = "none"
       /\ talk = "streaming" => q.through < said
  /\ q.stage \in {"prepared", "truncated"} /\ copyOf[h].pointer = NoPointer => log = <<>>
  /\ q.stage = "compacting" => q.through = 0
  /\ q.stage = "truncated" => SliceFits(copyOf[h], q.slice, h = LogOwner /\ talk = "streaming")
WritesFit == \A h \in Holders, w \in LogWrites : Fits(h, write[h][w])

\* No other write has replaced the log since this one took the record.
Serialized(h, w) == write[h][w].stage = "serialized"
Current(h, w) == Serialized(h, w) /\ \A v \in LogWrites : v # w => ~write[h][v].replaced

\* What is on disk, and what a write is about to put there, speaks of the log that the copy goes
\* on from.
RecordsFollow ==
  \A h \in Holders :
    HoldsCopy(h) =>
      /\ record.pointer # NoPointer => copyOf[h].pointer # NoPointer
      /\ Steady => Under(record, copyOf[h], log)
      /\ \A w \in LogWrites :
           Serialized(h, w) =>
             /\ write[h][w].image.pointer # NoPointer => copyOf[h].pointer # NoPointer
             /\ Len(write[h][w].image.tail) <= Window
             /\ Current(h, w) => Under(write[h][w].image, copyOf[h], log)

\* While nobody has a copy, the record and the log are what the next one is made of.
Resumes(rec, lines) ==
  /\ Ascending(History(rec, lines))
  /\ rec.pointer # NoPointer =>
       /\ Upto(rec.pointer) <= Len(lines)
       /\ \A i \in 1 .. Len(rec.tail) :
            Upto(rec.pointer) + i <= Len(lines) => lines[Upto(rec.pointer) + i].id = rec.tail[i].id
Aligned == (\A h \in Holders : ~HoldsCopy(h)) => Resumes(record, log)

\* The conversation in memory has whatever is on disk, or about to be.
CopyRemembers ==
  \A h \in Holders :
    HoldsCopy(h) =>
      /\ \A e \in written : Remembered(Live(copyOf[h], log), e)
      /\ \A i \in 1 .. Len(record.tail) : Remembered(Live(copyOf[h], log), record.tail[i])
      /\ \A w \in LogWrites :
           Serialized(h, w) =>
             \A i \in 1 .. Len(write[h][w].image.tail) :
               Remembered(Live(copyOf[h], log), write[h][w].image.tail[i])

\* What was logged in part is nowhere whole, and nothing more comes.
NeverWhole(s, n) == \A i \in DOMAIN s : s[i].id = n => ~s[i].whole
NowhereWhole(n) ==
  /\ Whole(n) \notin written
  /\ NeverWhole(record.tail, n)
  /\ \A h \in Holders :
       /\ NeverWhole(copyOf[h].messages, n)
       /\ \A w \in LogWrites : Serialized(h, w) => NeverWhole(write[h][w].image.tail, n)
StaysPart(n) == NowhereWhole(n) /\ (talk = "streaming" => n < said)
PartsStayParts == \A i \in DOMAIN log : ~log[i].whole => StaysPart(log[i].id)

\* A history has what was written, and takes back no entry that was whole.
Stands(told, entries) ==
  /\ \A e \in entries : Survives(told, e, Ids(told) \cap {d.id : d \in entries})
  /\ \A k \in DOMAIN told : ~told[k].whole => Whole(told[k].id) \notin entries

\* What a record write has put on disk stays there.
RecordStands == Steady => Stands(History(record, log), written)

\* And it will after the next record write.
ImagesStand ==
  \A h \in Holders, w \in LogWrites :
    /\ Serialized(h, w) =>
         \A i \in 1 .. Len(write[h][w].image.tail) :
           ~write[h][w].image.tail[i].whole => Whole(write[h][w].image.tail[i].id) \notin written
    /\ Current(h, w) =>
         \A e \in written :
           Survives(History(write[h][w].image, log), e, Ids(History(write[h][w].image, log)))

\* The bookkeeping, and what it is for.
Orderly == LogShape /\ OneHolder /\ OneAtATime /\ CopiesFit /\ StreamsLast /\ WritesFit
OnDiskStands == RecordsFollow /\ Aligned /\ CopyRemembers /\ RecordStands /\ ImagesStand
LogStands == Orderly /\ PartsStayParts /\ OnDiskStands
LogInv == ~excused => LogStands

(***************************************************************************)
(* What the types say.                                                     *)
(***************************************************************************)

\* An entry of a conversation of n entries.
LEMMA UtteredFacts ==
  ASSUME NEW n \in Nat
  PROVE  /\ \A x \in Uttered(n) : /\ x.id \in 1 .. n /\ x.id \in Nat \ {0} /\ x.id \in Nat /\ x.id # 0
                                  /\ x.whole \in BOOLEAN
         /\ Uttered(n) \subseteq [id : 1 .. n, whole : BOOLEAN]
         /\ \A s \in Seq(Uttered(n)) : /\ Len(s) \in Nat /\ DOMAIN s = 1 .. Len(s)
                                       /\ \A i \in 1 .. Len(s) : s[i] \in Uttered(n)
                                       /\ Ids(s) \subseteq 1 .. n
<1>1. \A x \in Uttered(n) : /\ x.id \in 1 .. n /\ x.id \in Nat \ {0} /\ x.id \in Nat /\ x.id # 0
                            /\ x.whole \in BOOLEAN
  BY DEF Uttered
<1>2. ASSUME NEW s \in Seq(Uttered(n))
      PROVE  /\ Len(s) \in Nat /\ DOMAIN s = 1 .. Len(s)
             /\ \A i \in 1 .. Len(s) : s[i] \in Uttered(n)
             /\ Ids(s) \subseteq 1 .. n
  <2>1. Len(s) \in Nat /\ DOMAIN s = 1 .. Len(s) /\ \A i \in 1 .. Len(s) : s[i] \in Uttered(n)
    BY LenProperties, ElementOfSeq
  <2>2. \A i \in 1 .. Len(s) : s[i].id \in 1 .. n
    BY <1>1, <2>1
  <2> QED
    BY <2>1, <2>2 DEF Ids
<1> QED
  BY <1>1, <1>2 DEF Uttered

\* A sequence of them, where the number of entries is not below the numbers in it.
LEMMA IdsOfSaid ==
  ASSUME NEW n \in Nat, NEW s \in Seq(Uttered(n)), NEW i \in 1 .. Len(s)
  PROVE  s[i] \in Uttered(n) /\ s[i].id \in 1 .. n /\ s[i].id \in Nat /\ s[i].whole \in BOOLEAN
<1>1. s[i] \in Uttered(n)
  BY UtteredFacts
<1> QED
  BY <1>1, UtteredFacts

\* What is said stays said.
LEMMA MoreSaid ==
  ASSUME NEW n \in Nat, NEW m \in Nat, n <= m
  PROVE  /\ Uttered(n) \subseteq Uttered(m) /\ Seq(Uttered(n)) \subseteq Seq(Uttered(m))
         /\ Image(n) \subseteq Image(m)
         /\ CopyForm(n) \subseteq CopyForm(m) /\ WriteForm(n) \subseteq WriteForm(m)
<1>1. 1 .. n \subseteq 1 .. m /\ 0 .. n \subseteq 0 .. m
  OBVIOUS
<1>2. Uttered(n) \subseteq Uttered(m)
  BY <1>1 DEF Uttered
<1>3. Seq(Uttered(n)) \subseteq Seq(Uttered(m))
  <2> SUFFICES ASSUME NEW s \in Seq(Uttered(n)) PROVE s \in Seq(Uttered(m))
    OBVIOUS
  <2> QED
    BY <1>2, SeqMonotonic
<1>4. Image(n) \subseteq Image(m)
  BY <1>3 DEF Image
<1>5. CopyForm(n) \subseteq CopyForm(m)
  BY <1>3, <1>4 DEF CopyForm
<1>6. WriteForm(n) \subseteq WriteForm(m)
  BY <1>1, <1>3, <1>4 DEF WriteForm
<1> QED
  BY <1>2, <1>3, <1>4, <1>5, <1>6

\* The fields of an image, a copy and a write.
LEMMA Fields ==
  ASSUME NEW n \in Nat
  PROVE  /\ \A x \in Image(n) : x.pointer \in Nat /\ x.tail \in Seq(Uttered(n)) /\ Len(x.tail) \in Nat
         /\ \A c \in CopyForm(n) :
              /\ c.messages \in Seq(Uttered(n)) /\ Len(c.messages) \in Nat /\ c.logged \in Nat
              /\ c.pointer \in Nat /\ c.image \in Image(n) /\ c.stage \in {"none", "reading", "open", "over"}
         /\ \A q \in WriteForm(n) :
              /\ q.slice \in Seq(Uttered(n)) /\ Len(q.slice) \in Nat /\ q.image \in Image(n)
              /\ q.stage \in Appending \cup {"idle", "waiting", "unrecorded", "serialized"}
              /\ q.through \in 0 .. n /\ q.replaced \in BOOLEAN
<1>1. \A s \in Seq(Uttered(n)) : Len(s) \in Nat
  BY UtteredFacts
<1>2. \A x \in Image(n) : x.pointer \in Nat /\ x.tail \in Seq(Uttered(n)) /\ Len(x.tail) \in Nat
  BY <1>1 DEF Image
<1>3. \A c \in CopyForm(n) :
        /\ c.messages \in Seq(Uttered(n)) /\ Len(c.messages) \in Nat /\ c.logged \in Nat
        /\ c.pointer \in Nat /\ c.image \in Image(n) /\ c.stage \in {"none", "reading", "open", "over"}
  BY <1>1 DEF CopyForm
<1>4. \A q \in WriteForm(n) :
        /\ q.slice \in Seq(Uttered(n)) /\ Len(q.slice) \in Nat /\ q.image \in Image(n)
        /\ q.stage \in Appending \cup {"idle", "waiting", "unrecorded", "serialized"}
        /\ q.through \in 0 .. n /\ q.replaced \in BOOLEAN
  BY <1>1 DEF WriteForm
<1> QED
  BY <1>2, <1>3, <1>4

\* The empty record, copy and write.
LEMMA Empties ==
  ASSUME NEW n \in Nat
  PROVE  /\ NoRecord \in Image(n) /\ NoCopy \in CopyForm(n) /\ Over \in CopyForm(n) /\ NoWrite \in WriteForm(n)
         /\ NoCopy.stage = "none" /\ NoCopy.messages = <<>> /\ Over.stage = "over" /\ Over.messages = <<>>
         /\ NoWrite.stage = "idle" /\ NoWrite.replaced = FALSE /\ NoWrite.slice = <<>>
<1>1. <<>> \in Seq(Uttered(n))
  BY EmptySeq
<1>2. NoRecord \in Image(n)
  BY <1>1 DEF NoRecord, Image, NoPointer
<1>3. NoCopy \in CopyForm(n) /\ Over \in CopyForm(n)
  BY <1>1, <1>2 DEF NoCopy, Over, CopyForm, NoPointer
<1>4. NoWrite \in WriteForm(n)
  BY <1>1, <1>2 DEF NoWrite, WriteForm
<1> QED
  BY <1>2, <1>3, <1>4 DEF NoCopy, Over, NoWrite

\* What a copy that goes on from the log has.
LEMMA FitFacts ==
  ASSUME NEW n \in Nat, NEW c \in CopyForm(n), NEW lines \in Seq(Uttered(n)), CopyFits(c, lines)
  PROVE  /\ c.messages \in Seq(Uttered(n)) /\ c.logged \in 0 .. Len(c.messages) /\ Len(c.messages) \in Nat
         /\ c.pointer \in Nat /\ Len(lines) \in Nat
         /\ Live(c, lines) \in Seq(Uttered(n)) /\ Len(Live(c, lines)) \in Nat
         /\ DOMAIN Live(c, lines) = 1 .. Len(Live(c, lines))
<1>1. c.messages \in Seq(Uttered(n)) /\ c.logged \in 0 .. Len(c.messages) /\ Len(c.messages) \in Nat /\ c.pointer \in Nat
  BY Fields DEF CopyFits
<1>2. Live(c, lines) \in Seq(Uttered(n))
  BY <1>1, LiveFacts
<1>3. Len(lines) \in Nat /\ Len(Live(c, lines)) \in Nat /\ DOMAIN Live(c, lines) = 1 .. Len(Live(c, lines))
  BY <1>2, LenProperties
<1> QED
  BY <1>1, <1>2, <1>3

(***************************************************************************)
(* The initial states.                                                     *)
(***************************************************************************)

\* Nothing said, nothing written, and nobody there.
LEMMA LogStarts == LogInit => LogInv
<1> SUFFICES ASSUME LogInit PROVE Orderly /\ PartsStayParts /\ OnDiskStands
  BY DEF LogInv, LogStands
<1> USE DEF LogInit
<1>1. said = 0 /\ said \in Nat /\ MaxMessages \in Nat /\ Window \in Nat
  BY BoundsAssumption
<1>2. \A h \in Holders : copyOf[h] = NoCopy /\ \A w \in LogWrites : write[h][w] = NoWrite
  OBVIOUS
<1>3. NoCopy.stage = "none" /\ NoCopy.messages = <<>> /\ NoWrite.stage = "idle"
  BY <1>1, Empties
<1>4. record.pointer = NoPointer /\ record.tail = <<>> /\ Len(<<>>) = 0 /\ Len(record.tail) = 0
  BY EmptySeq DEF NoRecord
<1>5. LogShape
  <2>1. /\ <<>> \in Seq(Uttered(said)) /\ <<>> \in Seq(LogWrites)
        /\ NoRecord \in Image(said) /\ NoCopy \in CopyForm(said) /\ NoWrite \in WriteForm(said)
    BY <1>1, EmptySeq, Empties
  <2>2. Len(record.tail) <= Window
    BY <1>1, <1>4
  <2>3. copyOf \in [Holders -> CopyForm(said)] /\ write \in [Holders -> [LogWrites -> WriteForm(said)]]
        /\ chain \in [Holders -> Seq(LogWrites)]
    BY <2>1
  <2>4. said \in 0 .. MaxMessages
    BY <1>1
  <2> QED
    BY <2>1, <2>2, <2>3, <2>4 DEF LogShape
<1>6. OneHolder /\ CopiesFit
  BY <1>2, <1>3 DEF OneHolder, CopiesFit, Busy, HoldsCopy
<1>7. OneAtATime
  <2>1. \A h \in Holders, w \in LogWrites : write[h][w].stage = "idle"
    BY <1>2, <1>3
  <2> QED
    BY <1>2, <2>1 DEF OneAtATime, Appending
<1>8. StreamsLast /\ WritesFit
  <2>1. \A h \in Holders, w \in LogWrites : write[h][w].stage = "idle"
    BY <1>2, <1>3
  <2> QED
    BY <2>1, OwnerAssumption DEF StreamsLast, WritesFit, Fits, Appending
<1>9. History(record, log) = <<>>
  <2>1. <<>> \in Seq({}) /\ <<>> \o <<>> = <<>>
    BY EmptySeq, ConcatEmptySeq
  <2> QED
    BY <1>4, <2>1 DEF History, Logged, Inline
<1>10. RecordsFollow /\ CopyRemembers
  BY <1>2, <1>3 DEF RecordsFollow, CopyRemembers, HoldsCopy
<1>11. Aligned /\ RecordStands
  <2>1. DOMAIN <<>> = {}
    OBVIOUS
  <2> QED
    BY <1>4, <1>9, <2>1 DEF Aligned, Resumes, RecordStands, Stands, Ascending
<1>12. ImagesStand
  BY <1>2, <1>3 DEF ImagesStand, Current, Serialized
<1>13. PartsStayParts
  BY DEF PartsStayParts
<1> QED
  BY <1>5, <1>6, <1>7, <1>8, <1>10, <1>11, <1>12, <1>13 DEF Orderly, OnDiskStands

(***************************************************************************)
(* A conversation that goes on.                                            *)
(***************************************************************************)

\* The entries a holder has are the last of its conversation.
LEMMA MessagesEnd ==
  ASSUME NEW n \in Nat, NEW c \in CopyForm(n), NEW lines \in Seq(Uttered(n)), CopyFits(c, lines)
  PROVE  /\ Len(c.messages) <= Len(Live(c, lines))
         /\ Len(Live(c, lines)) - Len(c.messages) = Len(Counted(c.pointer, lines)) - c.logged
         /\ \A j \in 1 .. Len(c.messages) :
              c.messages[j] = Live(c, lines)[(Len(Live(c, lines)) - Len(c.messages)) + j]
<1> DEFINE m == Len(c.messages)
           s == Counted(c.pointer, lines)
           t == Live(c, lines)
<1>1. /\ c.messages \in Seq(Uttered(n)) /\ c.logged \in 0 .. m /\ m \in Nat
      /\ c.logged \in Nat
  BY FitFacts
<1>2. /\ Len(s) \in Nat /\ Len(t) = Len(s) + (m - c.logged)
      /\ \A i \in 1 .. Len(s) : t[i] = s[i]
      /\ \A j \in c.logged + 1 .. m : t[Len(s) + (j - c.logged)] = c.messages[j]
  <2> DEFINE S == Uttered(n)
  <2>1. c.messages \in Seq(S) /\ c.logged \in 0 .. Len(c.messages) /\ lines \in Seq(S)
    BY FitFacts
  <2> HIDE DEF S
  <2>2. /\ Len(Counted(c.pointer, lines)) \in Nat
        /\ Len(Live(c, lines)) = Len(Counted(c.pointer, lines)) + (Len(c.messages) - c.logged)
        /\ \A i \in 1 .. Len(Counted(c.pointer, lines)) : Live(c, lines)[i] = Counted(c.pointer, lines)[i]
    BY ONLY <2>1, LiveFacts
  <2>3. \A j \in c.logged + 1 .. Len(c.messages) :
          Live(c, lines)[Len(Counted(c.pointer, lines)) + (j - c.logged)] = c.messages[j]
    BY ONLY <2>1, LiveFacts
  <2> QED
    BY ONLY <2>2, <2>3 DEF m, s, t
<1>3. c.logged <= Len(s) /\ \A j \in 1 .. c.logged : c.messages[j] = s[(Len(s) - c.logged) + j]
  <2>1. CASE c.pointer = NoPointer
    <3>1. c.logged = 0
      BY <2>1 DEF CopyFits
    <3> QED
      BY <1>2, <3>1
  <2>2. CASE c.pointer # NoPointer
    BY <2>2 DEF CopyFits, Counted
  <2> QED
    BY <2>1, <2>2
<1> HIDE DEF m, s, t
<1>4. m <= Len(t) /\ Len(t) - m = Len(s) - c.logged
  <2>1. \A a, b, x, y \in Nat : x <= y /\ b = y + (a - x) => a <= b /\ b - a = y - x
    OBVIOUS
  <2>2. Len(t) \in Nat
    BY <1>1, <1>2
  <2> QED
    BY <1>1, <1>2, <1>3, <2>1, <2>2
<1>5. ASSUME NEW j \in 1 .. m PROVE c.messages[j] = t[(Len(t) - m) + j]
  <2>1. (Len(t) - m) + j = (Len(s) - c.logged) + j /\ j \in Nat
    BY <1>4
  <2>2. CASE j <= c.logged
    <3>1. j \in 1 .. c.logged /\ (Len(s) - c.logged) + j \in 1 .. Len(s)
      BY <1>1, <1>2, <1>3, <2>2
    <3> QED
      BY <1>2, <1>3, <2>1, <3>1
  <2>3. CASE ~(j <= c.logged)
    <3>1. j \in c.logged + 1 .. m /\ (Len(s) - c.logged) + j = Len(s) + (j - c.logged)
      BY <1>1, <1>2, <2>3
    <3> QED
      BY <1>2, <2>1, <3>1
  <2> QED
    BY <2>2, <2>3
<1> QED
  BY <1>4, <1>5 DEF m, s, t

\* And so each is in it, in the order in which they were said.
LEMMA InConversation ==
  ASSUME NEW n \in Nat, NEW c \in CopyForm(n), NEW lines \in Seq(Uttered(n)), CopyFits(c, lines)
  PROVE  /\ \A j \in 1 .. Len(c.messages) : \E k \in 1 .. Len(Live(c, lines)) : Live(c, lines)[k] = c.messages[j]
         /\ \A i, j \in 1 .. Len(c.messages) : i < j => c.messages[i].id < c.messages[j].id
<1> DEFINE m == c.messages
           t == Live(c, lines)
<1>1. /\ Len(m) \in Nat /\ Len(t) \in Nat /\ DOMAIN t = 1 .. Len(t) /\ Len(m) <= Len(t)
      /\ Ascending(t)
  BY FitFacts, MessagesEnd DEF CopyFits
<1>2. \A j \in 1 .. Len(m) : m[j] = t[(Len(t) - Len(m)) + j]
  BY MessagesEnd
<1> HIDE DEF m, t
<1>3. \A j \in 1 .. Len(m) : (Len(t) - Len(m)) + j \in 1 .. Len(t)
  BY <1>1
<1>4. \A j \in 1 .. Len(m) : \E k \in 1 .. Len(t) : t[k] = m[j]
  BY <1>2, <1>3
<1>5. ASSUME NEW i \in 1 .. Len(m), NEW j \in 1 .. Len(m), i < j PROVE m[i].id < m[j].id
  <2>1. PICK a \in 1 .. Len(t), b \in 1 .. Len(t) : a < b /\ a = (Len(t) - Len(m)) + i /\ b = (Len(t) - Len(m)) + j
    <3>1. (Len(t) - Len(m)) + i < (Len(t) - Len(m)) + j
      BY <1>1, <1>5
    <3> QED
      BY <1>3, <3>1
  <2>2. t[a].id < t[b].id
    BY <1>1, <2>1 DEF Ascending
  <2> QED
    BY <1>2, <2>1, <2>2
<1> QED
  BY <1>4, <1>5 DEF m, t

\* A log that its pointer speaks of is the beginning of it.
LEMMA LinesInConversation ==
  ASSUME NEW n \in Nat, NEW c \in CopyForm(n), NEW lines \in Seq(Uttered(n)), CopyFits(c, lines), c.pointer # NoPointer
  PROVE  /\ Ascending(lines) /\ Len(lines) <= Len(Live(c, lines))
         /\ \A i \in 1 .. Len(lines) : Live(c, lines)[i] = lines[i]
<1> DEFINE S == Uttered(n)
<1>1. /\ c.messages \in Seq(S) /\ c.logged \in 0 .. Len(c.messages) /\ lines \in Seq(S) /\ Len(c.messages) \in Nat
      /\ Len(lines) \in Nat /\ DOMAIN lines = 1 .. Len(lines) /\ DOMAIN Live(c, lines) = 1 .. Len(Live(c, lines))
      /\ Ascending(Live(c, lines))
  BY FitFacts, LenProperties DEF CopyFits
<1>2. Counted(c.pointer, lines) = lines
  BY DEF Counted
<1>7. c.messages \in Seq(S) /\ c.logged \in 0 .. Len(c.messages) /\ lines \in Seq(S)
  BY <1>1
<1> HIDE DEF S
<1>3. Len(Live(c, lines)) = Len(Counted(c.pointer, lines)) + (Len(c.messages) - c.logged)
  BY ONLY <1>7, LiveFacts
<1>4. \A i \in 1 .. Len(Counted(c.pointer, lines)) : Live(c, lines)[i] = Counted(c.pointer, lines)[i]
  BY ONLY <1>7, LiveFacts
<1>5. Len(lines) <= Len(Live(c, lines)) /\ \A i \in 1 .. Len(lines) : Live(c, lines)[i] = lines[i]
  BY <1>1, <1>2, <1>3, <1>4
<1>6. \A i \in 1 .. Len(lines) : i \in DOMAIN Live(c, lines)
  <2>1. Len(Live(c, lines)) \in Nat
    BY FitFacts
  <2> QED
    BY <1>1, <1>5, <2>1
<1> QED
  BY <1>1, <1>5, <1>6 DEF Ascending

\* Nobody but the holder has entries or writes.
LEMMA OtherHolders ==
  ASSUME OneHolder, NEW h \in Holders, HoldsCopy(h), NEW g \in Holders, g # h
  PROVE  ~HoldsCopy(g) /\ copyOf[g].messages = <<>> /\ \A w \in LogWrites : write[g][w] = NoWrite
<1>1. ~HoldsCopy(g)
  BY DEF OneHolder, Busy, HoldsCopy
<1> QED
  BY <1>1 DEF OneHolder

\* A part of an entry in the conversation is nowhere whole.
LEMMA PartOfConversation ==
  ASSUME LogShape, OneHolder, CopyRemembers, NEW h \in Holders, HoldsCopy(h), CopyFits(copyOf[h], log),
         NEW k \in 1 .. Len(Live(copyOf[h], log)), ~Live(copyOf[h], log)[k].whole,
         NEW n, n = Live(copyOf[h], log)[k].id
  PROVE  NowhereWhole(n)
<1> DEFINE t == Live(copyOf[h], log)
<1>1. /\ said \in Nat /\ copyOf[h] \in CopyForm(said) /\ log \in Seq(Uttered(said)) /\ record \in Image(said)
      /\ \A g \in Holders : \A w \in LogWrites : write[g][w] \in WriteForm(said)
  BY BoundsAssumption DEF LogShape
<1>2. t \in Seq(Uttered(said)) /\ Len(t) \in Nat /\ DOMAIN t = 1 .. Len(t) /\ Ascending(t)
  BY <1>1, FitFacts DEF CopyFits
<1>3. \A e : Remembered(t, e) /\ e.id = n => ~e.whole
  BY <1>2 DEF Remembered
<1>4. Whole(n) \notin written
  <2>1. Whole(n).id = n /\ Whole(n).whole
    BY DEF Whole
  <2> QED
    BY <1>3, <2>1 DEF CopyRemembers
<1>5. NeverWhole(record.tail, n)
  <2>1. DOMAIN record.tail = 1 .. Len(record.tail)
    BY <1>1, Fields, UtteredFacts
  <2> QED
    BY <1>3, <2>1 DEF CopyRemembers, NeverWhole
<1>6. ASSUME NEW g \in Holders, NEW w \in LogWrites, Serialized(g, w)
      PROVE  NeverWhole(write[g][w].image.tail, n)
  <2>1. g = h
    BY <1>6, OtherHolders, Empties, <1>1 DEF Serialized
  <2>2. DOMAIN write[h][w].image.tail = 1 .. Len(write[h][w].image.tail)
    BY <1>1, Fields, UtteredFacts
  <2> QED
    BY <1>3, <1>6, <2>1, <2>2 DEF CopyRemembers, NeverWhole
<1>7. ASSUME NEW g \in Holders PROVE NeverWhole(copyOf[g].messages, n)
  <2>1. CASE g # h
    <3>1. copyOf[g].messages = <<>>
      BY <2>1, OtherHolders
    <3>2. DOMAIN <<>> = {}
      OBVIOUS
    <3> QED
      BY <3>1, <3>2 DEF NeverWhole
  <2>2. CASE g = h
    <3> DEFINE m == copyOf[h].messages
    <3>1. m \in Seq(Uttered(said)) /\ Len(m) \in Nat /\ DOMAIN m = 1 .. Len(m)
      BY <1>1, Fields, UtteredFacts
    <3>2. Len(m) <= Len(t) /\ \A j \in 1 .. Len(m) : m[j] = t[(Len(t) - Len(m)) + j]
      BY <1>1, MessagesEnd
    <3> HIDE DEF m, t
    <3>3. ASSUME NEW j \in DOMAIN m, m[j].id = n PROVE ~m[j].whole
      <4>1. PICK i \in 1 .. Len(t) : i = (Len(t) - Len(m)) + j
        BY <1>2, <3>1, <3>2, <3>3
      <4>2. m[j] = t[i] /\ t[i].id = n
        BY <3>1, <3>2, <3>3, <4>1
      <4>3. \A x \in Uttered(said) : x.id \in Nat
        BY <1>1, UtteredFacts
      <4>4. k \in 1 .. Len(t) /\ t[k].id = n /\ ~t[k].whole
        BY DEF t
      <4>5. i = k
        BY <1>2, <4>2, <4>3, <4>4, OnePlace
      <4> QED
        BY <4>2, <4>4, <4>5
    <3> QED
      BY <2>2, <3>3 DEF NeverWhole, m
  <2> QED
    BY <2>1, <2>2
<1> QED
  BY <1>4, <1>5, <1>6, <1>7 DEF NowhereWhole

\* A record that speaks of a conversation still does when it goes on, and its history advances.
LEMMA ImageOnward ==
  ASSUME NEW n \in Nat, NEW m \in Nat, n <= m,
         NEW c \in CopyForm(n), NEW lines \in Seq(Uttered(n)), CopyFits(c, lines),
         NEW d \in CopyForm(m), NEW more \in Seq(Uttered(m)), CopyFits(d, more),
         Grows(c, lines, d, more, n),
         NEW rec \in Image(n), rec.pointer # NoPointer => c.pointer # NoPointer, Under(rec, c, lines)
  PROVE  /\ Under(rec, d, more)
         /\ History(rec, lines) \in Seq(Uttered(m)) /\ History(rec, more) \in Seq(Uttered(m))
         /\ Advances(History(rec, lines), History(rec, more))
         /\ MadeOf(History(rec, more), Len(Live(d, more)), Live(d, more), History(rec, lines))
<1> DEFINE S == Uttered(m)
           t == Live(d, more)
<1>1. c \in CopyForm(m) /\ lines \in Seq(S) /\ rec \in Image(m)
  BY MoreSaid
<1>2. /\ c.messages \in Seq(S) /\ c.logged \in 0 .. Len(c.messages)
      /\ d.messages \in Seq(S) /\ d.logged \in 0 .. Len(d.messages) /\ t \in Seq(S)
      /\ Len(lines) \in Nat /\ Len(more) \in Nat /\ Len(t) \in Nat /\ d.pointer \in Nat
  BY <1>1, FitFacts
<1>3. rec.pointer \in Nat /\ rec.tail \in Seq(S)
  BY <1>1, Fields
<1>4. \A x \in S : x.id # 0
  BY UtteredFacts
<1> HIDE DEF S
<1>5. Under(rec, d, more)
  <2>1. lines \in Seq(S) /\ more \in Seq(S)
    BY <1>1 DEF S
  <2> QED
    BY <1>2, <1>3, <2>1, UnderGrows
<1>6. rec.pointer # NoPointer =>
        /\ Upto(rec.pointer) <= Len(lines) /\ Len(lines) <= Len(more)
        /\ \A i \in 1 .. Len(lines) : more[i] = lines[i]
  <2>1. ASSUME rec.pointer # NoPointer PROVE c.pointer # NoPointer /\ Counted(c.pointer, lines) = lines
    BY <2>1 DEF Counted
  <2> QED
    BY <2>1 DEF Under, Grows
<1>7. rec.pointer # NoPointer => d.pointer # NoPointer
  BY DEF Grows
<1>8. /\ Len(Counted(d.pointer, more)) \in Nat /\ Len(Counted(d.pointer, more)) <= Len(t)
      /\ \A i \in 1 .. Len(Counted(d.pointer, more)) : t[i] = Counted(d.pointer, more)[i]
  <2>1. /\ Len(Counted(d.pointer, more)) \in Nat
        /\ Len(t) = Len(Counted(d.pointer, more)) + (Len(d.messages) - d.logged)
        /\ \A i \in 1 .. Len(Counted(d.pointer, more)) : t[i] = Counted(d.pointer, more)[i]
    <3>1. more \in Seq(S)
      BY DEF S
    <3> QED
      BY <1>2, <3>1, LiveFacts
  <2>2. Len(d.messages) \in Nat
    BY FitFacts
  <2> QED
    BY <1>2, <2>1, <2>2
<1> HIDE DEF t
<1>9. /\ Len(Counted(rec.pointer, more)) \in Nat /\ Len(Counted(rec.pointer, more)) <= Len(t)
      /\ \A i \in 1 .. Len(Counted(rec.pointer, more)) : t[i] = Counted(rec.pointer, more)[i]
  <2>1. CASE rec.pointer = NoPointer
    <3>1. Counted(rec.pointer, more) = <<>> /\ Len(<<>>) = 0
      BY <2>1, EmptySeq DEF Counted
    <3> QED
      BY <1>2, <3>1
  <2>2. CASE rec.pointer # NoPointer
    <3>1. Counted(rec.pointer, more) = Counted(d.pointer, more)
      BY <1>7, <2>2 DEF Counted
    <3> QED
      BY <1>8, <3>1
  <2> QED
    BY <2>1, <2>2
<1>10. Follows(rec, t)
  BY <1>5 DEF Under, t
<1>11. /\ History(rec, lines) \in Seq(S) /\ History(rec, more) \in Seq(S)
       /\ Advances(History(rec, lines), History(rec, more))
       /\ MadeOf(History(rec, more), Len(Counted(rec.pointer, more)), t, History(rec, lines))
  <2>1. lines \in Seq(S) /\ more \in Seq(S)
    BY <1>1 DEF S
  <2> QED
    <3>1. rec.pointer \in Nat /\ rec.tail \in Seq(S) /\ t \in Seq(S)
      BY <1>2, <1>3
    <3>2. \A i \in 1 .. Len(Counted(rec.pointer, more)) : t[i] = Counted(rec.pointer, more)[i]
      BY <1>9
    <3>3. /\ History(rec, lines) \in Seq(S) /\ History(rec, more) \in Seq(S)
          /\ Advances(History(rec, lines), History(rec, more))
      BY ONLY <1>4, <1>6, <1>10, <2>1, <3>1, <3>2, HistoryGrows
    <3>4. MadeOf(History(rec, more), Len(Counted(rec.pointer, more)), t, History(rec, lines))
      BY ONLY <1>4, <1>6, <1>10, <2>1, <3>1, <3>2, HistoryGrows
    <3> QED
      BY <3>3, <3>4
<1>12. MadeOf(History(rec, more), Len(t), t, History(rec, lines))
  <2>1. Len(History(rec, more)) \in Nat
    BY <1>11, LenProperties
  <2>2. \A k \in 1 .. Len(History(rec, more)) : k <= Len(Counted(rec.pointer, more)) => k <= Len(t)
    BY <1>2, <1>9, <2>1
  <2> QED
    BY <1>11, <2>2 DEF MadeOf
<1> QED
  BY <1>5, <1>11, <1>12 DEF S, t

\* What survived in a record's history survives in a more advanced one.
LEMMA StillSurvives ==
  ASSUME NEW m \in Nat, NEW s \in Seq(Uttered(m)), NEW t \in Seq(Uttered(m)), Advances(s, t), NEW e, NEW ids
  PROVE  /\ Survives(s, e, Ids(s)) => Survives(t, e, Ids(t))
         /\ Survives(s, e, Ids(s) \cap ids) => Survives(t, e, Ids(t) \cap ids)
<1>1. Ids(s) \subseteq Ids(t) /\ (Has(s, e) => Has(t, e))
  BY HasAdvances
<1>2. Ids(t) \subseteq 1 .. m
  BY UtteredFacts
<1>3. Survives(s, e, Ids(s)) => Survives(t, e, Ids(t))
  BY <1>1, <1>2, SurvivesMore
<1>4. Ids(s) \cap ids \subseteq Ids(t) \cap ids /\ Ids(t) \cap ids \subseteq 1 .. m
  BY <1>1, <1>2
<1>5. Survives(s, e, Ids(s) \cap ids) => Survives(t, e, Ids(t) \cap ids)
  BY <1>1, <1>4, SurvivesMore
<1> QED
  BY <1>3, <1>5

\* A history that has advanced stands if what it was is kept, and what it has more is in the
\* conversation.
LEMMA StandsOn ==
  ASSUME NEW m \in Nat, NEW before \in Seq(Uttered(m)), NEW told \in Seq(Uttered(m)), Advances(before, told),
         NEW t \in Seq(Uttered(m)), MadeOf(told, Len(t), t, before),
         NEW entries, \A e \in entries : Remembered(t, e), Stands(before, entries)
  PROVE  Stands(told, entries)
<1>1. /\ DOMAIN told = 1 .. Len(told) /\ DOMAIN before = 1 .. Len(before) /\ DOMAIN t = 1 .. Len(t)
      /\ Len(told) \in Nat /\ Len(before) \in Nat /\ Len(t) \in Nat
  BY UtteredFacts
<1>2. ASSUME NEW e \in entries PROVE Survives(told, e, Ids(told) \cap {d.id : d \in entries})
  <2>1. PICK ids : ids = {d.id : d \in entries}
    OBVIOUS
  <2>2. Survives(before, e, Ids(before) \cap ids)
    BY <2>1 DEF Stands
  <2>3. Survives(told, e, Ids(told) \cap ids)
    BY <2>2, StillSurvives
  <2> QED
    BY <2>1, <2>3
<1>3. ASSUME NEW k \in DOMAIN told, ~told[k].whole, Whole(told[k].id) \in entries PROVE FALSE
  <2>1. CASE k <= Len(t) /\ told[k] = t[k]
    <3>1. k \in DOMAIN t
      BY <1>1, <1>3, <2>1
    <3>2. Remembered(t, Whole(t[k].id))
      BY <1>3, <2>1
    <3>3. Whole(t[k].id).id = t[k].id /\ Whole(t[k].id).whole
      BY DEF Whole
    <3> QED
      BY <1>3, <2>1, <3>1, <3>2, <3>3 DEF Remembered
  <2>2. CASE k <= Len(before) /\ told[k] = before[k]
    <3>1. k \in DOMAIN before
      BY <1>1, <1>3, <2>2
    <3> QED
      BY <1>3, <2>2, <3>1 DEF Stands
  <2> QED
    BY <1>1, <1>3, <2>1, <2>2 DEF MadeOf
<1> QED
  BY <1>2, <1>3 DEF Stands

\* A step that writes no record, and only adds to the conversation of the holder and to the log it
\* goes on from, leaves everything on disk behind it.
LEMMA Onward ==
  ASSUME LogShape, LogShape', OneHolder, OneHolder', OnDiskStands,
         NEW h \in Holders, HoldsCopy(h), HoldsCopy(h)',
         CopyFits(copyOf[h], log), CopyFits(copyOf[h], log)',
         said <= said', record' = record, written' = written,
         Grows(copyOf[h], log, copyOf'[h], log', said),
         \A w \in LogWrites : /\ Serialized(h, w)' <=> Serialized(h, w)
                              /\ write'[h][w].image = write[h][w].image \/ ~Serialized(h, w)
                              /\ write'[h][w].replaced = write[h][w].replaced
  PROVE  OnDiskStands'
<1> USE DEF OnDiskStands
<1> DEFINE c == copyOf[h]
           d == copyOf'[h]
           n == said
           m == said'
           t == Live(copyOf'[h], log')
<1>1. /\ n \in Nat /\ c \in CopyForm(n) /\ log \in Seq(Uttered(n)) /\ record \in Image(n)
      /\ \A w \in LogWrites : write[h][w] \in WriteForm(n)
      /\ written \subseteq Uttered(n)
  BY BoundsAssumption DEF LogShape
<1>2. m \in Nat /\ d \in CopyForm(m) /\ log' \in Seq(Uttered(m))
  BY BoundsAssumption DEF LogShape
<1>3. n <= m /\ CopyFits(c, log) /\ CopyFits(d, log') /\ Grows(c, log, d, log', n)
  OBVIOUS
<1>4. \A g \in Holders : g # h => /\ ~HoldsCopy(g) /\ ~HoldsCopy(g)'
                                  /\ \A w \in LogWrites : write[g][w] = NoWrite /\ write'[g][w] = NoWrite
  BY DEF OneHolder, Busy, HoldsCopy
<1>5. NoWrite.stage = "idle" /\ NoWrite.replaced = FALSE
  BY <1>1, Empties
<1>6. \A g \in Holders, w \in LogWrites :
        /\ Serialized(g, w)' <=> Serialized(g, w)
        /\ Serialized(g, w) => g = h
        /\ write'[g][w].replaced = write[g][w].replaced
  BY <1>4, <1>5 DEF Serialized
<1>7. \A w \in LogWrites : Serialized(h, w) => write'[h][w].image = write[h][w].image
  OBVIOUS
<1>8. Steady' <=> Steady
  BY <1>6 DEF Steady
<1>9. \A w \in LogWrites : Current(h, w)' <=> Current(h, w)
  BY <1>6 DEF Current
<1>10. \A w \in LogWrites : /\ write[h][w].image \in Image(n)
                            /\ Serialized(h, w) =>
                                 /\ write[h][w].image.pointer # NoPointer => c.pointer # NoPointer
                                 /\ Len(write[h][w].image.tail) <= Window
                                 /\ Current(h, w) => Under(write[h][w].image, c, log)
  BY <1>1, Fields DEF RecordsFollow
<1>11. /\ record.pointer # NoPointer => c.pointer # NoPointer
       /\ Steady => Under(record, c, log)
  BY DEF RecordsFollow
<1>12. c.pointer # NoPointer => d.pointer # NoPointer
  BY <1>3 DEF Grows
<1> HIDE DEF c, d, n, m, t
<1>13. Steady =>
         /\ Under(record, d, log')
         /\ History(record, log) \in Seq(Uttered(m)) /\ History(record, log') \in Seq(Uttered(m))
         /\ Advances(History(record, log), History(record, log'))
         /\ MadeOf(History(record, log'), Len(t), t, History(record, log))
  BY <1>1, <1>2, <1>3, <1>11, ImageOnward DEF d, t
<1>14. ASSUME NEW w \in LogWrites, Current(h, w)
       PROVE  /\ Under(write[h][w].image, d, log')
              /\ History(write[h][w].image, log) \in Seq(Uttered(m))
              /\ History(write[h][w].image, log') \in Seq(Uttered(m))
              /\ Advances(History(write[h][w].image, log), History(write[h][w].image, log'))
  <2>1. Serialized(h, w)
    BY <1>14 DEF Current
  <2> QED
    BY <1>1, <1>2, <1>3, <1>10, <1>14, <2>1, ImageOnward
<1>15. Live(c, log) \in Seq(Uttered(m)) /\ t \in Seq(Uttered(m)) /\ Len(t) \in Nat /\ DOMAIN t = 1 .. Len(t)
  <2>1. Live(c, log) \in Seq(Uttered(n))
    BY <1>1, <1>3, FitFacts
  <2>2. Live(c, log) \in Seq(Uttered(m))
    BY <1>1, <1>2, <1>3, <2>1, MoreSaid
  <2> QED
    BY <1>2, <1>3, <2>2, FitFacts DEF d, t
<1>16. ASSUME NEW e, e.id \in 1 .. n, Remembered(Live(c, log), e) PROVE Remembered(t, e)
  <2>1. Advances(Live(c, log), t) /\ \A k \in Len(Live(c, log)) + 1 .. Len(t) : t[k].id > n
    BY <1>3 DEF Grows, d, t
  <2>2. Uttered(m) \subseteq [id : 1 .. m, whole : BOOLEAN]
    BY <1>2, UtteredFacts
  <2> QED
    BY <1>1, <1>2, <1>15, <1>16, <2>1, <2>2, RememberedGrows
<1>17. RecordsFollow'
  <2>1. ASSUME NEW w \in LogWrites, Serialized(h, w)'
        PROVE  /\ write'[h][w].image.pointer # NoPointer => d.pointer # NoPointer
               /\ Len(write'[h][w].image.tail) <= Window
               /\ Current(h, w)' => Under(write'[h][w].image, d, log')
    <3>1. Serialized(h, w) /\ write'[h][w].image = write[h][w].image
      BY <1>6, <1>7, <2>1
    <3> QED
      BY <1>9, <1>10, <1>12, <1>14, <3>1
  <2>2. /\ record'.pointer # NoPointer => d.pointer # NoPointer
        /\ Steady' => Under(record', d, log')
    BY <1>8, <1>11, <1>12, <1>13
  <2> QED
    BY <1>4, <2>1, <2>2 DEF RecordsFollow, d
<1>18. Aligned'
  BY DEF Aligned
<1>19. CopyRemembers'
  <2>1. ASSUME NEW e \in written PROVE Remembered(t, e)
    <3>1. Remembered(Live(c, log), e)
      BY DEF CopyRemembers, c
    <3>2. e.id \in 1 .. n
      BY <1>1, UtteredFacts
    <3> QED
      BY <1>16, <3>1, <3>2
  <2>2. ASSUME NEW i \in 1 .. Len(record.tail) PROVE Remembered(t, record.tail[i])
    <3>1. Remembered(Live(c, log), record.tail[i])
      BY DEF CopyRemembers, c
    <3>2. record.tail[i].id \in 1 .. n
      <4>1. record.tail \in Seq(Uttered(n))
        BY <1>1, Fields
      <4> QED
        BY <1>1, <4>1, IdsOfSaid
    <3> QED
      BY <1>16, <3>1, <3>2
  <2>3. ASSUME NEW w \in LogWrites, Serialized(h, w), NEW i \in 1 .. Len(write[h][w].image.tail)
        PROVE  Remembered(t, write[h][w].image.tail[i])
    <3>1. Remembered(Live(c, log), write[h][w].image.tail[i])
      BY <2>3 DEF CopyRemembers, c
    <3>2. write[h][w].image.tail[i].id \in 1 .. n
      <4>1. write[h][w].image.tail \in Seq(Uttered(n))
        BY <1>1, <1>10, Fields
      <4> QED
        BY <1>1, <4>1, IdsOfSaid
    <3> QED
      BY <1>16, <3>1, <3>2
  <2>4. ASSUME NEW w \in LogWrites, Serialized(h, w)', NEW i \in 1 .. Len(write'[h][w].image.tail)
        PROVE  Remembered(t, write'[h][w].image.tail[i])
    BY <1>6, <1>7, <2>3, <2>4
  <2> QED
    BY <1>4, <2>1, <2>2, <2>4 DEF CopyRemembers, t
<1>20. RecordStands'
  <2> SUFFICES ASSUME Steady' PROVE Stands(History(record, log'), written)
    BY DEF RecordStands
  <2>1. Steady /\ Stands(History(record, log), written)
    BY <1>8 DEF RecordStands
  <2>2. \A e \in written : Remembered(t, e)
    <3>1. \A e \in written : Remembered(Live(copyOf[h], log)', e)
      BY <1>19 DEF CopyRemembers
    <3> QED
      BY <3>1 DEF t
  <2> QED
    BY <1>2, <1>13, <1>15, <2>1, <2>2, StandsOn
<1>21. ImagesStand'
  <2>1. ASSUME NEW g \in Holders, NEW w \in LogWrites, Serialized(g, w)'
        PROVE  \A i \in 1 .. Len(write'[g][w].image.tail) :
                 ~write'[g][w].image.tail[i].whole => Whole(write'[g][w].image.tail[i].id) \notin written
    <3>1. Serialized(g, w) /\ write'[g][w].image = write[g][w].image
      BY <1>6, <1>7, <2>1
    <3> QED
      BY <3>1 DEF ImagesStand
  <2>2. ASSUME NEW g \in Holders, NEW w \in LogWrites, Current(g, w)', NEW e \in written
        PROVE  Survives(History(write'[g][w].image, log'), e, Ids(History(write'[g][w].image, log')))
    <3>1. Serialized(g, w)' /\ g = h
      BY <1>6, <2>2 DEF Current
    <3>2. Current(h, w) /\ write'[g][w].image = write[h][w].image
      BY <1>6, <1>7, <1>9, <2>2, <3>1
    <3>3. Survives(History(write[h][w].image, log), e, Ids(History(write[h][w].image, log)))
      BY <2>2, <3>2 DEF ImagesStand
    <3>4. PICK x : x = write[h][w].image
      OBVIOUS
    <3>5. /\ History(x, log) \in Seq(Uttered(m)) /\ History(x, log') \in Seq(Uttered(m))
          /\ Advances(History(x, log), History(x, log'))
      BY <1>14, <3>2, <3>4
    <3>6. Survives(History(x, log'), e, Ids(History(x, log')))
      BY <1>2, <3>3, <3>4, <3>5, StillSurvives
    <3> QED
      BY <3>2, <3>4, <3>6
  <2> QED
    BY <2>1, <2>2 DEF ImagesStand
<1> QED
  BY <1>17, <1>18, <1>19, <1>20, <1>21

(***************************************************************************)
(* Steps that write no record.                                             *)
(***************************************************************************)

\* One write of one process changes.
LEMMA OneChanged ==
  ASSUME NEW A, NEW B, NEW S, NEW f \in [A -> [B -> S]], NEW a \in A, NEW b \in B, NEW x \in S
  PROVE  /\ [f EXCEPT ![a][b] = x] \in [A -> [B -> S]]
         /\ [f EXCEPT ![a][b] = x][a][b] = x
         /\ \A y \in A, z \in B : y # a \/ z # b => [f EXCEPT ![a][b] = x][y][z] = f[y][z]
OBVIOUS

\* What a step must show: the conversation goes on, the writes fit, and parts stay parts.
LEMMA StepStands ==
  ASSUME Orderly, OnDiskStands, NEW h \in Holders, HoldsCopy(h),
         record' = record, written' = written,
         said' \in said .. MaxMessages, talk' \in {"none", "prompted", "streaming"},
         log' \in Seq(Uttered(said')), chain' \in [Holders -> Seq(LogWrites)],
         NEW d \in CopyForm(said'), d.stage = "open", copyOf' = [copyOf EXCEPT ![h] = d],
         write' \in [Holders -> [LogWrites -> WriteForm(said')]],
         \A g \in Holders : g # h => \A w \in LogWrites : write'[g][w] = write[g][w],
         \A w \in LogWrites : /\ Serialized(h, w)' <=> Serialized(h, w)
                              /\ write'[h][w].image = write[h][w].image \/ ~Serialized(h, w)
                              /\ write'[h][w].replaced = write[h][w].replaced,
         CopyFits(d, log'), Grows(copyOf[h], log, d, log', said),
         OneAtATime', StreamsLast', WritesFit', PartsStayParts'
  PROVE  Orderly' /\ PartsStayParts' /\ OnDiskStands'
<1> USE DEF Orderly
<1>1. said \in Nat /\ said' \in Nat /\ said <= said' /\ said' \in 0 .. MaxMessages
  BY BoundsAssumption DEF LogShape
<1>2. copyOf \in [Holders -> CopyForm(said)]
  BY DEF LogShape
<1>3. copyOf'[h] = d /\ \A g \in Holders : g # h => copyOf'[g] = copyOf[g]
  BY <1>2
<1>4. LogShape'
  <2>1. /\ Uttered(said) \subseteq Uttered(said') /\ Image(said) \subseteq Image(said')
        /\ CopyForm(said) \subseteq CopyForm(said')
    BY <1>1, MoreSaid
  <2>2. copyOf' \in [Holders -> CopyForm(said')]
    <3>1. copyOf \in [Holders -> CopyForm(said')]
      BY <1>2, <2>1
    <3> QED
      BY <3>1
  <2>3. /\ record' \in Image(said') /\ Len(record'.tail) <= Window
        /\ written' \subseteq Uttered(said')
    BY <2>1 DEF LogShape
  <2> QED
    BY <1>1, <2>2, <2>3 DEF LogShape
<1>5. HoldsCopy(h)' /\ \A g \in Holders : g # h => (HoldsCopy(g)' <=> HoldsCopy(g))
  BY <1>3 DEF HoldsCopy
<1>6. OneHolder'
  <2>1. \A g \in Holders : Busy(g)' <=> Busy(g)
    BY <1>3 DEF Busy, HoldsCopy
  <2>2. \A g \in Holders :
          /\ ~HoldsCopy(g)' => copyOf'[g].messages = <<>> /\ \A w \in LogWrites : write'[g][w] = NoWrite
          /\ copyOf'[g].stage = "reading" => copyOf'[g].image = record'
    <3>1. \A g \in Holders : g # h =>
            /\ ~HoldsCopy(g)' => copyOf'[g].messages = <<>> /\ \A w \in LogWrites : write'[g][w] = NoWrite
            /\ copyOf'[g].stage = "reading" => copyOf'[g].image = record'
      BY <1>3, <1>5 DEF OneHolder
    <3>2. copyOf'[h].stage # "reading"
      BY <1>3
    <3> QED
      BY <1>5, <3>1, <3>2
  <2> QED
    BY <2>1, <2>2 DEF OneHolder
<1>7. CopyFits(copyOf[h], log) /\ CopyFits(copyOf[h], log)'
  BY <1>3 DEF CopiesFit
<1>8. CopiesFit'
  <2>1. \A g \in Holders : HoldsCopy(g)' => g = h
    BY <1>3, <1>5 DEF OneHolder, Busy, HoldsCopy
  <2> QED
    BY <1>7, <2>1 DEF CopiesFit
<1>9. OnDiskStands'
  BY <1>1, <1>3, <1>4, <1>5, <1>6, <1>7, Onward DEF LogShape
<1> QED
  BY <1>4, <1>6, <1>8, <1>9

\* Parts stay parts when the log has only parts of what is nowhere whole, and none becomes whole.
LEMMA PartsStay ==
  ASSUME record' = record, written' = written,
         \A g \in Holders : \A w \in LogWrites :
           Serialized(g, w)' => Serialized(g, w) /\ write'[g][w].image = write[g][w].image,
         \A i \in DOMAIN log' : \A n : n = log'[i].id /\ ~log'[i].whole =>
           /\ NowhereWhole(n)
           /\ talk' = "streaming" => n < said'
           /\ \A g \in Holders : NeverWhole(copyOf[g].messages, n) => NeverWhole(copyOf'[g].messages, n)
  PROVE  PartsStayParts'
<1> SUFFICES ASSUME NEW i \in DOMAIN log', ~log'[i].whole, NEW n, n = log'[i].id PROVE StaysPart(n)'
  BY DEF PartsStayParts, StaysPart, NowhereWhole
<1>1. NowhereWhole(n)
  OBVIOUS
<1>2. /\ Whole(n) \notin written'
      /\ NeverWhole(record'.tail, n)
  BY <1>1 DEF NowhereWhole
<1>3. talk' = "streaming" => n < said'
  OBVIOUS
<1>4. ASSUME NEW g \in Holders
      PROVE  /\ NeverWhole(copyOf'[g].messages, n)
             /\ \A w \in LogWrites : Serialized(g, w)' => NeverWhole(write'[g][w].image.tail, n)
  <2>1. NeverWhole(copyOf'[g].messages, n)
    BY <1>1 DEF NowhereWhole
  <2>2. ASSUME NEW w \in LogWrites, Serialized(g, w)' PROVE NeverWhole(write'[g][w].image.tail, n)
    BY <1>1, <2>2 DEF NowhereWhole
  <2> QED
    BY <2>1, <2>2
<1> QED
  BY <1>2, <1>3, <1>4 DEF StaysPart, NowhereWhole

\* A conversation that stays as it is goes on.
LEMMA StandsStill ==
  ASSUME NEW n \in Nat, NEW c \in CopyForm(n), NEW lines \in Seq(Uttered(n)), CopyFits(c, lines), NEW d, NEW more,
         c.pointer # NoPointer =>
           /\ d.pointer # NoPointer
           /\ Len(lines) <= Len(more) /\ \A i \in 1 .. Len(lines) : more[i] = lines[i],
         Live(d, more) = Live(c, lines)
  PROVE  Grows(c, lines, d, more, n)
<1>1. Len(Live(c, lines)) \in Nat
  BY FitFacts
<1>2. Advances(Live(c, lines), Live(c, lines))
  BY <1>1 DEF Advances
<1>3. Len(Live(c, lines)) + 1 .. Len(Live(c, lines)) = {}
  BY <1>1
<1> QED
  BY <1>2, <1>3 DEF Grows

\* One write goes on, and keeps its turn or gives it up.
LEMMA TurnsKept ==
  ASSUME OneAtATime, OneHolder, NEW h \in Holders, HoldsCopy(h), NEW w \in LogWrites,
         write'[h][w].stage \notin {"idle", "serialized"},
         \A g \in Holders, v \in LogWrites : g # h \/ v # w => write'[g][v] = write[g][v],
         lock' = lock,
         \A v \in LogWrites : v # w /\ write[h][v].stage \in Appending => FirstInChain(h, v)',
         write'[h][w].stage \in Appending => FirstInChain(h, w)',
         h # LogOwner => \A v \in LogWrites : v # w => write[h][v] = NoWrite
  PROVE  OneAtATime'
<1>1. NoWrite.stage = "idle" /\ "idle" \notin Appending
  BY Empties DEF Appending
<1>2. ASSUME NEW g \in Holders, NEW v \in LogWrites
      PROVE  /\ write'[g][v].stage = "idle" => write'[g][v] = NoWrite
             /\ write'[g][v].stage \in Appending => FirstInChain(g, v)'
             /\ write'[g][v].stage = "serialized" => lock' = <<g, v>>
             /\ g # LogOwner /\ write'[g][v].stage # "idle" =>
                  \A x \in LogWrites : x # v => write'[g][x] = NoWrite
  <2>1. CASE g # h
    <3>1. \A x \in LogWrites : write'[g][x] = NoWrite
      BY <2>1, OtherHolders
    <3> QED
      BY <1>1, <3>1
  <2>2. CASE g = h /\ v # w
    <3>1. write'[h][v] = write[h][v]
      BY <2>2
    <3>2. h # LogOwner => write[h][v] = NoWrite
      BY <2>2
    <3> QED
      BY <1>1, <2>2, <3>1, <3>2 DEF OneAtATime
  <2>3. CASE g = h /\ v = w
    BY <2>3
  <2> QED
    BY <2>1, <2>2, <2>3
<1> QED
  BY <1>2 DEF OneAtATime

\* A step that changes only a write, and perhaps removes a log that no pointer speaks of.
LEMMA WriteStep ==
  ASSUME Orderly, PartsStayParts, OnDiskStands, NEW h \in Holders, HoldsCopy(h), NEW w \in LogWrites,
         ~Serialized(h, w), NEW q \in WriteForm(said), q.stage \notin {"idle", "serialized"},
         q.replaced = write[h][w].replaced, write' = [write EXCEPT ![h][w] = q],
         record' = record, copyOf' = copyOf, said' = said, talk' = talk, written' = written,
         log' = log \/ (copyOf[h].pointer = NoPointer /\ log' = <<>>),
         lock' = lock, chain' \in [Holders -> Seq(LogWrites)],
         \A v \in LogWrites : v # w /\ write[h][v].stage \in Appending => FirstInChain(h, v)',
         q.stage \in Appending => FirstInChain(h, w)',
         h # LogOwner => \A v \in LogWrites : v # w => write[h][v] = NoWrite,
         Fits(h, q)'
  PROVE  Orderly' /\ PartsStayParts' /\ OnDiskStands'
<1> USE DEF Orderly
<1> DEFINE c == copyOf[h]
<1>1. said \in Nat /\ c \in CopyForm(said) /\ log \in Seq(Uttered(said))
  BY BoundsAssumption DEF LogShape
<1>2. CopyFits(c, log) /\ c.stage = "open"
  BY DEF CopiesFit, HoldsCopy
<1>3. log' \in Seq(Uttered(said)) /\ (log' = log \/ c.pointer = NoPointer)
  BY <1>1, EmptySeq
<1>4. write \in [Holders -> [LogWrites -> WriteForm(said)]]
  BY DEF LogShape
<1>5. /\ write' \in [Holders -> [LogWrites -> WriteForm(said)]]
      /\ write'[h][w] = q
      /\ \A g \in Holders, v \in LogWrites : g # h \/ v # w => write'[g][v] = write[g][v]
  BY <1>4, OneChanged
<1>6. c.pointer = NoPointer => Counted(c.pointer, log') = Counted(c.pointer, log)
  BY DEF Counted
<1>7. Live(c, log') = Live(c, log) /\ CopyFits(c, log')
  <2>1. Live(c, log') = Live(c, log)
    BY <1>3, <1>6 DEF Live
  <2> QED
    BY <1>2, <1>3, <2>1 DEF CopyFits
<1>8. Grows(c, log, c, log', said)
  <2>1. Len(log) \in Nat
    BY <1>1, LenProperties
  <2>2. c.pointer # NoPointer =>
          /\ c.pointer # NoPointer
          /\ Len(log) <= Len(log') /\ \A i \in 1 .. Len(log) : log'[i] = log[i]
    BY <1>3, <2>1
  <2> QED
    BY <1>1, <1>2, <1>7, <2>2, StandsStill
<1>9. \A g \in Holders : g # h => \A v \in LogWrites : write[g][v] = NoWrite /\ write'[g][v] = NoWrite
  <2>1. \A g \in Holders : g # h => \A v \in LogWrites : write[g][v] = NoWrite
    BY OtherHolders
  <2> QED
    BY <1>5, <2>1
<1>10. NoWrite.stage = "idle"
  BY <1>1, Empties
<1>11. OneAtATime'
  BY <1>5, TurnsKept DEF Serialized
<1>12. StreamsLast'
  BY DEF StreamsLast, HoldsCopy
<1>13. WritesFit'
  <2>1. ASSUME NEW g \in Holders, NEW v \in LogWrites, NEW x, x = write'[g][v] PROVE Fits(g, x)'
    <3>1. CASE g = h /\ v = w
      BY <1>5, <2>1, <3>1
    <3>2. CASE g # h \/ v # w
      <4>1. Fits(g, x)
        BY <1>5, <2>1, <3>2 DEF WritesFit
      <4>2. log = <<>> => log' = <<>>
        OBVIOUS
      <4> QED
        BY <4>1, <4>2 DEF Fits
    <3> QED
      BY <3>1, <3>2
  <2> QED
    BY <2>1 DEF WritesFit, Fits
<1>14. \A v \in LogWrites : /\ Serialized(h, v)' <=> Serialized(h, v)
                            /\ write'[h][v].image = write[h][v].image \/ ~Serialized(h, v)
                            /\ write'[h][v].replaced = write[h][v].replaced
  BY <1>5 DEF Serialized
<1>15. PartsStayParts'
  <2>1. \A g \in Holders : \A v \in LogWrites :
          Serialized(g, v)' => Serialized(g, v) /\ write'[g][v].image = write[g][v].image
    BY <1>5 DEF Serialized
  <2>2. \A i \in DOMAIN log' : log' = log
    <3>1. DOMAIN <<>> = {}
      OBVIOUS
    <3> QED
      BY <3>1
  <2>3. ASSUME NEW i \in DOMAIN log', NEW n, n = log'[i].id, ~log'[i].whole
        PROVE  NowhereWhole(n) /\ (talk' = "streaming" => n < said')
    BY <2>2, <2>3 DEF PartsStayParts, StaysPart
  <2> QED
    BY <2>1, <2>3, PartsStay
<1>16. copyOf' = [copyOf EXCEPT ![h] = c] /\ \A g \in Holders : g # h => \A v \in LogWrites : write'[g][v] = write[g][v]
  BY <1>5 DEF LogShape
<1>17. said' \in said .. MaxMessages /\ talk' \in {"none", "prompted", "streaming"}
  BY <1>1 DEF LogShape
<1> HIDE DEF c
<1> QED
  BY <1>1, <1>2, <1>3, <1>5, <1>7, <1>8, <1>11, <1>12, <1>13, <1>14, <1>15, <1>16, <1>17, StepStands DEF c

(***************************************************************************)
(* Steps that change a write.                                              *)
(***************************************************************************)

\* A write takes its turn after those that have one.
LEMMA LastInChain ==
  ASSUME NEW s \in Seq(LogWrites), NEW w \in LogWrites
  PROVE  Append(s, w) \in Seq(LogWrites) /\ (s # <<>> => Append(s, w) # <<>> /\ Head(Append(s, w)) = Head(s))
<1>1. Append(s, w) \in Seq(LogWrites) /\ Append(s, w) # <<>>
  BY AppendProperties
<1> QED
  BY <1>1, HeadTailAppend

\* A boundary write begins.
LEMMA BeginStep ==
  ASSUME LogStands, NEW h \in Holders, HoldsCopy(h), NEW w \in LogWrites, NEW through \in 0 .. said,
         Begin(h, w, through), UNCHANGED <<log, record, lock, copyOf, said, talk, written>>,
         h = LogOwner => (through = 0 => talk = "none") /\ (talk = "streaming" => through < said),
         h # LogOwner => Quiet(h)
  PROVE  LogStands'
<1> USE DEF LogStands
<1>1. said \in Nat /\ write[h][w].stage = "idle" /\ OneAtATime /\ LogShape
  BY BoundsAssumption DEF Begin, Orderly, LogShape
<1>2. PICK q : q = [NoWrite EXCEPT !.stage = "waiting", !.through = through]
  OBVIOUS
<1>3. q \in WriteForm(said) /\ q.stage = "waiting" /\ q.replaced = FALSE /\ q.through = through
  <2>1. NoWrite \in WriteForm(said) /\ NoWrite.replaced = FALSE
    BY <1>1, Empties
  <2> QED
    BY <1>2, <2>1 DEF WriteForm
<1>4. write[h][w] = NoWrite /\ write[h][w].replaced = FALSE
  <2>1. write[h][w] = NoWrite
    BY <1>1 DEF OneAtATime
  <2> QED
    BY <1>1, <2>1, Empties
<1>5. write' = [write EXCEPT ![h][w] = q]
  BY <1>2 DEF Begin
<1>6. chain' = [chain EXCEPT ![h] = Append(@, w)] /\ chain \in [Holders -> Seq(LogWrites)]
  BY <1>1 DEF Begin, LogShape
<1>7. chain' \in [Holders -> Seq(LogWrites)] /\ chain'[h] = Append(chain[h], w)
  <2>1. Append(chain[h], w) \in Seq(LogWrites)
    BY <1>6, LastInChain
  <2> QED
    BY <1>6, <2>1
<1>8. \A v \in LogWrites : write[h][v].stage \in Appending => FirstInChain(h, v)'
  <2> SUFFICES ASSUME NEW v \in LogWrites, write[h][v].stage \in Appending PROVE FirstInChain(h, v)'
    OBVIOUS
  <2>1. chain[h] # <<>> /\ Head(chain[h]) = v
    BY <1>1 DEF OneAtATime, FirstInChain
  <2> QED
    BY <1>6, <1>7, <2>1, LastInChain DEF FirstInChain
<1>9. h # LogOwner => \A v \in LogWrites : v # w => write[h][v] = NoWrite
  BY <1>1 DEF Quiet, OneAtATime
<1>10. Fits(h, q)'
  BY <1>3 DEF Fits
<1>11. q.stage \notin {"idle", "serialized"} /\ q.stage \notin Appending /\ ~Serialized(h, w)
  BY <1>1, <1>3 DEF Appending, Serialized
<1> QED
  BY <1>3, <1>4, <1>5, <1>7, <1>8, <1>9, <1>10, <1>11, WriteStep

\* What a process saves outside its turns.
LEMMA SaveOutsideTurnStands ==
  ASSUME LogStands, NEW w \in LogWrites, SaveOutsideTurn(w)
  PROVE  LogStands'
<1>1. 0 \in 0 .. said
  BY BoundsAssumption DEF LogStands, Orderly, LogShape
<1>2. HoldsCopy(LogOwner) /\ talk = "none" /\ Begin(LogOwner, w, 0)
  BY DEF SaveOutsideTurn
<1>3. UNCHANGED <<log, record, lock, copyOf, said, talk, written>>
  BY DEF SaveOutsideTurn
<1> QED
  BY <1>1, <1>2, <1>3, BeginStep, OwnerAssumption

\* What a close writes.
LEMMA CloseStands ==
  ASSUME LogStands, NEW h \in Holders, NEW w \in LogWrites, Close(h, w)
  PROVE  LogStands'
<1>1. 0 \in 0 .. said
  BY BoundsAssumption DEF LogStands, Orderly, LogShape
<1>2. HoldsCopy(h) /\ h # LogOwner /\ Quiet(h) /\ Begin(h, w, 0)
  BY DEF Close
<1>3. UNCHANGED <<log, record, lock, copyOf, said, talk, written>>
  BY DEF Close
<1> QED
  BY <1>1, <1>2, <1>3, BeginStep

\* A write of the record alone.
LEMMA CheckpointStands ==
  ASSUME LogStands, NEW w \in LogWrites, Checkpoint(w)
  PROVE  LogStands'
<1> USE DEF LogStands
<1> DEFINE h == LogOwner
<1>1. said \in Nat /\ h \in Holders /\ write[h][w].stage = "idle" /\ HoldsCopy(h) /\ OneAtATime /\ LogShape
  BY BoundsAssumption, OwnerAssumption DEF Checkpoint, Orderly, LogShape
<1>2. PICK q : q = [NoWrite EXCEPT !.stage = "unrecorded"]
  OBVIOUS
<1>3. q \in WriteForm(said) /\ q.stage = "unrecorded" /\ q.replaced = FALSE
  <2>1. NoWrite \in WriteForm(said) /\ NoWrite.replaced = FALSE
    BY <1>1, Empties
  <2> QED
    BY <1>2, <2>1 DEF WriteForm
<1>4. write[h][w].replaced = FALSE
  <2>1. write[h][w] = NoWrite
    BY <1>1 DEF OneAtATime
  <2> QED
    BY <1>1, <2>1, Empties
<1>5. write' = [write EXCEPT ![h][w] = q] /\ UNCHANGED <<log, record, lock, copyOf, chain, said, talk, written>>
  BY <1>2 DEF Checkpoint
<1>6. \A v \in LogWrites : write[h][v].stage \in Appending => FirstInChain(h, v)'
  BY <1>1, <1>5 DEF OneAtATime, FirstInChain
<1>7. chain' \in [Holders -> Seq(LogWrites)]
  BY <1>1, <1>5 DEF LogShape
<1>8. Fits(h, q)' /\ q.stage \notin {"idle", "serialized"} /\ q.stage \notin Appending /\ ~Serialized(h, w)
  BY <1>1, <1>3 DEF Fits, Appending, Serialized
<1> QED
  BY <1>1, <1>3, <1>4, <1>5, <1>6, <1>7, <1>8, WriteStep

\* A write under way belongs to the holder.
LEMMA WriterHolds ==
  ASSUME LogStands, NEW h \in Holders, NEW w \in LogWrites, write[h][w].stage # "idle"
  PROVE  /\ HoldsCopy(h) /\ CopyFits(copyOf[h], log) /\ Fits(h, write[h][w])
         /\ said \in Nat /\ copyOf[h] \in CopyForm(said) /\ log \in Seq(Uttered(said))
         /\ write[h][w] \in WriteForm(said) /\ chain[h] \in Seq(LogWrites)
         /\ h # LogOwner => \A v \in LogWrites : v # w => write[h][v] = NoWrite
         /\ write[h][w].stage \in Appending => FirstInChain(h, w)
<1> USE DEF LogStands, Orderly
<1>1. /\ said \in Nat /\ copyOf[h] \in CopyForm(said) /\ log \in Seq(Uttered(said))
      /\ write[h][w] \in WriteForm(said) /\ chain[h] \in Seq(LogWrites)
  BY BoundsAssumption DEF LogShape
<1>2. HoldsCopy(h)
  <2>1. NoWrite.stage = "idle"
    BY <1>1, Empties
  <2> QED
    BY <2>1 DEF OneHolder
<1> QED
  BY <1>1, <1>2 DEF CopiesFit, WritesFit, OneAtATime

\* The first write in its process's chain is alone at the log.
LEMMA AloneAtLog ==
  ASSUME LogStands, NEW h \in Holders, NEW w \in LogWrites, FirstInChain(h, w),
         NEW v \in LogWrites, write[h][v].stage \in Appending
  PROVE  v = w
<1>1. FirstInChain(h, v)
  BY DEF LogStands, Orderly, OneAtATime
<1> QED
  BY <1>1 DEF FirstInChain

\* A log that no pointer speaks of is set aside.
LEMMA PrepareStands ==
  ASSUME LogStands, NEW h \in Holders, NEW w \in LogWrites, Prepare(h, w)
  PROVE  LogStands'
<1>1. write[h][w].stage = "waiting" /\ FirstInChain(h, w)
  BY DEF Prepare
<1>2. /\ HoldsCopy(h) /\ Fits(h, write[h][w]) /\ said \in Nat /\ write[h][w] \in WriteForm(said)
      /\ h # LogOwner => \A v \in LogWrites : v # w => write[h][v] = NoWrite
  BY <1>1, WriterHolds
<1>3. PICK q : q = [write[h][w] EXCEPT !.stage = "prepared"]
  OBVIOUS
<1>4. /\ q \in WriteForm(said) /\ q.stage = "prepared" /\ q.replaced = write[h][w].replaced
      /\ q.through = write[h][w].through
  BY <1>2, <1>3 DEF WriteForm, Appending
<1>5. /\ write' = [write EXCEPT ![h][w] = q]
      /\ UNCHANGED <<record, lock, copyOf, chain, said, talk, written>>
  BY <1>2, <1>3 DEF Prepare, Sets, LogStands, Orderly, LogShape
<1>6. log' = log \/ (copyOf[h].pointer = NoPointer /\ log' = <<>>)
  BY DEF Prepare
<1>7. copyOf[h].pointer = NoPointer => log' = <<>>
  BY DEF Prepare
<1>8. Fits(h, q)'
  BY <1>1, <1>2, <1>4, <1>5, <1>7 DEF Fits, Appending
<1>9. FirstInChain(h, w)' /\ \A v \in LogWrites : v # w => write[h][v].stage \notin Appending
  BY <1>1, <1>5, AloneAtLog DEF FirstInChain
<1>10. chain' \in [Holders -> Seq(LogWrites)] /\ ~Serialized(h, w)
  BY <1>1, <1>5 DEF LogStands, Orderly, LogShape, Serialized
<1> HIDE DEF LogStands
<1> QED
  BY <1>2, <1>4, <1>5, <1>6, <1>8, <1>9, <1>10, WriteStep DEF LogStands

\* The numbers up to a bound.
LEMMA UpToBound ==
  ASSUME NEW k \in Nat
  PROVE  IsFiniteSet(1 .. k) /\ Cardinality(1 .. k) = k
<1>1. IsFiniteSet(1 .. k) /\ Cardinality(1 .. k) = IF 1 > k THEN 0 ELSE k - 1 + 1
  BY FS_Interval
<1>2. (IF 1 > k THEN 0 ELSE k - 1 + 1) = k
  OBVIOUS
<1> QED
  BY <1>1, <1>2

\* A part of the numbers up to a bound.
LEMMA PartOfBound ==
  ASSUME NEW k \in Nat, NEW s, s \subseteq 1 .. k
  PROVE  IsFiniteSet(s) /\ Cardinality(s) \in 0 .. k
<1>1. IsFiniteSet(1 .. k) /\ Cardinality(1 .. k) = k
  BY UpToBound
<1>2. IsFiniteSet(s) /\ Cardinality(s) <= k
  BY <1>1, FS_Subset
<1>3. Cardinality(s) \in Nat
  BY <1>2, FS_CardinalityType
<1> QED
  BY <1>2, <1>3

\* What a write is to append: whole entries that come next.
LEMMA NextEntries ==
  ASSUME NEW n \in Nat, NEW c \in CopyForm(n), c.logged \in 0 .. Len(c.messages), NEW through \in 0 .. n,
         NEW streaming, streaming \in BOOLEAN,
         streaming => through # 0 /\ c.logged < Len(c.messages) /\ through < c.messages[Len(c.messages)].id
  PROVE  ToLog(c, through) \in Seq(Uttered(n)) /\ SliceFits(c, ToLog(c, through), streaming)
<1> DEFINE m == c.messages
           end == BoundaryEnd(c, through)
           upTo == {i \in DOMAIN m : m[i].id <= through}
<1>1. /\ m \in Seq(Uttered(n)) /\ Len(m) \in Nat /\ DOMAIN m = 1 .. Len(m) /\ c.logged \in Nat
      /\ \A i \in 1 .. Len(m) : m[i] \in Uttered(n) /\ m[i].id \in Nat
  <2>1. m \in Seq(Uttered(n)) /\ c.logged \in Nat
    BY Fields
  <2> QED
    BY <2>1, UtteredFacts, IdsOfSaid
<1>2. end \in c.logged .. Len(m) /\ (streaming => end < Len(m))
  <2>1. CASE through = 0
    BY <1>1, <2>1 DEF BoundaryEnd
  <2>2. CASE through # 0
    <3>1. Cardinality(upTo) \in 0 .. Len(m)
      <4>1. upTo \subseteq 1 .. Len(m)
        BY <1>1
      <4> HIDE DEF upTo, m
      <4> QED
        BY <1>1, <4>1, PartOfBound
    <3>2. streaming => Cardinality(upTo) < Len(m)
      <4> SUFFICES ASSUME streaming PROVE Cardinality(upTo) < Len(m)
        OBVIOUS
      <4>1. Len(m) - 1 \in Nat /\ Len(m) >= 1
        BY <1>1
      <4>2. upTo \subseteq 1 .. Len(m) - 1
        <5>1. ASSUME NEW i \in 1 .. Len(m), m[i].id <= through PROVE i \in 1 .. Len(m) - 1
          <6>1. Len(m) \in 1 .. Len(m) /\ m[Len(m)].id \in Nat /\ through < m[Len(m)].id
            BY <1>1, <4>1
          <6>2. i # Len(m)
            BY <1>1, <5>1, <6>1
          <6> QED
            BY <1>1, <5>1, <6>2
        <5> QED
          BY <1>1, <5>1
      <4>3. Cardinality(upTo) \in 0 .. Len(m) - 1
        <5> HIDE DEF upTo, m
        <5> QED
          BY <4>1, <4>2, PartOfBound
      <4> HIDE DEF upTo, m
      <4> QED
        BY <1>1, <4>1, <4>3
    <3> HIDE DEF upTo
    <3>3. end = Max({c.logged, Cardinality(upTo)})
      BY <2>2 DEF BoundaryEnd, upTo
    <3>4. end = IF c.logged <= Cardinality(upTo) THEN Cardinality(upTo) ELSE c.logged
      <4> HIDE DEF upTo, end, m
      <4>1. Cardinality(upTo) \in Nat /\ c.logged \in Nat
        BY <1>1, <3>1
      <4> QED
        BY <3>3, <4>1, OfTwo
    <3> HIDE DEF end, m
    <3> QED
      BY <1>1, <3>1, <3>2, <3>4 DEF m
  <2> QED
    BY <2>1, <2>2
<1> HIDE DEF end
<1>3. /\ ToLog(c, through) \in Seq(Uttered(n))
      /\ Len(ToLog(c, through)) = end - c.logged
      /\ \A j \in 1 .. end - c.logged : ToLog(c, through)[j] = m[c.logged + j]
  <2>1. c.logged + 1 \in Int /\ end \in Int /\ \A i \in c.logged + 1 .. end : m[i] \in Uttered(n)
    BY <1>1, <1>2
  <2>2. /\ SubSeq(m, c.logged + 1, end) \in Seq(Uttered(n))
        /\ Len(SubSeq(m, c.logged + 1, end)) = IF c.logged + 1 <= end THEN end - (c.logged + 1) + 1 ELSE 0
        /\ \A i \in 1 .. end - (c.logged + 1) + 1 : SubSeq(m, c.logged + 1, end)[i] = m[(c.logged + 1) + i - 1]
    <3>1. PICK a \in Int : a = c.logged + 1
      BY <2>1
    <3>2. \A i \in a .. end : m[i] \in Uttered(n)
      BY <2>1, <3>1
    <3> HIDE DEF m
    <3>3. /\ SubSeq(m, a, end) \in Seq(Uttered(n))
          /\ Len(SubSeq(m, a, end)) = IF a <= end THEN end - a + 1 ELSE 0
          /\ \A i \in 1 .. end - a + 1 : SubSeq(m, a, end)[i] = m[a + i - 1]
      BY ONLY <2>1, <3>2, SubSeqProperties
    <3> QED
      BY ONLY <3>1, <3>3
  <2>3. ToLog(c, through) = SubSeq(m, c.logged + 1, end)
    BY DEF ToLog, end
  <2>4. end - (c.logged + 1) + 1 = end - c.logged /\ \A i \in Nat : (c.logged + 1) + i - 1 = c.logged + i
    BY <1>1, <1>2
  <2>5. (IF c.logged + 1 <= end THEN end - (c.logged + 1) + 1 ELSE 0) = end - c.logged
    BY <1>1, <1>2
  <2> HIDE DEF m
  <2>6. ASSUME NEW j \in 1 .. end - c.logged PROVE SubSeq(m, c.logged + 1, end)[j] = m[c.logged + j]
    <3>1. j \in Nat
      OBVIOUS
    <3> QED
      BY <2>2, <2>4, <2>6, <3>1
  <2> QED
    BY <2>2, <2>3, <2>5, <2>6
<1>4. c.logged + (end - c.logged) = end
  BY <1>1, <1>2
<1> HIDE DEF m
<1> QED
  BY <1>1, <1>2, <1>3, <1>4 DEF SliceFits, m

\* The log is cut where the pointer says: it ends there.
LEMMA TruncateStands ==
  ASSUME LogStands, NEW h \in Holders, NEW w \in LogWrites, Truncate(h, w)
  PROVE  LogStands'
<1>1. write[h][w].stage = "prepared"
  BY DEF Truncate
<1> DEFINE c == copyOf[h]
           through == write[h][w].through
           streaming == h = LogOwner /\ talk = "streaming"
<1>2. /\ HoldsCopy(h) /\ Fits(h, write[h][w]) /\ said \in Nat /\ write[h][w] \in WriteForm(said)
      /\ CopyFits(c, log) /\ c \in CopyForm(said) /\ log \in Seq(Uttered(said)) /\ FirstInChain(h, w)
      /\ h # LogOwner => \A v \in LogWrites : v # w => write[h][v] = NoWrite
  BY <1>1, WriterHolds DEF Appending
<1>3. PICK slice : slice = ToLog(c, through)
  OBVIOUS
<1>4. slice \in Seq(Uttered(said)) /\ SliceFits(c, slice, streaming)
  <2>1. through \in 0 .. said /\ c.logged \in 0 .. Len(c.messages)
    BY <1>2, Fields DEF CopyFits
  <2>2. streaming => through # 0 /\ c.logged < Len(c.messages) /\ through < c.messages[Len(c.messages)].id
    BY <1>1, <1>2 DEF Fits, Appending, LogStands, Orderly, StreamsLast
  <2>3. streaming \in BOOLEAN
    OBVIOUS
  <2> HIDE DEF streaming, c, through
  <2> QED
    BY <1>2, <1>3, <2>1, <2>2, <2>3, NextEntries
<1>5. PICK q : q = [write[h][w] EXCEPT !.stage = "truncated", !.slice = slice]
  OBVIOUS
<1>6. /\ q \in WriteForm(said) /\ q.stage = "truncated" /\ q.replaced = write[h][w].replaced
      /\ q.through = through /\ q.slice = slice
  BY <1>2, <1>4, <1>5 DEF WriteForm, Appending
<1>7. /\ write' = [write EXCEPT ![h][w] = q]
      /\ UNCHANGED <<record, lock, copyOf, chain, said, talk, written>>
  <2>1. write' = [write EXCEPT ![h][w].stage = "truncated", ![h][w].slice = slice]
    BY <1>3 DEF Truncate
  <2>2. write \in [Holders -> [LogWrites -> WriteForm(said)]]
    BY DEF LogStands, Orderly, LogShape
  <2>3. write' = [write EXCEPT ![h][w] = q]
    BY <1>5, <2>1, <2>2
  <2> QED
    BY <2>3 DEF Truncate
<1>8. log' = log
  <2>1. Upto(c.pointer) = Len(log)
    <3>1. CASE c.pointer = NoPointer
      <4>1. log = <<>> /\ Len(<<>>) = 0
        BY <1>1, <1>2, <3>1, EmptySeq DEF Fits
      <4> QED
        BY <3>1, <4>1 DEF Upto
    <3>2. CASE c.pointer # NoPointer
      BY <1>2, <3>2 DEF CopyFits
    <3> QED
      BY <3>1, <3>2
  <2>2. Len(log) \in Nat /\ SubSeq(log, 1, Len(log)) = log
    BY <1>2, LenProperties, SubSeqFull
  <2>3. Resized(log, Upto(c.pointer)) = log
    BY <2>1, <2>2 DEF Resized
  <2> QED
    BY <1>3, <2>3 DEF Truncate
<1>9. Fits(h, q)'
  BY <1>1, <1>2, <1>4, <1>6, <1>7, <1>8 DEF Fits, Appending
<1>10. FirstInChain(h, w)' /\ \A v \in LogWrites : v # w => write[h][v].stage \notin Appending
  BY <1>2, <1>7, AloneAtLog DEF FirstInChain
<1>11. chain' \in [Holders -> Seq(LogWrites)] /\ ~Serialized(h, w)
  BY <1>1, <1>7 DEF LogStands, Orderly, LogShape, Serialized
<1> QED
  BY <1>2, <1>6, <1>7, <1>8, <1>9, <1>10, <1>11, WriteStep DEF LogStands

\* A write that appended goes on to the record.
LEMMA NoCompactionStands ==
  ASSUME LogStands, NEW h \in Holders, NEW w \in LogWrites, NoCompaction(h, w)
  PROVE  LogStands'
<1>1. write[h][w].stage = "appended"
  BY DEF NoCompaction
<1>2. /\ HoldsCopy(h) /\ said \in Nat /\ write[h][w] \in WriteForm(said)
      /\ FirstInChain(h, w) /\ chain[h] \in Seq(LogWrites)
      /\ h # LogOwner => \A v \in LogWrites : v # w => write[h][v] = NoWrite
  BY <1>1, WriterHolds DEF Appending
<1>3. PICK q : q = [write[h][w] EXCEPT !.stage = "unrecorded"]
  OBVIOUS
<1>4. q \in WriteForm(said) /\ q.stage = "unrecorded" /\ q.replaced = write[h][w].replaced
  BY <1>2, <1>3 DEF WriteForm
<1>5. /\ write' = [write EXCEPT ![h][w] = q]
      /\ UNCHANGED <<log, record, lock, copyOf, said, talk, written>>
  BY <1>2, <1>3 DEF NoCompaction, Sets, LogStands, Orderly, LogShape
<1>6. chain' \in [Holders -> Seq(LogWrites)]
  <2>1. Tail(chain[h]) \in Seq(LogWrites)
    BY <1>2, HeadTailProperties DEF FirstInChain
  <2> QED
    BY <2>1 DEF NoCompaction, Released, LogStands, Orderly, LogShape
<1>7. \A v \in LogWrites : v # w => write[h][v].stage \notin Appending
  BY <1>2, AloneAtLog
<1>8. Fits(h, q)' /\ q.stage \notin {"idle", "serialized"} /\ q.stage \notin Appending /\ ~Serialized(h, w)
  BY <1>1, <1>4 DEF Fits, Appending, Serialized
<1> QED
  BY <1>2, <1>4, <1>5, <1>6, <1>7, <1>8, WriteStep DEF LogStands

\* A write that compacts takes a copy of the window.
LEMMA CompactCopyStands ==
  ASSUME LogStands, NEW h \in Holders, NEW w \in LogWrites, CompactCopy(h, w)
  PROVE  LogStands'
<1>1. write[h][w].stage = "appended" /\ write[h][w].through = 0
  BY DEF CompactCopy, CompactNow
<1>2. /\ HoldsCopy(h) /\ Fits(h, write[h][w]) /\ said \in Nat /\ write[h][w] \in WriteForm(said)
      /\ copyOf[h] \in CopyForm(said) /\ FirstInChain(h, w)
      /\ h # LogOwner => \A v \in LogWrites : v # w => write[h][v] = NoWrite
  BY <1>1, WriterHolds DEF Appending
<1>3. PICK slice : slice = Copied(copyOf[h])
  OBVIOUS
<1>4. slice \in Seq(Uttered(said))
  <2>1. copyOf[h].messages \in Seq(Uttered(said)) /\ Window \in Nat
    BY <1>2, Fields, BoundsAssumption
  <2> QED
    BY <1>3, <2>1, LastOfFacts DEF Copied
<1>5. PICK q : q = [write[h][w] EXCEPT !.stage = "compacting", !.slice = slice]
  OBVIOUS
<1>6. q \in WriteForm(said) /\ q.stage = "compacting" /\ q.replaced = write[h][w].replaced /\ q.through = 0
  BY <1>1, <1>2, <1>4, <1>5 DEF WriteForm, Appending
<1>7. /\ write' = [write EXCEPT ![h][w] = q]
      /\ UNCHANGED <<log, record, lock, copyOf, chain, said, talk, written>>
  <2>1. write' = [write EXCEPT ![h][w].stage = "compacting", ![h][w].slice = slice]
    BY <1>3 DEF CompactCopy
  <2>2. write \in [Holders -> [LogWrites -> WriteForm(said)]]
    BY DEF LogStands, Orderly, LogShape
  <2>3. write' = [write EXCEPT ![h][w] = q]
    BY <1>5, <2>1, <2>2
  <2> QED
    BY <2>3 DEF CompactCopy
<1>8. Fits(h, q)'
  BY <1>1, <1>2, <1>6, <1>7 DEF Fits, Appending
<1>9. FirstInChain(h, w)' /\ \A v \in LogWrites : v # w => write[h][v].stage \notin Appending
  BY <1>2, <1>7, AloneAtLog DEF FirstInChain
<1>10. chain' \in [Holders -> Seq(LogWrites)] /\ ~Serialized(h, w)
  BY <1>1, <1>7 DEF LogStands, Orderly, LogShape, Serialized
<1> QED
  BY <1>2, <1>6, <1>7, <1>8, <1>9, <1>10, WriteStep DEF LogStands

(***************************************************************************)
(* The append.                                                             *)
(***************************************************************************)

\* A slice of a sequence.
Splits(s, a, slice) == a + Len(slice) <= Len(s) /\ \A j \in 1 .. Len(slice) : slice[j] = s[a + j]

\* The rest of a sequence, split where a slice of it ends.
LEMMA RestSplit ==
  ASSUME NEW S, NEW s \in Seq(S), NEW a \in Nat, NEW slice \in Seq(S), Splits(s, a, slice)
  PROVE  After(s, a) = slice \o After(s, a + Len(slice))
<1>0. a + Len(slice) <= Len(s) /\ \A j \in 1 .. Len(slice) : slice[j] = s[a + j]
  BY DEF Splits
<1>1. PICK k \in Nat, n \in Nat : k = Len(slice) /\ n = Len(s)
  BY LenProperties
<1>2. a + k <= n /\ a \in 0 .. n /\ a + k \in 0 .. n /\ a + k \in Nat
  BY <1>0, <1>1
<1> DEFINE u == After(s, a)
           v == After(s, a + k)
<1>3. u \in Seq(S) /\ Len(u) = n - a /\ \A i \in 1 .. n - a : u[i] = s[a + i]
  BY <1>1, <1>2, AfterFacts
<1>4. v \in Seq(S) /\ Len(v) = n - (a + k) /\ \A i \in 1 .. n - (a + k) : v[i] = s[(a + k) + i]
  <2>1. PICK b \in 0 .. Len(s) : b = a + k
    BY <1>1, <1>2
  <2>2. /\ After(s, b) \in Seq(S) /\ Len(After(s, b)) = Len(s) - b
        /\ \A i \in 1 .. Len(s) - b : After(s, b)[i] = s[b + i]
    BY AfterFacts
  <2> QED
    BY <1>1, <2>1, <2>2
<1> HIDE DEF u, v
<1>5. /\ slice \o v \in Seq(S) /\ Len(slice \o v) = k + Len(v)
      /\ \A i \in 1 .. k + Len(v) : (slice \o v)[i] = IF i <= k THEN slice[i] ELSE v[i - k]
  <2>1. /\ slice \o v \in Seq(S) /\ Len(slice \o v) = Len(slice) + Len(v)
        /\ \A i \in 1 .. Len(slice) + Len(v) : (slice \o v)[i] = IF i <= Len(slice) THEN slice[i] ELSE v[i - Len(slice)]
    <3>1. slice \in Seq(S) /\ v \in Seq(S)
      BY <1>4
    <3> QED
      BY ONLY <3>1, ConcatProperties
  <2> QED
    BY <1>1, <2>1
<1>6. Len(slice \o v) = n - a
  BY <1>1, <1>2, <1>4, <1>5
<1>7. ASSUME NEW i \in 1 .. n - a PROVE u[i] = (slice \o v)[i]
  <2>1. i \in 1 .. k + Len(v) /\ i \in Nat
    BY <1>1, <1>2, <1>4
  <2>2. CASE i <= k
    <3>1. slice[i] = s[a + i]
      BY <1>0, <1>1, <2>1, <2>2
    <3> QED
      BY <1>3, <1>5, <2>1, <2>2, <3>1
  <2>3. CASE ~(i <= k)
    <3>1. i - k \in 1 .. n - (a + k) /\ (a + k) + (i - k) = a + i
      BY <1>1, <1>2, <2>1, <2>3
    <3>2. v[i - k] = s[a + i]
      BY <1>4, <3>1
    <3> QED
      BY <1>3, <1>5, <2>1, <2>3, <3>2
  <2> QED
    BY <2>2, <2>3
<1>8. u = slice \o v
  BY <1>3, <1>5, <1>6, <1>7, SeqEqual
<1> QED
  BY <1>1, <1>8 DEF u, v

\* A copy whose next entries are appended to the log goes on from there.
LEMMA AppendFits ==
  ASSUME NEW n \in Nat, NEW c \in CopyForm(n), NEW lines \in Seq(Uttered(n)), CopyFits(c, lines),
         NEW slice \in Seq(Uttered(n)), SliceFits(c, slice, FALSE), c.pointer = NoPointer => lines = <<>>,
         NEW d \in CopyForm(n), d.messages = c.messages, d.logged = c.logged + Len(slice),
         d.pointer = NoPointer => c.pointer = NoPointer /\ slice = <<>>,
         d.pointer # NoPointer => Upto(d.pointer) = Len(lines) + Len(slice)
  PROVE  /\ Live(d, lines \o slice) = Live(c, lines)
         /\ CopyFits(d, lines \o slice)
<1> DEFINE m == c.messages
           more == lines \o slice
<1>1. /\ m \in Seq(Uttered(n)) /\ Len(m) \in Nat /\ Len(lines) \in Nat /\ Len(slice) \in Nat
      /\ c.logged \in 0 .. Len(m) /\ c.logged \in Nat /\ d.pointer \in Nat /\ c.pointer \in Nat
  <2>1. Len(slice) \in Nat /\ d.pointer \in Nat
    BY Fields, LenProperties
  <2> QED
    BY <2>1, FitFacts
<1>2. c.logged + Len(slice) <= Len(m) /\ \A j \in 1 .. Len(slice) : slice[j] = m[c.logged + j]
  BY DEF SliceFits
<1>3. /\ more \in Seq(Uttered(n)) /\ Len(more) = Len(lines) + Len(slice)
      /\ \A i \in 1 .. Len(lines) + Len(slice) : more[i] = IF i <= Len(lines) THEN lines[i] ELSE slice[i - Len(lines)]
  BY ConcatProperties
<1>4. Counted(d.pointer, more) = Counted(c.pointer, lines) \o slice
  <2>1. CASE c.pointer = NoPointer
    <3>1. lines = <<>> /\ more = slice /\ Counted(c.pointer, lines) = <<>>
      BY <2>1, ConcatEmptySeq DEF Counted
    <3> QED
      BY <3>1 DEF Counted
  <2>2. CASE c.pointer # NoPointer
    BY <2>2 DEF Counted
  <2> QED
    BY <2>1, <2>2
<1>5. After(m, c.logged) = slice \o After(m, c.logged + Len(slice))
  <2> HIDE DEF m
  <2> DEFINE S == Uttered(n)
  <2>1. m \in Seq(S) /\ slice \in Seq(S) /\ c.logged \in Nat /\ Splits(m, c.logged, slice)
    BY <1>1, <1>2 DEF Splits
  <2> HIDE DEF S
  <2> QED
    BY ONLY <2>1, RestSplit
<1>6. Live(d, more) = Live(c, lines)
  <2>1. /\ Counted(c.pointer, lines) \in Seq(Uttered(n))
        /\ After(m, c.logged + Len(slice)) \in Seq(Uttered(n))
    <3>1. c.logged + Len(slice) \in 0 .. Len(m)
      BY <1>1, <1>2
    <3>2. After(m, c.logged + Len(slice)) \in Seq(Uttered(n))
      <4> HIDE DEF m
      <4> QED
        BY <1>1, <3>1, AfterFacts
    <3> QED
      BY <3>2, EmptySeq DEF Counted
  <2>2. (Counted(c.pointer, lines) \o slice) \o After(m, c.logged + Len(slice))
          = Counted(c.pointer, lines) \o (slice \o After(m, c.logged + Len(slice)))
    <3>1. PICK s, t : s = Counted(c.pointer, lines) /\ t = After(m, c.logged + Len(slice))
      OBVIOUS
    <3>2. s \in Seq(Uttered(n)) /\ t \in Seq(Uttered(n)) /\ slice \in Seq(Uttered(n))
      BY <2>1, <3>1
    <3>3. (s \o slice) \o t = s \o (slice \o t)
      BY ONLY <3>2, ConcatAssociative
    <3> QED
      BY <3>1, <3>3
  <2>3. Live(d, more) = (Counted(c.pointer, lines) \o slice) \o After(m, c.logged + Len(slice))
    BY <1>4 DEF Live
  <2>4. Live(c, lines) = Counted(c.pointer, lines) \o After(m, c.logged)
    BY DEF Live
  <2> QED
    BY <1>5, <2>2, <2>3, <2>4
<1> HIDE DEF m, more
<1>7. ASSUME d.pointer # NoPointer
      PROVE  /\ Upto(d.pointer) = Len(more) /\ d.logged <= Len(more)
             /\ \A j \in 1 .. d.logged : d.messages[j] = more[(Len(more) - d.logged) + j]
             /\ d.logged < Len(more) => Len(d.messages) = Window
  <2>1. /\ c.logged <= Len(lines)
        /\ \A j \in 1 .. c.logged : m[j] = lines[(Len(lines) - c.logged) + j]
        /\ c.logged < Len(lines) => Len(m) = Window
    <3>1. CASE c.pointer = NoPointer
      <4>1. c.logged = 0 /\ Len(lines) = 0
        BY <3>1, EmptySeq DEF CopyFits
      <4> QED
        BY <4>1
    <3>2. CASE c.pointer # NoPointer
      BY <3>2 DEF CopyFits, m
    <3> QED
      BY <3>1, <3>2
  <2>2. PICK a \in Nat, k \in Nat, x \in Nat : a = Len(lines) /\ k = Len(slice) /\ x = c.logged
    BY <1>1
  <2>3. x <= a /\ d.logged = x + k /\ Len(more) = a + k
    BY <1>3, <2>1, <2>2
  <2>4. Len(more) - d.logged = a - x /\ a - x \in Nat
    BY <2>3
  <2>5. ASSUME NEW j \in 1 .. x + k PROVE m[j] = more[(a - x) + j]
    <3>1. (a - x) + j \in 1 .. a + k /\ j \in Nat
      BY <2>3
    <3>2. CASE j <= x
      <4>1. j \in 1 .. x /\ (a - x) + j <= a
        BY <2>3, <3>1, <3>2
      <4>2. more[(a - x) + j] = lines[(a - x) + j]
        BY <1>3, <2>2, <3>1, <4>1
      <4> QED
        BY <2>1, <2>2, <4>1, <4>2
    <3>3. CASE ~(j <= x)
      <4>1. /\ j - x \in 1 .. k /\ x + (j - x) = j
            /\ ((a - x) + j) - a = j - x /\ ~((a - x) + j <= a)
        BY <2>3, <3>1, <3>3
      <4>2. more[(a - x) + j] = slice[j - x]
        BY <1>3, <2>2, <3>1, <4>1
      <4> QED
        BY <1>2, <2>2, <4>1, <4>2
    <3> QED
      BY <3>2, <3>3
  <2>6. d.messages = m
    BY DEF m
  <2>7. d.logged < Len(more) => c.logged < Len(lines)
    BY <2>2, <2>3
  <2>8. Upto(d.pointer) = Len(more) /\ d.logged <= Len(more)
    BY <1>3, <1>7, <2>2, <2>3
  <2>9. \A j \in 1 .. d.logged : d.messages[j] = more[(Len(more) - d.logged) + j]
    BY <2>3, <2>4, <2>5, <2>6
  <2> QED
    BY <2>1, <2>6, <2>7, <2>8, <2>9
<1>8. ASSUME d.pointer = NoPointer PROVE d.logged = 0
  <2>1. c.logged = 0 /\ Len(slice) = 0
    BY <1>8, EmptySeq DEF CopyFits
  <2> QED
    BY <2>1
<1>9. d.logged \in 0 .. Len(d.messages) /\ Len(d.messages) <= Window
  BY <1>1, <1>2 DEF CopyFits, m
<1>10. Ascending(Live(d, more))
  BY <1>6 DEF CopyFits
<1> QED
  BY <1>6, <1>7, <1>8, <1>9, <1>10 DEF CopyFits, more

\* The slice is appended, and counted.
LEMMA AppendLinesStands ==
  ASSUME LogStands, NEW h \in Holders, NEW w \in LogWrites, AppendLines(h, w)
  PROVE  LogStands'
<1> USE DEF LogStands, Orderly
<1>1. write[h][w].stage = "truncated"
  BY DEF AppendLines
<1> DEFINE c == copyOf[h]
           slice == write[h][w].slice
           empty == c.pointer = NoPointer /\ c.messages = <<>>
<1>2. /\ HoldsCopy(h) /\ Fits(h, write[h][w]) /\ said \in Nat /\ write[h][w] \in WriteForm(said)
      /\ CopyFits(c, log) /\ c \in CopyForm(said) /\ log \in Seq(Uttered(said)) /\ FirstInChain(h, w)
      /\ chain \in [Holders -> Seq(LogWrites)]
      /\ h # LogOwner => \A v \in LogWrites : v # w => write[h][v] = NoWrite
  BY <1>1, WriterHolds DEF Appending, LogShape
<1>3. /\ slice \in Seq(Uttered(said)) /\ Len(slice) \in Nat /\ c.logged \in Nat /\ Len(c.messages) \in Nat
      /\ c.pointer \in Nat
  BY <1>2, Fields
<1>4. /\ SliceFits(c, slice, h = LogOwner /\ talk = "streaming") /\ SliceFits(c, slice, FALSE)
      /\ c.pointer = NoPointer => log = <<>>
  BY <1>1, <1>2 DEF Fits, SliceFits
<1>5. c.logged + Len(slice) <= Len(c.messages)
  BY <1>4 DEF SliceFits
<1>6. empty => slice = <<>> /\ log = <<>>
  <2>1. ASSUME empty PROVE slice = <<>>
    <3>1. Len(c.messages) = 0 /\ Len(slice) = 0
      BY <1>3, <1>5, <2>1, EmptySeq
    <3> QED
      BY <1>3, <3>1, EmptySeq
  <2> QED
    BY <1>4, <2>1
<1>7. log' = log \o slice
  <2>1. CASE empty
    <3>1. <<>> \o <<>> = <<>>
      BY ConcatEmptySeq, EmptySeq
    <3> QED
      BY <1>6, <2>1, <3>1 DEF AppendLines
  <2>2. CASE ~empty
    <3>1. log # <<>> => Last(log) # Nul
      <4> SUFFICES ASSUME log # <<>> PROVE Last(log) # Nul
        OBVIOUS
      <4>1. Len(log) \in 1 .. Len(log)
        BY <1>2, EmptySeq
      <4>2. log[Len(log)] \in Uttered(said) /\ log[Len(log)].id # 0
        BY <1>2, <4>1, IdsOfSaid
      <4>3. Nul.id = 0
        BY DEF Nul, Partial
      <4> QED
        BY <4>2, <4>3 DEF Last
    <3>2. Appended(log, slice) = log \o slice
      BY <3>1 DEF Appended
    <3> QED
      BY <2>2, <3>2 DEF AppendLines
  <2> QED
    BY <2>1, <2>2
<1>8. PICK d : d = [c EXCEPT !.pointer = IF slice = <<>> /\ ~empty THEN c.pointer
                                         ELSE PointerAt(Upto(c.pointer) + Len(slice)),
                             !.logged = Min({c.logged + Len(slice), Len(c.messages)})]
  OBVIOUS
<1>9. copyOf' = [copyOf EXCEPT ![h] = d]
  <2>1. copyOf \in [Holders -> CopyForm(said)]
    BY DEF LogShape
  <2>2. copyOf' = [copyOf EXCEPT
            ![h].pointer = IF slice = <<>> /\ ~empty THEN @ ELSE PointerAt(Upto(@) + Len(slice)),
            ![h].logged = Min({@ + Len(slice), Len(c.messages)})]
    BY DEF AppendLines
  <2> HIDE DEF slice, empty
  <2>3. \A a, b : [copyOf EXCEPT ![h].pointer = a, ![h].logged = b] = [copyOf EXCEPT ![h] = [c EXCEPT !.pointer = a, !.logged = b]]
    BY <2>1
  <2>4. copyOf' = [copyOf EXCEPT
            ![h].pointer = IF slice = <<>> /\ ~empty THEN c.pointer ELSE PointerAt(Upto(c.pointer) + Len(slice)),
            ![h].logged = Min({c.logged + Len(slice), Len(c.messages)})]
    BY <1>2, <2>1, <2>2 DEF CopyForm
  <2> QED
    BY <1>8, <2>3, <2>4
<1>10. Upto(c.pointer) \in Nat /\ Upto(c.pointer) = Len(log)
  <2>1. Len(log) \in Nat
    BY <1>2, LenProperties
  <2>2. CASE c.pointer = NoPointer
    <3>1. Len(log) = 0
      BY <1>4, <2>2, EmptySeq
    <3> QED
      BY <2>2, <3>1 DEF Upto
  <2>3. CASE c.pointer # NoPointer
    BY <1>2, <2>1, <2>3 DEF CopyFits
  <2> QED
    BY <2>2, <2>3
<1>11. Min({c.logged + Len(slice), Len(c.messages)}) = c.logged + Len(slice)
  <2>1. \A a, b, k \in Nat : a + k <= b => Min({a + k, b}) = a + k
    <3> SUFFICES ASSUME NEW a \in Nat, NEW b \in Nat, NEW k \in Nat, a + k <= b PROVE Min({a + k, b}) = a + k
      OBVIOUS
    <3>1. a + k \in Nat
      OBVIOUS
    <3> QED
      BY <3>1, OfTwo
  <2> QED
    BY <1>3, <1>5, <2>1
<1>12. PICK x \in Nat : /\ x = IF slice = <<>> /\ ~empty THEN c.pointer ELSE PointerAt(Upto(c.pointer) + Len(slice))
                        /\ x = NoPointer => c.pointer = NoPointer /\ slice = <<>> /\ ~empty
                        /\ x # NoPointer => Upto(x) = Len(log) + Len(slice)
  <2>1. CASE slice = <<>> /\ ~empty
    <3>1. Len(slice) = 0
      BY <2>1, EmptySeq
    <3>2. Len(log) + Len(slice) = Len(log)
      BY <1>10, <3>1
    <3> QED
      BY <1>3, <1>10, <2>1, <3>2
  <2>2. CASE ~(slice = <<>> /\ ~empty)
    <3>1. \A k \in Nat : PointerAt(k) \in Nat /\ PointerAt(k) # NoPointer /\ Upto(PointerAt(k)) = k
      BY DEF PointerAt, Upto, NoPointer
    <3>2. Upto(c.pointer) + Len(slice) \in Nat /\ Upto(c.pointer) + Len(slice) = Len(log) + Len(slice)
      BY <1>3, <1>10
    <3> HIDE DEF empty, slice
    <3> QED
      BY <2>2, <3>1, <3>2
  <2> QED
    BY <2>1, <2>2
<1>13. /\ d \in CopyForm(said) /\ d.stage = "open" /\ d.messages = c.messages
       /\ d.logged = c.logged + Len(slice) /\ d.pointer = x
  <2>1. d = [c EXCEPT !.pointer = x, !.logged = c.logged + Len(slice)]
    BY <1>8, <1>11, <1>12
  <2>2. c.logged + Len(slice) \in Nat /\ c.stage = "open"
    <3>1. \A a, b \in Nat : a + b \in Nat
      OBVIOUS
    <3> QED
      BY <1>2, <1>3, <3>1 DEF HoldsCopy
  <2>3. \A k \in Nat : LET e == [c EXCEPT !.pointer = x, !.logged = k]
                       IN  /\ e \in CopyForm(said) /\ e.stage = c.stage /\ e.messages = c.messages
                           /\ e.logged = k /\ e.pointer = x
    BY <1>2 DEF CopyForm
  <2> HIDE DEF c, slice
  <2> QED
    BY <2>1, <2>2, <2>3
<1>14. Live(d, log') = Live(c, log) /\ CopyFits(d, log')
  <2> HIDE DEF c, slice, empty
  <2> QED
    BY <1>2, <1>3, <1>4, <1>7, <1>12, <1>13, AppendFits
<1>15. log' \in Seq(Uttered(said)) /\ Len(log) \in Nat /\ Len(log') = Len(log) + Len(slice)
       /\ \A i \in 1 .. Len(log) + Len(slice) : log'[i] = IF i <= Len(log) THEN log[i] ELSE slice[i - Len(log)]
  BY <1>2, <1>3, <1>7, ConcatProperties, LenProperties
<1>16. Grows(c, log, d, log', said)
  <2>1. c.pointer # NoPointer =>
          /\ d.pointer # NoPointer
          /\ Len(log) <= Len(log') /\ \A i \in 1 .. Len(log) : log'[i] = log[i]
    <3>1. \A i \in 1 .. Len(log) : log'[i] = log[i]
      BY <1>3, <1>15
    <3>2. Len(log) <= Len(log')
      BY <1>3, <1>15
    <3> QED
      BY <1>12, <1>13, <3>1, <3>2
  <2> HIDE DEF c
  <2> QED
    BY <1>2, <1>14, <2>1, StandsStill
<1>17. PICK q : q = [write[h][w] EXCEPT !.stage = "appended"]
  OBVIOUS
<1>18. /\ q \in WriteForm(said) /\ q.stage = "appended" /\ q.replaced = write[h][w].replaced
       /\ q.through = write[h][w].through
  BY <1>2, <1>17 DEF WriteForm, Appending
<1>19. /\ write \in [Holders -> [LogWrites -> WriteForm(said)]]
       /\ write' \in [Holders -> [LogWrites -> WriteForm(said)]]
       /\ write'[h][w] = q
       /\ \A g \in Holders, v \in LogWrites : g # h \/ v # w => write'[g][v] = write[g][v]
  <2>1. write \in [Holders -> [LogWrites -> WriteForm(said)]]
    BY DEF LogShape
  <2>2. write' = [write EXCEPT ![h][w] = q]
    BY <1>17, <2>1 DEF AppendLines, Sets
  <2> QED
    BY <1>18, <2>1, <2>2, OneChanged
<1>20. UNCHANGED <<record, lock, chain, said, talk, written>>
  BY DEF AppendLines
<1>21. \A g \in Holders : g # h => copyOf'[g] = copyOf[g]
  BY <1>9 DEF LogShape
<1>22. copyOf'[h] = d
  BY <1>9 DEF LogShape
<1>23. \A v \in LogWrites : v # w => write[h][v].stage \notin Appending
  BY <1>2, AloneAtLog
<1>24. OneAtATime'
  <2>1. FirstInChain(h, w)'
    BY <1>2, <1>20 DEF FirstInChain
  <2> HIDE DEF c, slice, empty
  <2> QED
    BY <1>2, <1>18, <1>19, <1>20, <1>23, <2>1, TurnsKept
<1>25. talk = "streaming" => h = LogOwner
  BY <1>2, OwnerAssumption DEF StreamsLast, OneHolder, Busy, HoldsCopy
<1>26. StreamsLast'
  <2>1. talk # "none" => HoldsCopy(LogOwner)'
    BY <1>13, <1>21, <1>22, OwnerAssumption DEF StreamsLast, HoldsCopy
  <2>2. talk = "streaming" => d.logged < Len(d.messages) /\ d.messages[Len(d.messages)].id = said
    BY <1>4, <1>13, <1>25 DEF SliceFits, StreamsLast
  <2> HIDE DEF c, slice, empty
  <2> QED
    BY <1>20, <1>22, <1>25, <2>1, <2>2 DEF StreamsLast
<1>27. WritesFit'
  <2>1. ASSUME NEW g \in Holders, NEW v \in LogWrites, NEW y, y = write'[g][v] PROVE Fits(g, y)'
    <3>1. CASE g = h /\ v = w
      <4>1. y = q
        BY <1>19, <2>1, <3>1
      <4> QED
        BY <1>1, <1>2, <1>18, <1>20, <3>1, <4>1 DEF Fits, Appending
    <3>2. CASE g # h \/ v # w
      <4>1. Fits(g, y) /\ y = write[g][v]
        BY <1>19, <2>1, <3>2 DEF WritesFit
      <4>2. y.stage \notin Appending
        <5>1. CASE g # h
          <6>1. y = NoWrite /\ NoWrite.stage = "idle"
            BY <1>2, <4>1, <5>1, OtherHolders, Empties
          <6> QED
            BY <6>1 DEF Appending
        <5>2. CASE g = h
          BY <1>23, <3>2, <4>1, <5>2
        <5> QED
          BY <5>1, <5>2
      <4> QED
        BY <1>20, <4>1, <4>2 DEF Fits, Appending
    <3> QED
      BY <3>1, <3>2
  <2> QED
    BY <2>1 DEF WritesFit, Fits
<1>28. PartsStayParts'
  <2>1. \A g \in Holders : \A v \in LogWrites :
          Serialized(g, v)' => Serialized(g, v) /\ write'[g][v].image = write[g][v].image
    BY <1>18, <1>19 DEF Serialized
  <2>2. \A g \in Holders : \A n : NeverWhole(copyOf[g].messages, n) => NeverWhole(copyOf'[g].messages, n)
    BY <1>13, <1>21, <1>22
  <2>3. ASSUME NEW i \in DOMAIN log', NEW n, n = log'[i].id, ~log'[i].whole
        PROVE  NowhereWhole(n) /\ (talk' = "streaming" => n < said')
    <3>1. i \in 1 .. Len(log) + Len(slice) /\ i \in Nat /\ DOMAIN log = 1 .. Len(log)
      BY <1>2, <1>3, <1>15, <2>3, LenProperties
    <3>2. CASE i <= Len(log)
      <4>1. i \in DOMAIN log /\ log[i] = log'[i]
        BY <1>15, <3>1, <3>2
      <4>2. StaysPart(n)
        BY <2>3, <4>1 DEF PartsStayParts
      <4> QED
        BY <1>20, <4>2 DEF StaysPart
    <3>3. CASE ~(i <= Len(log))
      <4>1. PICK j \in 1 .. Len(slice) : j = i - Len(log)
        <5>1. \A x1, y1 \in Nat : \A z1 \in 1 .. x1 + y1 : ~(z1 <= x1) => z1 - x1 \in 1 .. y1
          OBVIOUS
        <5>2. i - Len(log) \in 1 .. Len(slice)
          <6> HIDE DEF slice
          <6> QED
            BY <1>3, <1>15, <3>1, <3>3, <5>1
        <5> QED
          BY <5>2
      <4>2. log'[i] = c.messages[c.logged + j]
        BY <1>4, <1>15, <3>1, <3>3, <4>1 DEF SliceFits
      <4>3. PICK a \in 1 .. Len(c.messages) : a = c.logged + j
        <5>1. \A x1, y1, z1 \in Nat : \A k1 \in 1 .. y1 : x1 + y1 <= z1 => x1 + k1 \in 1 .. z1
          OBVIOUS
        <5> HIDE DEF slice, c
        <5> QED
          BY <1>3, <1>5, <5>1
      <4>4. PICK k \in 1 .. Len(Live(c, log)) : Live(c, log)[k] = c.messages[a]
        BY <1>2, InConversation
      <4>5. NowhereWhole(n)
        <5>1. ~Live(copyOf[h], log)[k].whole /\ n = Live(copyOf[h], log)[k].id
          BY <2>3, <4>2, <4>3, <4>4
        <5> QED
          BY <1>2, <5>1, PartOfConversation DEF OnDiskStands
      <4>6. ASSUME talk = "streaming" PROVE n < said
        <5>1. c.logged + Len(slice) < Len(c.messages)
          BY <1>4, <1>25, <4>6 DEF SliceFits
        <5>2. a < Len(c.messages) /\ Len(c.messages) \in 1 .. Len(c.messages)
          <6>1. \A x1, y1, z1 \in Nat : \A k1 \in 1 .. y1 : x1 + y1 < z1 => x1 + k1 < z1 /\ z1 \in 1 .. z1
            OBVIOUS
          <6> HIDE DEF slice, c
          <6> QED
            BY <1>3, <4>3, <5>1, <6>1
        <5>3. c.messages[a].id < c.messages[Len(c.messages)].id
          BY <1>2, <5>2, InConversation
        <5>4. c.messages[Len(c.messages)].id = said
          BY <1>25, <4>6 DEF StreamsLast
        <5> QED
          BY <2>3, <4>2, <4>3, <5>3, <5>4
      <4> QED
        BY <1>20, <4>5, <4>6
    <3> QED
      BY <3>2, <3>3
  <2> QED
    BY <1>20, <2>1, <2>2, <2>3, PartsStay
<1>29. \A v \in LogWrites : /\ Serialized(h, v)' <=> Serialized(h, v)
                            /\ write'[h][v].image = write[h][v].image \/ ~Serialized(h, v)
                            /\ write'[h][v].replaced = write[h][v].replaced
  <2>1. ASSUME NEW v \in LogWrites, v # w PROVE write'[h][v] = write[h][v]
    BY <1>19, <2>1
  <2>2. ~Serialized(h, w) /\ ~Serialized(h, w)' /\ write'[h][w].replaced = write[h][w].replaced
    BY <1>1, <1>18, <1>19 DEF Serialized
  <2> QED
    BY <2>1, <2>2 DEF Serialized
<1>30. said' \in said .. MaxMessages /\ talk' \in {"none", "prompted", "streaming"}
  BY <1>2, <1>20 DEF LogShape
<1> HIDE DEF c, slice, empty
<1> QED
  BY <1>2, <1>9, <1>13, <1>14, <1>15, <1>16, <1>19, <1>20, <1>24, <1>26, <1>27, <1>28, <1>29, <1>30, StepStands DEF c

(***************************************************************************)
(* The conversation.                                                       *)
(***************************************************************************)

\* The window has room for one more entry that is not logged.
RoomIn(c) == Len(c.messages) - c.logged < Window

\* The numbers of it: no more than one is dropped, and only of those logged.
LEMMA WindowSlides ==
  ASSUME NEW x \in Nat, NEW y \in Nat, NEW z \in Nat, x <= z, y <= x, x - y < z
  PROVE  \E drop \in 0 .. y :
           /\ drop = IF x + 1 > z THEN (x + 1) - z ELSE 0
           /\ (IF y > drop THEN y - drop ELSE 0) = y - drop
           /\ drop > 0 => (x + 1) - drop = z
           /\ drop <= x + 1 /\ (x + 1) - drop <= z /\ y - drop \in 0 .. (x + 1) - drop
<1>1. CASE x + 1 > z
  <2>1. x = z /\ 1 \in 0 .. y /\ (x + 1) - z = 1
    BY <1>1
  <2>2. (IF y > 1 THEN y - 1 ELSE 0) = y - 1
    BY <2>1
  <2>3. (x + 1) - 1 = z /\ 1 <= x + 1 /\ (x + 1) - 1 <= z /\ y - 1 \in 0 .. (x + 1) - 1
    BY <2>1
  <2> WITNESS 1 \in 0 .. y
  <2> QED
    BY <1>1, <2>1, <2>2, <2>3
<1>2. CASE ~(x + 1 > z)
  <2>1. 0 \in 0 .. y /\ (IF y > 0 THEN y - 0 ELSE 0) = y - 0
    OBVIOUS
  <2>2. 0 <= x + 1 /\ (x + 1) - 0 <= z /\ y - 0 \in 0 .. (x + 1) - 0
    BY <1>2
  <2> WITNESS 0 \in 0 .. y
  <2> QED
    BY <1>2, <2>1, <2>2
<1> QED
  BY <1>1, <1>2

\* An entry joins a sequence of which some are logged, and as many of those are dropped.
Slides(p, a, q, b, e) ==
  \E drop \in 0 .. a :
    /\ Len(q) = (Len(p) + 1) - drop /\ b = a - drop
    /\ drop > 0 => Len(q) = Window
    /\ \A j \in 1 .. Len(q) : q[j] = IF drop + j <= Len(p) THEN p[drop + j] ELSE e

\* A new entry joins the conversation, and the window moves on over logged entries only.
LEMMA PushedFacts ==
  ASSUME NEW n \in Nat, NEW m \in Nat, m = n + 1,
         NEW c \in CopyForm(n), NEW lines \in Seq(Uttered(n)), CopyFits(c, lines),
         RoomIn(c),
         NEW e \in Uttered(m), e.id = m, NEW d, d = Pushed(c, e)
  PROVE  /\ d \in CopyForm(m) /\ d.stage = c.stage /\ d.pointer = c.pointer
         /\ Len(d.messages) \in Nat /\ d.logged \in 0 .. Len(d.messages)
         /\ Len(d.messages) <= Window
         /\ Slides(c.messages, c.logged, d.messages, d.logged, e)
<1> DEFINE S == Uttered(m)
           a == Append(c.messages, e)
<1>1. /\ c \in CopyForm(m) /\ c.messages \in Seq(S) /\ Len(c.messages) \in Nat /\ c.logged \in 0 .. Len(c.messages)
      /\ Len(c.messages) <= Window /\ Window \in Nat /\ Window > 0 /\ e \in S
  BY MoreSaid, Fields, BoundsAssumption DEF CopyFits
<1>2. /\ a \in Seq(S) /\ Len(a) = Len(c.messages) + 1
      /\ \A j \in 1 .. Len(c.messages) + 1 : a[j] = IF j <= Len(c.messages) THEN c.messages[j] ELSE e
  <2> HIDE DEF S
  <2>1. /\ a \in Seq(S) /\ Len(a) = Len(c.messages) + 1
        /\ \A j \in 1 .. Len(c.messages) : a[j] = c.messages[j]
        /\ a[Len(c.messages) + 1] = e
    BY <1>1, AppendProperties
  <2> HIDE DEF a
  <2> QED
    BY <1>1, <2>1
<1>3. PICK x \in Nat, y \in Nat, z \in Nat :
        /\ x = Len(c.messages) /\ y = c.logged /\ z = Window /\ x <= z /\ y <= x /\ x - y < z
  BY <1>1 DEF RoomIn
<1> HIDE DEF a, S
<1>4. PICK drop \in 0 .. y :
        /\ drop = IF x + 1 > z THEN (x + 1) - z ELSE 0
        /\ (IF y > drop THEN y - drop ELSE 0) = y - drop
        /\ drop > 0 => (x + 1) - drop = z
        /\ drop <= x + 1 /\ (x + 1) - drop <= z /\ y - drop \in 0 .. (x + 1) - drop
  BY <1>3, WindowSlides
<1>5. /\ drop \in 0 .. y /\ (IF y > drop THEN y - drop ELSE 0) = y - drop
      /\ drop > 0 => (x + 1) - drop = z
      /\ drop <= x + 1 /\ (x + 1) - drop <= z /\ y - drop \in 0 .. (x + 1) - drop
      /\ drop \in 0 .. Len(a) /\ Len(a) - drop = (x + 1) - drop
  <2>1. Len(a) = x + 1
    BY <1>2, <1>3
  <2>2. drop \in 0 .. x + 1
    BY <1>4
  <2> QED
    BY <1>4, <2>1, <2>2
<1>6. d = [c EXCEPT !.messages = After(a, drop), !.logged = y - drop]
  <2>1. c.logged = y /\ [c EXCEPT !.messages = a].logged = c.logged /\ [c EXCEPT !.messages = a].messages = a
    BY <1>1, <1>3 DEF CopyForm
  <2>2. drop = IF Len(a) > Window THEN Len(a) - Window ELSE 0
    BY <1>2, <1>3, <1>4
  <2>3. d = [[c EXCEPT !.messages = a] EXCEPT !.messages = After(a, drop),
                                              !.logged = IF y > drop THEN y - drop ELSE 0]
    BY <1>1, <1>3, <2>1, <2>2 DEF Pushed, Trimmed, a, CopyForm
  <2> QED
    BY <1>1, <1>5, <2>3 DEF CopyForm
<1>7. /\ After(a, drop) \in Seq(S) /\ Len(After(a, drop)) = (x + 1) - drop
      /\ \A j \in 1 .. (x + 1) - drop : After(a, drop)[j] = a[drop + j]
  BY <1>2, <1>5, AfterFacts
<1>8. /\ d \in CopyForm(m) /\ d.stage = c.stage /\ d.pointer = c.pointer
      /\ d.messages = After(a, drop) /\ d.logged = y - drop
  <2>1. y - drop \in Nat
    BY <1>3, <1>5
  <2> QED
    BY <1>1, <1>6, <1>7, <2>1 DEF CopyForm, S
<1>9. ASSUME NEW j \in 1 .. (x + 1) - drop
      PROVE  d.messages[j] = IF drop + j <= x THEN c.messages[drop + j] ELSE e
  <2>1. drop + j \in 1 .. x + 1
    BY <1>3, <1>5
  <2>2. d.messages[j] = a[drop + j]
    BY <1>7, <1>8
  <2> QED
    BY <1>2, <1>3, <2>1, <2>2
<1>10. Len(d.messages) = (x + 1) - drop /\ Len(d.messages) \in Nat
  BY <1>5, <1>7, <1>8
<1>11. Slides(c.messages, c.logged, d.messages, d.logged, e)
  <2>1. drop \in 0 .. c.logged
    BY <1>3, <1>5
  <2>2. Len(d.messages) = (Len(c.messages) + 1) - drop /\ d.logged = c.logged - drop
    BY <1>3, <1>8, <1>10
  <2>3. drop > 0 => Len(d.messages) = Window
    BY <1>3, <1>5, <1>10
  <2>4. \A j \in 1 .. Len(d.messages) :
          d.messages[j] = IF drop + j <= Len(c.messages) THEN c.messages[drop + j] ELSE e
    BY <1>3, <1>9, <1>10
  <2> QED
    BY <2>1, <2>2, <2>3, <2>4 DEF Slides
<1>12. d.logged \in 0 .. Len(d.messages) /\ Len(d.messages) <= Window
  BY <1>3, <1>5, <1>8, <1>10
<1> QED
  BY <1>8, <1>10, <1>11, <1>12

\* The conversation has it at its end, and the rest stays where it was.
LEMMA Pushing ==
  ASSUME NEW n \in Nat, NEW m \in Nat, m = n + 1,
         NEW c \in CopyForm(n), NEW lines \in Seq(Uttered(n)), CopyFits(c, lines),
         RoomIn(c),
         NEW e \in Uttered(m), e.id = m, NEW d, d = Pushed(c, e)
  PROVE  /\ d \in CopyForm(m) /\ d.stage = c.stage /\ d.pointer = c.pointer
         /\ CopyFits(d, lines) /\ Advances(Live(c, lines), Live(d, lines))
         /\ \A k \in Len(Live(c, lines)) + 1 .. Len(Live(d, lines)) : Live(d, lines)[k].id > n
         /\ d.logged < Len(d.messages) /\ d.messages[Len(d.messages)] = e
         /\ Len(d.messages) - d.logged = (Len(c.messages) - c.logged) + 1
         /\ \A j \in 1 .. Len(c.messages) - c.logged : d.messages[d.logged + j] = c.messages[c.logged + j]
         /\ \A j \in 1 .. Len(d.messages) :
              d.messages[j] = e \/ \E i \in 1 .. Len(c.messages) : d.messages[j] = c.messages[i]
<1> DEFINE p == c.messages
           q == d.messages
           s == Live(c, lines)
           t == Live(d, lines)
           k0 == Len(Counted(c.pointer, lines))
<1>1. /\ d \in CopyForm(m) /\ d.stage = c.stage /\ d.pointer = c.pointer
      /\ Len(q) \in Nat /\ d.logged \in 0 .. Len(q) /\ Len(q) <= Window
      /\ Slides(p, c.logged, q, d.logged, e)
  BY PushedFacts
<1>2. /\ c \in CopyForm(m) /\ p \in Seq(Uttered(m)) /\ Len(p) \in Nat /\ c.logged \in 0 .. Len(p) /\ c.logged \in Nat
      /\ lines \in Seq(Uttered(m)) /\ Len(lines) \in Nat
  BY MoreSaid, FitFacts
<1>3. /\ s \in Seq(Uttered(n)) /\ Len(s) \in Nat /\ k0 \in Nat /\ Len(s) = k0 + (Len(p) - c.logged)
      /\ \A i \in 1 .. k0 : s[i] = Counted(c.pointer, lines)[i]
      /\ \A j \in c.logged + 1 .. Len(p) : s[k0 + (j - c.logged)] = p[j]
  <2> DEFINE S == Uttered(n)
  <2>1. c.messages \in Seq(S) /\ c.logged \in 0 .. Len(c.messages) /\ lines \in Seq(S)
    BY FitFacts
  <2> HIDE DEF S
  <2>2. /\ Live(c, lines) \in Seq(S) /\ Len(Counted(c.pointer, lines)) \in Nat
        /\ Len(Live(c, lines)) = Len(Counted(c.pointer, lines)) + (Len(c.messages) - c.logged)
        /\ \A i \in 1 .. Len(Counted(c.pointer, lines)) : Live(c, lines)[i] = Counted(c.pointer, lines)[i]
    BY ONLY <2>1, LiveFacts
  <2>3. \A j \in c.logged + 1 .. Len(c.messages) :
          Live(c, lines)[Len(Counted(c.pointer, lines)) + (j - c.logged)] = c.messages[j]
    BY ONLY <2>1, LiveFacts
  <2>4. Len(Live(c, lines)) \in Nat
    BY ONLY <2>2, LenProperties
  <2> QED
    BY ONLY <2>2, <2>3, <2>4 DEF p, s, k0, S
<1>4. /\ t \in Seq(Uttered(m)) /\ Len(t) \in Nat /\ Len(t) = k0 + (Len(q) - d.logged)
      /\ \A i \in 1 .. k0 : t[i] = Counted(c.pointer, lines)[i]
      /\ \A j \in d.logged + 1 .. Len(q) : t[k0 + (j - d.logged)] = q[j]
  <2> DEFINE S == Uttered(m)
  <2>1. d.messages \in Seq(S) /\ d.logged \in 0 .. Len(d.messages) /\ lines \in Seq(S)
    BY <1>1, <1>2, Fields
  <2> HIDE DEF S
  <2>6. Live(d, lines) \in Seq(S) /\ Len(Counted(d.pointer, lines)) \in Nat
    BY ONLY <2>1, LiveFacts
  <2>7. Len(Live(d, lines)) = Len(Counted(d.pointer, lines)) + (Len(d.messages) - d.logged)
    BY ONLY <2>1, LiveFacts
  <2>8. \A i \in 1 .. Len(Counted(d.pointer, lines)) : Live(d, lines)[i] = Counted(d.pointer, lines)[i]
    BY ONLY <2>1, LiveFacts
  <2>2. /\ Live(d, lines) \in Seq(S) /\ Len(Counted(d.pointer, lines)) \in Nat
        /\ Len(Live(d, lines)) = Len(Counted(d.pointer, lines)) + (Len(d.messages) - d.logged)
        /\ \A i \in 1 .. Len(Counted(d.pointer, lines)) : Live(d, lines)[i] = Counted(d.pointer, lines)[i]
    BY <2>6, <2>7, <2>8
  <2>3. \A j \in d.logged + 1 .. Len(d.messages) :
          Live(d, lines)[Len(Counted(d.pointer, lines)) + (j - d.logged)] = d.messages[j]
    BY ONLY <2>1, LiveFacts
  <2>4. Len(Live(d, lines)) \in Nat
    BY ONLY <2>2, LenProperties
  <2>5. d.pointer = c.pointer
    BY <1>1
  <2> QED
    BY ONLY <2>2, <2>3, <2>4, <2>5 DEF q, t, k0, S
<1> HIDE DEF p, q, s, t, k0
<1>50. PICK x \in Nat, y \in Nat, u \in Nat :
         x = Len(p) /\ y = c.logged /\ u = k0 /\ y <= x /\ Len(s) = u + (x - y)
  BY <1>2, <1>3
<1>51. PICK z \in 0 .. y :
              /\ Len(q) = (x + 1) - z /\ d.logged = y - z
              /\ z > 0 => Len(q) = Window
              /\ \A j \in 1 .. Len(q) : q[j] = IF z + j <= x THEN p[z + j] ELSE e
  BY <1>1, <1>50 DEF Slides
<1>52. PICK l \in Nat, v \in Nat : l = Len(q) /\ v = d.logged /\ l = (x + 1) - z /\ v = y - z
  BY <1>1, <1>51
<1>53. PICK f \in Nat, g \in Nat : f = Len(s) /\ g = Len(t) /\ f = u + (x - y) /\ g = u + (l - v)
  BY <1>3, <1>4, <1>50, <1>52
<1>60. y = c.logged /\ v = d.logged
  BY <1>50, <1>52
<1>6. /\ x = Len(p) /\ u = k0 /\ l = Len(q)
      /\ f = Len(s) /\ g = Len(t) /\ y <= x /\ z \in Nat /\ z <= y
      /\ l = (x + 1) - z /\ v = y - z /\ f = u + (x - y) /\ g = u + (l - v)
  BY <1>50, <1>52, <1>53
<1>5. /\ z > 0 => Len(q) = Window
      /\ \A j \in 1 .. Len(q) : q[j] = IF z + j <= Len(p) THEN p[z + j] ELSE e
  BY <1>50, <1>51
<1>7. l - v = (x - y) + 1 /\ g = f + 1 /\ v < l /\ g = (u + (x - y)) + 1
  BY <1>6
<1>8. q[Len(q)] = e
  <2>1. l \in 1 .. l /\ ~(z + l <= x)
    BY <1>6
  <2> QED
    BY <1>5, <1>6, <2>1
<1>9. ASSUME NEW j \in 1 .. x - y PROVE q[v + j] = p[y + j]
  <2>1. v + j \in 1 .. l /\ z + (v + j) = y + j /\ y + j <= x
    BY <1>6
  <2> QED
    BY <1>5, <1>6, <2>1
<1>10. ASSUME NEW k \in 1 .. Len(s) PROVE t[k] = s[k]
  <2>1. CASE k <= u
    <3>1. k \in 1 .. k0
      BY <1>6, <2>1
    <3> QED
      BY <1>3, <1>4, <3>1
  <2>2. CASE ~(k <= u)
    <3>1. k - u \in 1 .. x - y /\ u + (k - u) = k /\ k - u \in Nat
      <4>1. k \in 1 .. f
        BY <1>6
      <4> QED
        BY <1>6, <2>2, <4>1
    <3>2. y + (k - u) \in y + 1 .. x /\ (y + (k - u)) - y = k - u
      <4>1. \A i \in Nat : i \in 1 .. x - y => y + i \in y + 1 .. x /\ (y + i) - y = i
        BY <1>6
      <4> QED
        BY <3>1, <4>1
    <3>3. s[k] = p[y + (k - u)]
      BY <1>3, <1>6, <1>60, <3>1, <3>2
    <3>4. /\ v + (k - u) \in v + 1 .. l /\ (v + (k - u)) - v = k - u
      <4>1. \A i \in Nat : i \in 1 .. x - y => v + i \in v + 1 .. l /\ (v + i) - v = i
        BY <1>6, <1>7
      <4> QED
        BY <3>1, <4>1
    <3>5. t[k] = q[v + (k - u)]
      <4>1. PICK j \in v + 1 .. l : j = v + (k - u) /\ j - v = k - u
        BY <3>4
      <4>2. j \in d.logged + 1 .. Len(q) /\ k0 + (j - d.logged) = k
        BY <1>6, <1>60, <3>1, <4>1
      <4> QED
        BY <1>4, <4>1, <4>2
    <3> QED
      BY <1>9, <3>1, <3>3, <3>5
  <2> QED
    BY <2>1, <2>2
<1>11. t[Len(t)] = e
  <2>1. l \in v + 1 .. l /\ u + (l - v) = g
    BY <1>6, <1>7
  <2> QED
    BY <1>4, <1>6, <1>60, <1>8, <2>1
<1>12. Advances(s, t) /\ \A k \in Len(s) + 1 .. Len(t) : t[k].id > n
  <2>1. Len(s) <= Len(t) /\ \A k \in Len(s) + 1 .. Len(t) : k = Len(t)
    <3>1. f <= g /\ \A k \in f + 1 .. g : k = g
      BY <1>7
    <3> QED
      BY <1>6, <3>1
  <2> QED
    BY <1>10, <1>11, <2>1 DEF Advances
<1>13. Ascending(t)
  <2>1. Ascending(s) /\ DOMAIN s = 1 .. Len(s) /\ DOMAIN t = 1 .. Len(t)
    BY <1>3, <1>4, LenProperties DEF CopyFits, s
  <2>2. ASSUME NEW i \in DOMAIN t, NEW j \in DOMAIN t, i < j PROVE t[i].id < t[j].id
    <3>1. i \in 1 .. Len(s) /\ (j \in 1 .. Len(s) \/ j = Len(t))
      <4>1. i \in 1 .. f + 1 /\ j \in 1 .. f + 1
        BY <1>6, <1>7, <2>1
      <4>2. i \in 1 .. f /\ (j \in 1 .. f \/ j = f + 1)
        BY <2>2, <4>1
      <4> QED
        BY <1>6, <1>7, <4>2
    <3>2. CASE j \in 1 .. Len(s)
      BY <1>10, <2>1, <2>2, <3>1, <3>2 DEF Ascending
    <3>3. CASE j = Len(t)
      <4>1. s[i].id \in 1 .. n
        BY <1>3, <3>1, IdsOfSaid
      <4>2. t[i].id = s[i].id /\ t[j].id = m
        BY <1>10, <1>11, <3>1, <3>3
      <4> QED
        BY <4>1, <4>2
    <3> QED
      BY <3>1, <3>2, <3>3
  <2> QED
    BY <2>2 DEF Ascending
<1>14. CopyFits(d, lines)
  <2>1. c.pointer = NoPointer => d.logged = 0
    <3>1. c.pointer = NoPointer => c.logged = 0
      BY DEF CopyFits
    <3>2. ASSUME c.pointer = NoPointer PROVE v = 0
      <4>1. y = 0
        BY <1>60, <3>1, <3>2
      <4>2. \A i, j, k \in Nat : i <= j /\ k = j - i /\ j = 0 => k = 0
        OBVIOUS
      <4>3. z \in Nat /\ z <= y /\ v = y - z
        BY <1>6
      <4> QED
        BY <4>1, <4>2, <4>3
    <3> QED
      BY <1>60, <3>2
  <2>2. ASSUME c.pointer # NoPointer
        PROVE  /\ Upto(c.pointer) = Len(lines) /\ d.logged <= Len(lines)
               /\ \A j \in 1 .. d.logged : q[j] = lines[(Len(lines) - d.logged) + j]
               /\ d.logged < Len(lines) => Len(q) = Window
    <3>1. /\ Upto(c.pointer) = Len(lines) /\ c.logged <= Len(lines)
          /\ \A j \in 1 .. c.logged : p[j] = lines[(Len(lines) - c.logged) + j]
          /\ c.logged < Len(lines) => Len(p) = Window
      BY <2>2 DEF CopyFits, p
    <3>2. v <= Len(lines)
      <4>1. y <= Len(lines)
        BY <1>60, <3>1
      <4> QED
        BY <1>2, <1>6, <4>1
    <3>3. ASSUME NEW j \in 1 .. v PROVE q[j] = lines[(Len(lines) - v) + j]
      <4>1. z + j \in 1 .. y /\ z + j <= x /\ j \in 1 .. Len(q)
        <5>1. z + j \in 1 .. y /\ z + j <= x /\ j \in 1 .. l
          BY <1>6
        <5> QED
          BY <1>6, <5>1
      <4>2. (Len(lines) - y) + (z + j) = (Len(lines) - v) + j
        <5>1. \A i, r \in Int : (r - y) + (z + i) = (r - v) + i
          BY <1>6
        <5> QED
          BY <1>2, <5>1
      <4>3. q[j] = p[z + j]
        BY <1>5, <1>6, <4>1
      <4>4. p[z + j] = lines[(Len(lines) - y) + (z + j)]
        BY <1>60, <3>1, <4>1
      <4> QED
        BY <4>2, <4>3, <4>4
    <3>4. ASSUME v < Len(lines) PROVE Len(q) = Window
      <4>1. CASE z > 0
        BY <1>5, <1>6, <4>1
      <4>2. CASE ~(z > 0)
        <5>1. z = 0 /\ y < Len(lines)
          BY <1>6, <3>4, <4>2
        <5>2. Len(q) = Len(p) + 1 /\ Len(p) = Window /\ Len(q) <= Window /\ Window \in Nat
          BY <1>1, <1>6, <1>60, <3>1, <5>1, BoundsAssumption DEF q
        <5> QED
          BY <5>2
      <4> QED
        BY <4>1, <4>2
    <3> QED
      BY <1>60, <3>1, <3>2, <3>3, <3>4
  <2>3. d.pointer = c.pointer /\ d.logged \in 0 .. Len(d.messages) /\ Len(d.messages) <= Window
    BY <1>1 DEF q
  <2> QED
    BY <1>13, <2>1, <2>2, <2>3 DEF CopyFits, q, t
<1>15. ASSUME NEW j \in 1 .. Len(q) PROVE q[j] = e \/ \E i \in 1 .. Len(p) : q[j] = p[i]
  <2>1. CASE z + j <= x
    <3>1. z + j \in 1 .. Len(p)
      BY <1>6, <2>1
    <3> QED
      BY <1>5, <1>6, <2>1, <3>1
  <2>2. CASE ~(z + j <= x)
    BY <1>5, <1>6, <2>2
  <2> QED
    BY <2>1, <2>2
<1> QED
  BY <1>1, <1>6, <1>60, <1>7, <1>8, <1>9, <1>12, <1>14, <1>15 DEF p, q, s, t

\* A copy whose last entry is whole.
WholeAtEnd(c) == [c EXCEPT !.messages[Len(c.messages)].whole = TRUE]

\* What streams becomes whole when it is the last entry, and is not logged.
LEMMA Settling ==
  ASSUME NEW n \in Nat, NEW c \in CopyForm(n), NEW lines \in Seq(Uttered(n)), CopyFits(c, lines),
         c.logged < Len(c.messages), NEW s, s = WholeAtEnd(c)
  PROVE  /\ s \in CopyForm(n) /\ s.stage = c.stage /\ s.pointer = c.pointer /\ s.logged = c.logged
         /\ Len(s.messages) = Len(c.messages)
         /\ \A j \in 1 .. Len(c.messages) : j # Len(c.messages) => s.messages[j] = c.messages[j]
         /\ s.messages[Len(c.messages)].id = c.messages[Len(c.messages)].id
         /\ CopyFits(s, lines) /\ Advances(Live(c, lines), Live(s, lines))
         /\ Len(Live(s, lines)) = Len(Live(c, lines))
<1> DEFINE p == c.messages
           q == s.messages
           last == Len(c.messages)
           x == [p[last] EXCEPT !.whole = TRUE]
<1>1. /\ p \in Seq(Uttered(n)) /\ last \in Nat /\ c.logged \in 0 .. last /\ Len(lines) \in Nat
      /\ c.logged \in Nat /\ last \in 1 .. Len(p) /\ Len(p) = last
  BY FitFacts
<1>2. p[last] \in Uttered(n)
  BY <1>1, IdsOfSaid
<1>3. x \in Uttered(n) /\ x.id = p[last].id /\ x.whole
  BY <1>2 DEF Uttered
<1>4. s = [c EXCEPT !.messages = [p EXCEPT ![last] = x]]
  BY <1>1 DEF CopyForm, WholeAtEnd
<1> HIDE DEF x
<1>5. [p EXCEPT ![last] = x] \in Seq(Uttered(n)) /\ Len([p EXCEPT ![last] = x]) = last
  <2> HIDE DEF last, p
  <2> QED
    BY <1>1, <1>3, ExceptSeq
<1>6. /\ s \in CopyForm(n) /\ s.stage = c.stage /\ s.pointer = c.pointer /\ s.logged = c.logged
      /\ q = [p EXCEPT ![last] = x]
  <2>1. \A y \in Seq(Uttered(n)) : LET e == [c EXCEPT !.messages = y]
                                   IN  /\ e \in CopyForm(n) /\ e.stage = c.stage /\ e.pointer = c.pointer
                                       /\ e.logged = c.logged /\ e.messages = y
    BY DEF CopyForm
  <2> HIDE DEF last, p
  <2> QED
    BY <1>4, <1>5, <2>1
<1>7. /\ q \in Seq(Uttered(n)) /\ Len(q) = last /\ DOMAIN p = 1 .. last
      /\ \A j \in 1 .. last : j # last => q[j] = p[j]
      /\ q[last] = x
  <2>1. DOMAIN p = 1 .. last
    BY <1>1, LenProperties
  <2> HIDE DEF last, p, q
  <2> QED
    BY <1>1, <1>5, <1>6, <2>1
<1>8. \A j \in 1 .. last : q[j].id = p[j].id /\ (p[j].whole => q[j].whole)
  <2> HIDE DEF last, p, q
  <2> QED
    BY <1>3, <1>7
<1> DEFINE k0 == Len(Counted(c.pointer, lines))
           u == Live(c, lines)
           t == Live(s, lines)
<1>9. /\ u \in Seq(Uttered(n)) /\ Len(u) \in Nat /\ k0 \in Nat /\ Len(u) = k0 + (last - c.logged)
      /\ \A i \in 1 .. k0 : u[i] = Counted(c.pointer, lines)[i]
      /\ \A j \in c.logged + 1 .. last : u[k0 + (j - c.logged)] = p[j]
  <2> DEFINE S == Uttered(n)
  <2>1. c.messages \in Seq(S) /\ c.logged \in 0 .. Len(c.messages) /\ lines \in Seq(S)
    BY FitFacts
  <2> HIDE DEF S
  <2>2. Live(c, lines) \in Seq(S) /\ Len(Counted(c.pointer, lines)) \in Nat
    BY ONLY <2>1, LiveFacts
  <2>3. Len(Live(c, lines)) = Len(Counted(c.pointer, lines)) + (Len(c.messages) - c.logged)
    BY ONLY <2>1, LiveFacts
  <2>4. \A i \in 1 .. Len(Counted(c.pointer, lines)) : Live(c, lines)[i] = Counted(c.pointer, lines)[i]
    BY ONLY <2>1, LiveFacts
  <2>5. \A j \in c.logged + 1 .. Len(c.messages) :
          Live(c, lines)[Len(Counted(c.pointer, lines)) + (j - c.logged)] = c.messages[j]
    BY ONLY <2>1, LiveFacts
  <2>6. Len(Live(c, lines)) \in Nat
    BY ONLY <2>2, LenProperties
  <2> QED
    BY ONLY <2>2, <2>3, <2>4, <2>5, <2>6 DEF p, u, k0, S, last
<1>10. /\ t \in Seq(Uttered(n)) /\ Len(t) \in Nat /\ Len(t) = k0 + (last - c.logged)
       /\ \A i \in 1 .. k0 : t[i] = Counted(c.pointer, lines)[i]
       /\ \A j \in c.logged + 1 .. last : t[k0 + (j - c.logged)] = q[j]
  <2> DEFINE S == Uttered(n)
  <2>1. s.messages \in Seq(S) /\ s.logged \in 0 .. Len(s.messages) /\ lines \in Seq(S)
    BY <1>1, <1>6, <1>7
  <2> HIDE DEF S
  <2>2. Live(s, lines) \in Seq(S) /\ Len(Counted(s.pointer, lines)) \in Nat
    BY ONLY <2>1, LiveFacts
  <2>3. Len(Live(s, lines)) = Len(Counted(s.pointer, lines)) + (Len(s.messages) - s.logged)
    BY ONLY <2>1, LiveFacts
  <2>4. \A i \in 1 .. Len(Counted(s.pointer, lines)) : Live(s, lines)[i] = Counted(s.pointer, lines)[i]
    BY ONLY <2>1, LiveFacts
  <2>5. \A j \in s.logged + 1 .. Len(s.messages) :
          Live(s, lines)[Len(Counted(s.pointer, lines)) + (j - s.logged)] = s.messages[j]
    BY ONLY <2>1, LiveFacts
  <2>6. Len(Live(s, lines)) \in Nat
    BY ONLY <2>2, LenProperties
  <2>7. s.logged = c.logged /\ s.pointer = c.pointer /\ Len(s.messages) = last
    BY <1>6, <1>7
  <2> QED
    BY ONLY <2>2, <2>3, <2>4, <2>5, <2>6, <2>7 DEF q, t, k0, S
<1> HIDE DEF p, q, k0, u, t, last
<1>11. PICK a \in Nat, b \in Nat : a = c.logged /\ b = last - c.logged /\ a + b = last
  <2>1. last - c.logged \in Nat /\ c.logged + (last - c.logged) = last
    BY <1>1
  <2> QED
    BY <1>1, <2>1
<1>12. ASSUME NEW k \in 1 .. Len(u) PROVE t[k].id = u[k].id /\ (u[k].whole => t[k].whole)
  <2>1. CASE k <= k0
    <3>1. k \in 1 .. k0
      BY <1>9, <2>1
    <3> QED
      BY <1>9, <1>10, <3>1
  <2>2. CASE ~(k <= k0)
    <3>1. k \in 1 .. k0 + b
      BY <1>9, <1>11
    <3>2. PICK i \in 1 .. b : i = k - k0 /\ k0 + i = k
      <4>1. \A i0 \in Nat : k \in 1 .. i0 + b /\ ~(k <= i0) => k - i0 \in 1 .. b /\ i0 + (k - i0) = k
        OBVIOUS
      <4> QED
        BY <1>9, <2>2, <3>1, <4>1
    <3>3. PICK j \in 1 .. last : j = a + i /\ j - a = i /\ j \in a + 1 .. last
      <4>1. \A y \in Nat : y = a + b => a + i \in 1 .. y /\ (a + i) - a = i /\ a + i \in a + 1 .. y
        OBVIOUS
      <4> QED
        BY <1>1, <1>11, <4>1
    <3>4. u[k] = p[j] /\ t[k] = q[j]
      <4>1. j \in c.logged + 1 .. last /\ k0 + (j - c.logged) = k
        BY <1>11, <3>2, <3>3
      <4> QED
        BY <1>9, <1>10, <4>1
    <3> QED
      BY <1>8, <3>3, <3>4
  <2> QED
    BY <2>1, <2>2
<1>13. Len(t) = Len(u) /\ Advances(u, t)
  BY <1>9, <1>10, <1>12 DEF Advances
<1>14. Ascending(t)
  <2>1. Ascending(u)
    BY DEF CopyFits, u
  <2>2. DOMAIN t = 1 .. Len(u) /\ DOMAIN u = 1 .. Len(u)
    BY <1>9, <1>10, <1>13, LenProperties
  <2> QED
    BY <1>12, <2>1, <2>2 DEF Ascending
<1>15. CopyFits(s, lines)
  <2>1. ASSUME c.pointer # NoPointer, NEW j \in 1 .. c.logged
        PROVE  q[j] = lines[(Len(lines) - c.logged) + j]
    <3>1. j \in 1 .. last /\ j # last
      BY <1>1 DEF last
    <3>2. q[j] = p[j]
      BY <1>7, <3>1
    <3>3. p[j] = lines[(Len(lines) - c.logged) + j]
      BY <2>1 DEF CopyFits, p
    <3> QED
      BY <3>2, <3>3
  <2>2. /\ s.logged = c.logged /\ s.pointer = c.pointer /\ Len(s.messages) = Len(c.messages)
        /\ s.logged \in 0 .. Len(s.messages)
    BY <1>1, <1>6, <1>7 DEF q, last
  <2>3. \A j \in 1 .. c.logged : c.pointer # NoPointer => s.messages[j] = lines[(Len(lines) - c.logged) + j]
    BY <2>1 DEF q
  <2> QED
    BY <1>14, <2>2, <2>3 DEF CopyFits, t
<1> QED
  BY <1>3, <1>6, <1>7, <1>13, <1>15 DEF p, q, last, u, t

\* A write of the owner begins, or none does.
BeginsOne ==
  \/ UNCHANGED <<write, chain>>
  \/ \E w \in LogWrites, through \in 0 .. said' :
       /\ Begin(LogOwner, w, through)
       /\ through = 0 => talk' = "none"
       /\ talk' = "streaming" => through < said'

\* Either way the writes under way are as they were, and none is at the log out of its turn.
LEMMA BeginsFacts ==
  ASSUME LogShape, OneHolder, OneAtATime, HoldsCopy(LogOwner), said' \in said .. MaxMessages, lock' = lock, BeginsOne
  PROVE  /\ write' \in [Holders -> [LogWrites -> WriteForm(said')]] /\ chain' \in [Holders -> Seq(LogWrites)]
         /\ \A g \in Holders : g # LogOwner => \A w \in LogWrites : write'[g][w] = write[g][w]
         /\ \A w \in LogWrites :
              \/ write'[LogOwner][w] = write[LogOwner][w]
              \/ /\ write[LogOwner][w].stage = "idle" /\ write'[LogOwner][w].stage = "waiting"
                 /\ write'[LogOwner][w].replaced = write[LogOwner][w].replaced
                 /\ write'[LogOwner][w].through = 0 => talk' = "none"
                 /\ talk' = "streaming" => write'[LogOwner][w].through < said'
         /\ OneAtATime'
<1> DEFINE h == LogOwner
<1>1. said \in Nat /\ said' \in Nat /\ said <= said' /\ h \in Holders
  BY BoundsAssumption, OwnerAssumption DEF LogShape
<1>2. /\ write \in [Holders -> [LogWrites -> WriteForm(said')]] /\ chain \in [Holders -> Seq(LogWrites)]
      /\ NoWrite \in WriteForm(said') /\ NoWrite.replaced = FALSE /\ NoWrite.stage = "idle"
  <2>1. WriteForm(said) \subseteq WriteForm(said')
    BY <1>1, MoreSaid
  <2>2. write \in [Holders -> [LogWrites -> WriteForm(said)]] /\ chain \in [Holders -> Seq(LogWrites)]
    BY DEF LogShape
  <2>3. write \in [Holders -> [LogWrites -> WriteForm(said')]]
    BY <2>1, <2>2
  <2> QED
    BY <1>1, <2>2, <2>3, Empties
<1>3. CASE UNCHANGED <<write, chain>>
  <2>1. OneAtATime'
    BY <1>3 DEF OneAtATime, FirstInChain
  <2> QED
    BY <1>2, <1>3, <2>1
<1>4. CASE ~UNCHANGED <<write, chain>>
  <2>1. PICK w \in LogWrites, through \in 0 .. said' :
          /\ Begin(h, w, through)
          /\ through = 0 => talk' = "none"
          /\ talk' = "streaming" => through < said'
    BY <1>4 DEF BeginsOne
  <2>2. PICK q : q = [NoWrite EXCEPT !.stage = "waiting", !.through = through]
    OBVIOUS
  <2>3. q \in WriteForm(said') /\ q.stage = "waiting" /\ q.replaced = FALSE /\ q.through = through
    BY <1>2, <2>2 DEF WriteForm
  <2>4. /\ write[h][w].stage = "idle" /\ write' = [write EXCEPT ![h][w] = q]
        /\ chain' = [chain EXCEPT ![h] = Append(@, w)]
    BY <2>1, <2>2 DEF Begin
  <2>5. write[h][w].replaced = FALSE
    BY <1>1, <1>2, <2>4 DEF OneAtATime
  <2>6. /\ write' \in [Holders -> [LogWrites -> WriteForm(said')]]
        /\ write'[h][w] = q
        /\ \A g \in Holders, v \in LogWrites : g # h \/ v # w => write'[g][v] = write[g][v]
    BY <1>1, <1>2, <2>3, <2>4, OneChanged
  <2>7. chain' \in [Holders -> Seq(LogWrites)] /\ chain'[h] = Append(chain[h], w)
    <3>1. Append(chain[h], w) \in Seq(LogWrites)
      BY <1>1, <1>2, LastInChain
    <3> QED
      BY <1>1, <1>2, <2>4, <3>1
  <2>8. \A v \in LogWrites : write[h][v].stage \in Appending => FirstInChain(h, v)'
    <3> SUFFICES ASSUME NEW v \in LogWrites, write[h][v].stage \in Appending PROVE FirstInChain(h, v)'
      OBVIOUS
    <3>1. chain[h] # <<>> /\ Head(chain[h]) = v
      BY <1>1 DEF OneAtATime, FirstInChain
    <3> QED
      BY <1>1, <1>2, <2>7, <3>1, LastInChain DEF FirstInChain
  <2>9. OneAtATime'
    <3>1. q.stage \notin {"idle", "serialized"} /\ q.stage \notin Appending
      BY <2>3 DEF Appending
    <3> QED
      BY <1>1, <2>6, <2>8, <3>1, TurnsKept
  <2>10. \A v \in LogWrites :
              \/ write'[h][v] = write[h][v]
              \/ /\ write[h][v].stage = "idle" /\ write'[h][v].stage = "waiting"
                 /\ write'[h][v].replaced = write[h][v].replaced
                 /\ write'[h][v].through = 0 => talk' = "none"
                 /\ talk' = "streaming" => write'[h][v].through < said'
    <3> SUFFICES ASSUME NEW v \in LogWrites
                 PROVE  \/ write'[h][v] = write[h][v]
                        \/ /\ write[h][v].stage = "idle" /\ write'[h][v].stage = "waiting"
                           /\ write'[h][v].replaced = write[h][v].replaced
                           /\ write'[h][v].through = 0 => talk' = "none"
                           /\ talk' = "streaming" => write'[h][v].through < said'
      OBVIOUS
    <3>1. CASE v # w
      BY <1>1, <2>6, <3>1
    <3>2. CASE v = w
      BY <2>1, <2>3, <2>4, <2>5, <2>6, <3>2
    <3> QED
      BY <3>1, <3>2
  <2> QED
    BY <2>6, <2>7, <2>9, <2>10
<1> QED
  BY <1>3, <1>4

\* The conversation goes on, and a write of it may begin.
LEMMA SaysStands ==
  ASSUME LogStands, HoldsCopy(LogOwner), UNCHANGED <<log, record, lock, written>>,
         said' \in said .. MaxMessages, talk' \in {"none", "prompted", "streaming"},
         NEW d \in CopyForm(said'), d.stage = "open", copyOf' = [copyOf EXCEPT ![LogOwner] = d],
         d.pointer = copyOf[LogOwner].pointer,
         CopyFits(d, log), Grows(copyOf[LogOwner], log, d, log, said),
         \A slice \in Seq(Uttered(said)) :
           SliceFits(copyOf[LogOwner], slice, talk = "streaming") => SliceFits(d, slice, talk' = "streaming"),
         \A n \in 1 .. said : (talk = "streaming" => n < said) /\ NeverWhole(copyOf[LogOwner].messages, n)
                                => NeverWhole(d.messages, n),
         talk' = "streaming" => said' > said /\ d.logged < Len(d.messages) /\ d.messages[Len(d.messages)].id = said',
         talk' # "none" => talk # "none" \/ Quiet(LogOwner),
         BeginsOne
  PROVE  LogStands'
<1> USE DEF LogStands, Orderly
<1> DEFINE h == LogOwner
           c == copyOf[LogOwner]
<1>1. /\ said \in Nat /\ said' \in Nat /\ h \in Holders /\ LogShape /\ OneHolder /\ OneAtATime
      /\ copyOf \in [Holders -> CopyForm(said)] /\ log \in Seq(Uttered(said))
  BY BoundsAssumption, OwnerAssumption DEF LogShape
<1>2. /\ write' \in [Holders -> [LogWrites -> WriteForm(said')]] /\ chain' \in [Holders -> Seq(LogWrites)]
      /\ \A g \in Holders : g # h => \A w \in LogWrites : write'[g][w] = write[g][w]
      /\ OneAtATime'
  BY <1>1, BeginsFacts
<1>3. \A w \in LogWrites :
              \/ write'[h][w] = write[h][w]
              \/ /\ write[h][w].stage = "idle" /\ write'[h][w].stage = "waiting"
                 /\ write'[h][w].replaced = write[h][w].replaced
                 /\ write'[h][w].through = 0 => talk' = "none"
                 /\ talk' = "streaming" => write'[h][w].through < said'
  BY <1>1, BeginsFacts
<1>4. copyOf'[h] = d /\ \A g \in Holders : g # h => copyOf'[g] = copyOf[g]
  BY <1>1
<1>5. \A g \in Holders, w \in LogWrites : write[g][w] \in WriteForm(said)
  BY DEF LogShape
<1>6. \A w \in LogWrites : /\ Serialized(h, w)' <=> Serialized(h, w)
                           /\ write'[h][w].image = write[h][w].image \/ ~Serialized(h, w)
                           /\ write'[h][w].replaced = write[h][w].replaced
  <2> SUFFICES ASSUME NEW w \in LogWrites
               PROVE  /\ Serialized(h, w)' <=> Serialized(h, w)
                      /\ write'[h][w].image = write[h][w].image \/ ~Serialized(h, w)
                      /\ write'[h][w].replaced = write[h][w].replaced
    OBVIOUS
  <2>1. CASE write'[h][w] = write[h][w]
    BY <2>1 DEF Serialized
  <2>2. CASE write'[h][w] # write[h][w]
    BY <1>3, <2>2 DEF Serialized
  <2> QED
    BY <2>1, <2>2
<1>7. StreamsLast'
  BY <1>4 DEF StreamsLast, HoldsCopy
<1>8. WritesFit'
  <2>1. ASSUME NEW g \in Holders, NEW v \in LogWrites, NEW y, y = write'[g][v] PROVE Fits(g, y)'
    <3>1. CASE g # h
      <4>1. y = NoWrite /\ NoWrite.stage = "idle"
        BY <1>1, <1>2, <2>1, <3>1, OtherHolders, Empties
      <4> QED
        BY <4>1 DEF Fits, Appending
    <3>2. CASE g = h /\ y = write[h][v]
      <4>1. Fits(h, y) /\ y \in WriteForm(said)
        BY <1>1, <1>5, <3>2 DEF WritesFit
      <4>2. y.through \in 0 .. said
        BY <1>1, <4>1, Fields
      <4>3. ASSUME y.stage \in Appending \cup {"waiting"}
            PROVE  /\ y.through = 0 => talk' = "none"
                   /\ talk' = "streaming" => y.through < said'
        <5>1. ~Quiet(LogOwner)
          BY <3>2, <4>3 DEF Quiet, Appending
        <5>2. y.through = 0 => talk' = "none"
          BY <4>1, <4>3, <5>1 DEF Fits
        <5>3. talk' = "streaming" => y.through < said'
          <6>1. \A a \in 0 .. said : said' > said => a < said'
            BY <1>1
          <6> QED
            BY <4>2, <6>1
        <5> QED
          BY <5>2, <5>3
      <4>4. y.stage \in {"prepared", "truncated"} /\ d.pointer = NoPointer => log' = <<>>
        BY <3>2, <4>1 DEF Fits
      <4>5. y.stage = "truncated" => SliceFits(d, y.slice, h = LogOwner /\ talk' = "streaming")
        <5>1. y.stage = "truncated" => SliceFits(c, y.slice, h = LogOwner /\ talk = "streaming")
          BY <4>1 DEF Fits
        <5>2. (h = LogOwner /\ talk = "streaming") = (talk = "streaming")
          OBVIOUS
        <5>3. (h = LogOwner /\ talk' = "streaming") = (talk' = "streaming")
          OBVIOUS
        <5>4. y.slice \in Seq(Uttered(said))
          BY <1>1, <4>1, Fields
        <5> QED
          BY <5>1, <5>2, <5>3, <5>4
      <4> QED
        BY <1>4, <3>2, <4>1, <4>3, <4>4, <4>5 DEF Fits
    <3>3. CASE g = h /\ y # write[h][v]
      <4>1. /\ y.stage = "waiting" /\ y.through = 0 => talk' = "none"
            /\ y.stage = "waiting" /\ talk' = "streaming" => y.through < said'
            /\ y.stage = "waiting"
        BY <1>3, <2>1, <3>3
      <4> QED
        BY <4>1 DEF Fits, Appending
    <3> QED
      BY <3>1, <3>2, <3>3
  <2> QED
    BY <2>1 DEF WritesFit, Fits
<1>9. PartsStayParts'
  <2>1. \A g \in Holders : \A v \in LogWrites :
          Serialized(g, v)' => Serialized(g, v) /\ write'[g][v].image = write[g][v].image
    BY <1>2, <1>6 DEF Serialized
  <2>2. ASSUME NEW i \in DOMAIN log', NEW n, n = log'[i].id, ~log'[i].whole
        PROVE  /\ NowhereWhole(n)
               /\ talk' = "streaming" => n < said'
               /\ \A g \in Holders : NeverWhole(copyOf[g].messages, n) => NeverWhole(copyOf'[g].messages, n)
    <3>1. StaysPart(n)
      BY <2>2 DEF PartsStayParts
    <3>2. n \in 1 .. said
      <4>1. i \in 1 .. Len(log)
        BY <1>1, <2>2, UtteredFacts
      <4> QED
        BY <1>1, <2>2, <4>1, IdsOfSaid
    <3>3. talk = "streaming" => n < said
      BY <3>1 DEF StaysPart
    <3>4. \A g \in Holders : NeverWhole(copyOf[g].messages, n) => NeverWhole(copyOf'[g].messages, n)
      BY <1>4, <3>2, <3>3
    <3>5. talk' = "streaming" => n < said'
      <4>1. \A a \in 1 .. said : said' > said => a < said'
        BY <1>1
      <4> QED
        BY <3>2, <4>1
    <3> QED
      BY <3>1, <3>4, <3>5 DEF StaysPart
  <2> QED
    BY <2>1, <2>2, PartsStay
<1>10. log' \in Seq(Uttered(said'))
  <2>1. said <= said'
    BY <1>1
  <2> QED
    BY <1>1, <2>1, MoreSaid
<1>11. CopyFits(d, log') /\ Grows(copyOf[h], log, d, log', said)
  OBVIOUS
<1> HIDE DEF c
<1> QED
  BY <1>1, <1>2, <1>6, <1>7, <1>8, <1>9, <1>10, <1>11, StepStands

\* What a new entry leaves as it was.
LEMMA PushLeaves ==
  ASSUME NEW n \in Nat, NEW m \in Nat, m = n + 1,
         NEW c \in CopyForm(n), NEW lines \in Seq(Uttered(n)), CopyFits(c, lines), RoomIn(c),
         NEW e \in Uttered(m), e.id = m, NEW d, d = Pushed(c, e)
  PROVE  /\ \A slice \in Seq(Uttered(n)) : SliceFits(c, slice, FALSE) => SliceFits(d, slice, TRUE)
         /\ \A k \in 1 .. n : NeverWhole(c.messages, k) => NeverWhole(d.messages, k)
<1> DEFINE p == c.messages
           q == d.messages
<1>1. /\ d \in CopyForm(m)
      /\ d.logged < Len(q) /\ q[Len(q)] = e
      /\ Len(q) - d.logged = (Len(p) - c.logged) + 1
      /\ \A j \in 1 .. Len(p) - c.logged : q[d.logged + j] = p[c.logged + j]
      /\ \A j \in 1 .. Len(q) : q[j] = e \/ \E i \in 1 .. Len(p) : q[j] = p[i]
  BY Pushing
<1>2. p \in Seq(Uttered(n)) /\ c.logged \in Nat /\ q \in Seq(Uttered(m)) /\ d.logged \in Nat
  BY <1>1, Fields
<1>3. Len(p) \in Nat /\ DOMAIN p = 1 .. Len(p) /\ Len(q) \in Nat /\ DOMAIN q = 1 .. Len(q)
  BY <1>2, LenProperties
<1> HIDE DEF p, q
<1>4. ASSUME NEW slice \in Seq(Uttered(n)), SliceFits(c, slice, FALSE) PROVE SliceFits(d, slice, TRUE)
  <2>1. Len(slice) \in Nat
    BY LenProperties
  <2>2. c.logged + Len(slice) <= Len(p) /\ \A j \in 1 .. Len(slice) : slice[j] = p[c.logged + j]
    BY <1>4 DEF SliceFits, p
  <2>3. \A x, y, a, b, k \in Nat : x - y = (a - b) + 1 /\ b + k <= a => y + k < x /\ y + k <= x /\ \A j \in 1 .. k : j \in 1 .. a - b
    OBVIOUS
  <2>4. /\ d.logged + Len(slice) < Len(q) /\ d.logged + Len(slice) <= Len(q)
        /\ \A j \in 1 .. Len(slice) : j \in 1 .. Len(p) - c.logged
    BY <1>1, <1>2, <1>3, <2>1, <2>2, <2>3
  <2>5. \A j \in 1 .. Len(slice) : slice[j] = q[d.logged + j]
    BY <1>1, <2>2, <2>4
  <2> QED
    BY <2>4, <2>5 DEF SliceFits, q
<1>5. ASSUME NEW k \in 1 .. n, NeverWhole(p, k) PROVE NeverWhole(q, k)
  <2>1. ASSUME NEW j \in DOMAIN q, q[j].id = k PROVE ~q[j].whole
    <3>1. q[j] # e
      BY <2>1
    <3>2. PICK i \in 1 .. Len(p) : q[j] = p[i]
      BY <1>1, <1>3, <3>1
    <3> QED
      BY <1>3, <1>5, <2>1, <3>2 DEF NeverWhole
  <2> QED
    BY <2>1 DEF NeverWhole
<1> QED
  BY <1>4, <1>5 DEF p, q

\* The owner's copy when its streaming entry, if it has one, is whole.
LEMMA SettledFacts ==
  ASSUME LogStands, HoldsCopy(LogOwner), NEW c, c = copyOf[LogOwner], NEW s, s = Settled
  PROVE  /\ s \in CopyForm(said) /\ s.stage = "open" /\ s.pointer = c.pointer /\ s.logged = c.logged
         /\ Len(s.messages) = Len(c.messages) /\ CopyFits(s, log)
         /\ Advances(Live(c, log), Live(s, log)) /\ Len(Live(s, log)) = Len(Live(c, log))
         /\ \A slice \in Seq(Uttered(said)) : SliceFits(c, slice, talk = "streaming") => SliceFits(s, slice, FALSE)
         /\ \A n \in 1 .. said : (talk = "streaming" => n < said) /\ NeverWhole(c.messages, n) => NeverWhole(s.messages, n)
<1> USE DEF LogStands, Orderly
<1>1. /\ said \in Nat /\ LogOwner \in Holders /\ c \in CopyForm(said) /\ log \in Seq(Uttered(said))
      /\ CopyFits(c, log) /\ c.stage = "open"
  BY BoundsAssumption, OwnerAssumption DEF LogShape, CopiesFit, HoldsCopy
<1>2. /\ c.messages \in Seq(Uttered(said)) /\ Len(c.messages) \in Nat /\ c.logged \in Nat
      /\ DOMAIN c.messages = 1 .. Len(c.messages)
      /\ Len(Live(c, log)) \in Nat
  BY <1>1, FitFacts, Fields, LenProperties
<1>3. CASE talk # "streaming"
  <2>1. s = c
    BY <1>3 DEF Settled
  <2>2. Advances(Live(c, log), Live(c, log))
    BY <1>2 DEF Advances
  <2> QED
    BY <1>1, <1>3, <2>1, <2>2 DEF SliceFits
<1>4. CASE talk = "streaming"
  <2>1. s = WholeAtEnd(c)
    BY <1>4 DEF Settled, WholeAtEnd
  <2>2. c.logged < Len(c.messages) /\ c.messages[Len(c.messages)].id = said
    BY <1>4 DEF StreamsLast
  <2>7. /\ s \in CopyForm(said) /\ s.stage = c.stage /\ s.pointer = c.pointer /\ s.logged = c.logged
        /\ Len(s.messages) = Len(c.messages)
        /\ CopyFits(s, log) /\ Advances(Live(c, log), Live(s, log))
    BY ONLY <1>1, <2>1, <2>2, Settling
  <2>8. /\ \A j \in 1 .. Len(c.messages) : j # Len(c.messages) => s.messages[j] = c.messages[j]
        /\ s.messages[Len(c.messages)].id = c.messages[Len(c.messages)].id
        /\ Len(Live(s, log)) = Len(Live(c, log))
    BY ONLY <1>1, <2>1, <2>2, Settling
  <2>3. /\ s \in CopyForm(said) /\ s.stage = c.stage /\ s.pointer = c.pointer /\ s.logged = c.logged
        /\ Len(s.messages) = Len(c.messages)
        /\ \A j \in 1 .. Len(c.messages) : j # Len(c.messages) => s.messages[j] = c.messages[j]
        /\ s.messages[Len(c.messages)].id = c.messages[Len(c.messages)].id
        /\ CopyFits(s, log) /\ Advances(Live(c, log), Live(s, log))
        /\ Len(Live(s, log)) = Len(Live(c, log))
    BY <2>7, <2>8
  <2>4. ASSUME NEW slice \in Seq(Uttered(said)), SliceFits(c, slice, TRUE) PROVE SliceFits(s, slice, FALSE)
    <3>1. Len(slice) \in Nat
      BY LenProperties
    <3>2. /\ c.logged + Len(slice) < Len(c.messages) /\ c.logged + Len(slice) <= Len(c.messages)
          /\ \A j \in 1 .. Len(slice) : slice[j] = c.messages[c.logged + j]
      BY <2>4 DEF SliceFits
    <3>3. \A a, b, k \in Nat : a + k < b => \A j \in 1 .. k : a + j \in 1 .. b /\ a + j # b
      OBVIOUS
    <3>4. \A j \in 1 .. Len(slice) : c.logged + j \in 1 .. Len(c.messages) /\ c.logged + j # Len(c.messages)
      BY <1>2, <3>1, <3>2, <3>3
    <3>5. \A j \in 1 .. Len(slice) : slice[j] = s.messages[s.logged + j]
      BY <2>3, <3>2, <3>4
    <3> QED
      BY <2>3, <3>2, <3>5 DEF SliceFits
  <2>5. ASSUME NEW n \in 1 .. said, n < said, NeverWhole(c.messages, n) PROVE NeverWhole(s.messages, n)
    <3>1. DOMAIN s.messages = 1 .. Len(c.messages)
      <4>1. s.messages \in Seq(Uttered(said))
        BY <1>1, <2>3, Fields
      <4> QED
        BY <2>3, <4>1, LenProperties
    <3>2. ASSUME NEW j \in 1 .. Len(c.messages), s.messages[j].id = n PROVE ~s.messages[j].whole
      <4>1. j # Len(c.messages)
        BY <1>1, <2>2, <2>3, <2>5, <3>2
      <4> QED
        BY <1>2, <2>3, <2>5, <3>2, <4>1 DEF NeverWhole
    <3> QED
      BY <3>1, <3>2 DEF NeverWhole
  <2>6. (talk = "streaming") = TRUE
    BY <1>4
  <2> QED
    BY <1>1, <1>4, <2>3, <2>4, <2>5, <2>6
<1> QED
  BY <1>3, <1>4

\* One thing that is said: the owner has it, and its window moves on.
LEMMA SaysOne ==
  ASSUME LogStands, HoldsCopy(LogOwner), RoomToSay, UNCHANGED <<log, record, lock, written>>,
         said' = said + 1, NEW e \in Uttered(said + 1), e.id = said + 1,
         copyOf' = [copyOf EXCEPT ![LogOwner] = Pushed(Settled, e)],
         talk' \in {"none", "prompted", "streaming"},
         talk' # "none" => talk # "none" \/ Quiet(LogOwner),
         BeginsOne
  PROVE  LogStands'
<1> DEFINE c == copyOf[LogOwner]
<1>1. /\ said \in Nat /\ said + 1 \in Nat /\ LogOwner \in Holders /\ c \in CopyForm(said)
      /\ log \in Seq(Uttered(said)) /\ CopyFits(c, log)
  BY BoundsAssumption, OwnerAssumption DEF LogStands, Orderly, LogShape, CopiesFit
<1>2. PICK s : s = Settled
  OBVIOUS
<1>3. /\ s \in CopyForm(said) /\ s.stage = "open" /\ s.pointer = c.pointer /\ s.logged = c.logged
      /\ Len(s.messages) = Len(c.messages) /\ CopyFits(s, log)
      /\ Advances(Live(c, log), Live(s, log)) /\ Len(Live(s, log)) = Len(Live(c, log))
  BY <1>2, SettledFacts
<1>4. /\ \A slice \in Seq(Uttered(said)) : SliceFits(c, slice, talk = "streaming") => SliceFits(s, slice, FALSE)
      /\ \A n \in 1 .. said : (talk = "streaming" => n < said) /\ NeverWhole(c.messages, n) => NeverWhole(s.messages, n)
  BY <1>2, SettledFacts
<1>5. RoomIn(s)
  BY <1>3 DEF RoomToSay, RoomIn
<1>6. PICK d : d = Pushed(s, e)
  OBVIOUS
<1>7. PICK m \in Nat : m = said + 1
  BY <1>1
<1>8. /\ d \in CopyForm(m) /\ d.stage = s.stage /\ d.pointer = s.pointer
      /\ CopyFits(d, log) /\ Advances(Live(s, log), Live(d, log))
      /\ \A k \in Len(Live(s, log)) + 1 .. Len(Live(d, log)) : Live(d, log)[k].id > said
      /\ d.logged < Len(d.messages) /\ d.messages[Len(d.messages)] = e
  <2>1. e \in Uttered(m) /\ e.id = m
    BY <1>7
  <2> QED
    BY <1>1, <1>3, <1>5, <1>6, <1>7, <2>1, Pushing
<1>9. /\ \A slice \in Seq(Uttered(said)) : SliceFits(s, slice, FALSE) => SliceFits(d, slice, TRUE)
      /\ \A k \in 1 .. said : NeverWhole(s.messages, k) => NeverWhole(d.messages, k)
  <2>1. e \in Uttered(m) /\ e.id = m
    BY <1>7
  <2> QED
    BY ONLY <1>1, <1>3, <1>5, <1>6, <1>7, <2>1, m \in Nat, PushLeaves
<1>10. Grows(c, log, d, log, said)
  <2>1. Len(log) \in Nat /\ Len(Live(c, log)) \in Nat /\ Len(Live(s, log)) \in Nat /\ Len(Live(d, log)) \in Nat
    <3>1. log \in Seq(Uttered(m)) /\ c \in CopyForm(m) /\ s \in CopyForm(m)
      BY <1>1, <1>3, <1>7, MoreSaid
    <3> HIDE DEF c
    <3> QED
      BY <1>1, <1>3, <1>7, <1>8, <3>1, FitFacts DEF c
  <2>2. Advances(Live(c, log), Live(d, log))
    <3>1. Len(Live(c, log)) <= Len(Live(d, log))
      BY <1>3, <1>8, <2>1 DEF Advances
    <3>2. \A k \in 1 .. Len(Live(c, log)) : k \in 1 .. Len(Live(s, log))
      BY <1>3
    <3> QED
      BY <1>3, <1>8, <3>1, <3>2 DEF Advances
  <2>3. \A k \in Len(Live(c, log)) + 1 .. Len(Live(d, log)) : Live(d, log)[k].id > said
    BY <1>3, <1>8
  <2>4. d.pointer = c.pointer
    BY <1>3, <1>8
  <2> QED
    BY <2>1, <2>2, <2>3, <2>4 DEF Grows
<1>11. \A slice \in Seq(Uttered(said)) : SliceFits(c, slice, talk = "streaming") => SliceFits(d, slice, talk' = "streaming")
  <2>1. \A slice : SliceFits(d, slice, TRUE) => SliceFits(d, slice, talk' = "streaming")
    BY DEF SliceFits
  <2> QED
    BY <1>4, <1>9, <2>1
<1>12. \A n \in 1 .. said : (talk = "streaming" => n < said) /\ NeverWhole(c.messages, n) => NeverWhole(d.messages, n)
  BY <1>4, <1>9
<1>13. said' \in said .. MaxMessages /\ said' > said
  BY <1>1, BoundsAssumption DEF RoomToSay
<1>14. d \in CopyForm(said') /\ d.stage = "open" /\ copyOf' = [copyOf EXCEPT ![LogOwner] = d] /\ d.pointer = c.pointer
  BY <1>2, <1>3, <1>6, <1>7, <1>8
<1>15. talk' = "streaming" => said' > said /\ d.logged < Len(d.messages) /\ d.messages[Len(d.messages)].id = said'
  BY <1>8, <1>13
<1> QED
  BY <1>8, <1>10, <1>11, <1>12, <1>13, <1>14, <1>15, SaysStands

\* An entry of the conversation, whole or a part.
LEMMA NewEntries ==
  ASSUME NEW n \in Nat
  PROVE  /\ Whole(n + 1) \in Uttered(n + 1) /\ Whole(n + 1).id = n + 1
         /\ Partial(n + 1) \in Uttered(n + 1) /\ Partial(n + 1).id = n + 1
BY DEF Whole, Partial, Uttered

\* Output opens an entry.
LEMMA StreamStands ==
  ASSUME LogStands, Stream
  PROVE  LogStands'
<1>1. said \in Nat /\ talk = "prompted" /\ RoomToSay /\ HoldsCopy(LogOwner)
  BY BoundsAssumption DEF Stream, LogStands, Orderly, LogShape, StreamsLast
<1>2. Settled = copyOf[LogOwner]
  BY <1>1 DEF Settled
<1>3. copyOf' = [copyOf EXCEPT ![LogOwner] = Pushed(Settled, Partial(said + 1))]
  <2>1. copyOf' = [copyOf EXCEPT ![LogOwner] = Pushed(@, Partial(said + 1))]
    BY DEF Stream
  <2>2. copyOf' = [copyOf EXCEPT ![LogOwner] = Pushed(copyOf[LogOwner], Partial(said + 1))]
    BY <2>1, OwnerAssumption DEF LogStands, Orderly, LogShape
  <2> QED
    BY <1>2, <2>2
<1>4. /\ UNCHANGED <<log, record, lock, written>> /\ said' = said + 1 /\ talk' = "streaming"
      /\ UNCHANGED <<write, chain>>
  BY DEF Stream
<1>5. BeginsOne
  BY <1>4 DEF BeginsOne
<1>6. PICK e \in Uttered(said + 1) : e = Partial(said + 1) /\ e.id = said + 1
  BY <1>1, NewEntries
<1> QED
  BY <1>1, <1>3, <1>4, <1>5, <1>6, SaysOne

\* A whole entry arrives outside a turn.
LEMMA PushStands ==
  ASSUME LogStands, Push
  PROVE  LogStands'
<1>1. said \in Nat /\ talk = "none" /\ RoomToSay /\ HoldsCopy(LogOwner)
  BY BoundsAssumption DEF Push, LogStands, Orderly, LogShape
<1>2. Settled = copyOf[LogOwner]
  BY <1>1 DEF Settled
<1>3. copyOf' = [copyOf EXCEPT ![LogOwner] = Pushed(Settled, Whole(said + 1))]
  <2>1. copyOf' = [copyOf EXCEPT ![LogOwner] = Pushed(@, Whole(said + 1))]
    BY DEF Push
  <2>2. copyOf' = [copyOf EXCEPT ![LogOwner] = Pushed(copyOf[LogOwner], Whole(said + 1))]
    BY <2>1, OwnerAssumption DEF LogStands, Orderly, LogShape
  <2> QED
    BY <1>2, <2>2
<1>4. /\ UNCHANGED <<log, record, lock, written>> /\ said' = said + 1 /\ talk' = "none"
      /\ UNCHANGED <<write, chain>>
  BY <1>1 DEF Push
<1>5. BeginsOne
  BY <1>4 DEF BeginsOne
<1>6. PICK e \in Uttered(said + 1) : e = Whole(said + 1) /\ e.id = said + 1
  BY <1>1, NewEntries
<1> QED
  BY <1>1, <1>3, <1>4, <1>5, <1>6, SaysOne

\* A prompt is recorded: the entry before it is whole.
LEMMA PromptStartsStands ==
  ASSUME LogStands, NEW w \in LogWrites, PromptStarts(w)
  PROVE  LogStands'
<1>1. said \in Nat /\ RoomToSay /\ HoldsCopy(LogOwner) /\ (talk # "none" \/ Quiet(LogOwner))
  BY BoundsAssumption DEF PromptStarts, LogStands, Orderly, LogShape
<1>2. copyOf' = [copyOf EXCEPT ![LogOwner] = Pushed(Settled, Whole(said + 1))]
  BY DEF PromptStarts
<1>3. /\ UNCHANGED <<log, record, lock, written>> /\ said' = said + 1 /\ talk' = "prompted"
      /\ Begin(LogOwner, w, said + 1)
  BY DEF PromptStarts
<1>4. BeginsOne
  <2>1. PICK through \in 0 .. said' : through = said + 1 /\ through # 0
    BY <1>1, <1>3
  <2>2. Begin(LogOwner, w, through)
    BY <1>3, <2>1
  <2> QED
    BY <1>3, <2>1, <2>2 DEF BeginsOne
<1>5. PICK e \in Uttered(said + 1) : e = Whole(said + 1) /\ e.id = said + 1
  BY <1>1, NewEntries
<1> QED
  BY <1>1, <1>2, <1>3, <1>4, <1>5, SaysOne

\* A turn ends: its last entry is whole, and everything is written.
LEMMA EndTurnStands ==
  ASSUME LogStands, NEW w \in LogWrites, EndTurn(w)
  PROVE  LogStands'
<1> DEFINE c == copyOf[LogOwner]
<1>1. /\ said \in Nat /\ HoldsCopy(LogOwner) /\ LogOwner \in Holders /\ c \in CopyForm(said)
      /\ log \in Seq(Uttered(said)) /\ CopyFits(c, log) /\ said \in said .. MaxMessages
  BY BoundsAssumption, OwnerAssumption DEF EndTurn, LogStands, Orderly, LogShape, StreamsLast, CopiesFit
<1>2. PICK s : s = Settled
  OBVIOUS
<1>3. /\ s \in CopyForm(said) /\ s.stage = "open" /\ s.pointer = c.pointer /\ s.logged = c.logged
      /\ Len(s.messages) = Len(c.messages) /\ CopyFits(s, log)
      /\ Advances(Live(c, log), Live(s, log)) /\ Len(Live(s, log)) = Len(Live(c, log))
  BY <1>1, <1>2, SettledFacts
<1>4. /\ \A slice \in Seq(Uttered(said)) : SliceFits(c, slice, talk = "streaming") => SliceFits(s, slice, FALSE)
      /\ \A n \in 1 .. said : (talk = "streaming" => n < said) /\ NeverWhole(c.messages, n) => NeverWhole(s.messages, n)
  BY <1>1, <1>2, SettledFacts
<1>5. /\ UNCHANGED <<log, record, lock, written, said>> /\ talk' = "none"
      /\ copyOf' = [copyOf EXCEPT ![LogOwner] = s] /\ Begin(LogOwner, w, 0)
  BY <1>2 DEF EndTurn
<1>6. BeginsOne
  <2>1. PICK through \in 0 .. said' : through = 0
    BY <1>1, <1>5
  <2> QED
    BY <1>5, <2>1 DEF BeginsOne
<1>7. Grows(c, log, s, log, said)
  <2>1. Len(log) \in Nat /\ Len(Live(c, log)) \in Nat
    <3> HIDE DEF c
    <3> QED
      BY <1>1, FitFacts
  <2>2. Len(Live(c, log)) + 1 .. Len(Live(s, log)) = {}
    BY <1>3, <2>1
  <2> QED
    BY <1>3, <2>1, <2>2 DEF Grows
<1>8. \A slice \in Seq(Uttered(said)) : SliceFits(c, slice, talk = "streaming") => SliceFits(s, slice, talk' = "streaming")
  <2>1. \A slice : SliceFits(s, slice, FALSE) => SliceFits(s, slice, talk' = "streaming")
    BY <1>5 DEF SliceFits
  <2> QED
    BY <1>4, <2>1
<1> QED
  BY <1>1, <1>3, <1>4, <1>5, <1>6, <1>7, <1>8, SaysStands

(***************************************************************************)
(* Reading.                                                                *)
(***************************************************************************)

\* The history of a record that speaks of a conversation is an earlier state of it.
LEMMA RecordBehind ==
  ASSUME NEW n \in Nat, NEW c \in CopyForm(n), NEW lines \in Seq(Uttered(n)), CopyFits(c, lines),
         NEW rec \in Image(n), rec.pointer # NoPointer => c.pointer # NoPointer, Under(rec, c, lines)
  PROVE  /\ rec.pointer # NoPointer => Upto(rec.pointer) <= Len(lines)
         /\ History(rec, lines) \in Seq(Uttered(n)) /\ Advances(History(rec, lines), Live(c, lines))
         /\ Resumes(rec, lines)
<1> DEFINE S == Uttered(n)
           t == Live(c, lines)
<1>1. /\ c.messages \in Seq(S) /\ c.logged \in 0 .. Len(c.messages) /\ t \in Seq(S) /\ lines \in Seq(S)
      /\ rec.pointer \in Nat /\ rec.tail \in Seq(S) /\ Len(rec.tail) \in Nat /\ Len(c.messages) \in Nat
      /\ Len(lines) \in Nat /\ Upto(rec.pointer) \in Nat
  <2>1. Upto(rec.pointer) \in Nat
    BY Fields DEF Upto, NoPointer
  <2> QED
    BY <2>1, FitFacts, Fields
<1>2. \A x \in S : x.id \in Nat \ {0}
  BY UtteredFacts
<1>3. Ascending(t)
  BY DEF CopyFits
<1> HIDE DEF S
<1>4. /\ Len(Counted(c.pointer, lines)) \in Nat /\ Len(Counted(c.pointer, lines)) <= Len(t)
      /\ \A i \in 1 .. Len(Counted(c.pointer, lines)) : t[i] = Counted(c.pointer, lines)[i]
  <2>1. /\ Len(Counted(c.pointer, lines)) \in Nat
        /\ Len(t) = Len(Counted(c.pointer, lines)) + (Len(c.messages) - c.logged)
        /\ \A i \in 1 .. Len(Counted(c.pointer, lines)) : t[i] = Counted(c.pointer, lines)[i]
    BY <1>1, LiveFacts
  <2> QED
    BY <1>1, <2>1
<1>5. Follows(rec, t)
  BY DEF Under
<1> HIDE DEF t
<1>6. rec.pointer # NoPointer => Counted(c.pointer, lines) = lines /\ Counted(rec.pointer, lines) = lines
  BY DEF Counted
<1>7. rec.pointer # NoPointer => Upto(rec.pointer) <= Len(lines)
  BY <1>6 DEF Under
<1>8. Len(Counted(rec.pointer, lines)) <= Len(t)
      /\ \A i \in 1 .. Len(Counted(rec.pointer, lines)) : t[i] = Counted(rec.pointer, lines)[i]
  <2>1. CASE rec.pointer = NoPointer
    <3>1. Counted(rec.pointer, lines) = <<>> /\ Len(<<>>) = 0 /\ Len(t) \in Nat
      BY <1>1, <2>1, EmptySeq, LenProperties DEF Counted
    <3> QED
      BY <3>1
  <2>2. CASE rec.pointer # NoPointer
    BY <1>4, <1>6, <2>2
  <2> QED
    BY <2>1, <2>2
<1>9. /\ History(rec, lines) \in Seq(S) /\ Advances(History(rec, lines), t)
      /\ Ascending(t) => Ascending(History(rec, lines))
  BY ONLY <1>1, <1>2, <1>5, <1>7, <1>8, HistoryBehind
<1>10. ASSUME rec.pointer # NoPointer, NEW i \in 1 .. Len(rec.tail), Upto(rec.pointer) + i <= Len(lines)
       PROVE  lines[Upto(rec.pointer) + i].id = rec.tail[i].id
  <2>1. Upto(rec.pointer) + i \in 1 .. Len(lines)
    BY <1>1, <1>10
  <2>2. t[Upto(rec.pointer) + i].id = rec.tail[i].id
    BY <1>5 DEF Follows
  <2> QED
    BY <1>4, <1>6, <1>10, <2>1, <2>2
<1>11. Resumes(rec, lines)
  BY <1>3, <1>7, <1>9, <1>10 DEF Resumes
<1> QED
  BY <1>7, <1>9, <1>11 DEF S, t

\* Each entry a reader gets is a line, if the record has a pointer, or in the tail of the record.
LEMMA HistoryElements ==
  ASSUME NEW n \in Nat, NEW rec \in Image(n), NEW lines \in Seq(Uttered(n))
  PROVE  /\ History(rec, lines) \in Seq(Uttered(n))
         /\ \A k \in 1 .. Len(History(rec, lines)) :
              \/ rec.pointer # NoPointer /\ \E i \in 1 .. Len(lines) : History(rec, lines)[k] = lines[i]
              \/ \E i \in 1 .. Len(rec.tail) : History(rec, lines)[k] = rec.tail[i]
<1> DEFINE S == Uttered(n)
<1>1. rec.pointer \in Nat /\ rec.tail \in Seq(S) /\ Len(rec.tail) \in Nat /\ lines \in Seq(S)
      /\ Len(lines) \in Nat /\ Upto(rec.pointer) \in Nat
  <2>1. rec.pointer \in Nat /\ rec.tail \in Seq(S) /\ Len(rec.tail) \in Nat /\ Len(lines) \in Nat
    BY Fields, LenProperties
  <2> QED
    BY <2>1 DEF Upto, NoPointer
<1>2. \A s \in Seq(S) : Readable(s) = s
  <2>1. ASSUME NEW s \in Seq(S) PROVE \A i \in DOMAIN s : s[i].id # 0
    BY UtteredFacts
  <2> QED
    BY <2>1 DEF Readable
<1>3. Unrecorded(rec, lines) \in Seq(S)
  <2> DEFINE a == Upto(rec.pointer)
  <2>1. a + 1 \in Int /\ Len(lines) \in Int /\ \A i \in a + 1 .. Len(lines) : lines[i] \in S
    BY <1>1, ElementOfSeq
  <2>2. SubSeq(lines, a + 1, Len(lines)) \in Seq(S)
    BY <2>1, SubSeqProperties
  <2> QED
    BY <1>2, <2>2 DEF Unrecorded, After
<1> HIDE DEF S
<1>4. PICK skip \in 0 .. Len(rec.tail) : skip = Min({Len(Unrecorded(rec, lines)), Len(rec.tail)})
  <2>1. PICK a \in Nat, b \in Nat : a = Len(Unrecorded(rec, lines)) /\ b = Len(rec.tail)
    BY <1>1, <1>3, LenProperties
  <2>2. Min({a, b}) \in 0 .. b
    BY OfTwo
  <2> QED
    BY <2>1, <2>2
<1>5. /\ After(rec.tail, skip) \in Seq(S) /\ Len(After(rec.tail, skip)) = Len(rec.tail) - skip
      /\ \A i \in 1 .. Len(rec.tail) - skip : After(rec.tail, skip)[i] = rec.tail[skip + i]
  BY <1>1, AfterFacts
<1>6. /\ Inline(rec, lines) \in Seq(S)
      /\ \A j \in 1 .. Len(Inline(rec, lines)) : \E i \in 1 .. Len(rec.tail) : Inline(rec, lines)[j] = rec.tail[i]
  <2>1. CASE rec.pointer = NoPointer
    BY <1>1, <2>1 DEF Inline
  <2>2. CASE rec.pointer # NoPointer
    <3>1. Inline(rec, lines) = After(rec.tail, skip)
      BY <1>4, <2>2 DEF Inline
    <3>2. \A j \in 1 .. Len(rec.tail) - skip : skip + j \in 1 .. Len(rec.tail)
      BY <1>1
    <3> QED
      BY <1>5, <3>1, <3>2
  <2> QED
    BY <2>1, <2>2
<1>7. /\ Logged(rec, lines) \in Seq(S)
      /\ \A j \in 1 .. Len(Logged(rec, lines)) :
           rec.pointer # NoPointer /\ \E i \in 1 .. Len(lines) : Logged(rec, lines)[j] = lines[i]
  <2>1. CASE rec.pointer = NoPointer
    <3>1. Logged(rec, lines) = <<>> /\ <<>> \in Seq(S) /\ Len(<<>>) = 0
      BY <2>1, EmptySeq DEF Logged
    <3> QED
      BY <3>1
  <2>2. CASE rec.pointer # NoPointer
    BY <1>1, <1>2, <2>2 DEF Logged
  <2> QED
    BY <2>1, <2>2
<1>8. PICK x, y : x = Logged(rec, lines) /\ y = Inline(rec, lines)
  OBVIOUS
<1>9. x \in Seq(S) /\ y \in Seq(S)
  BY <1>6, <1>7, <1>8
<1>10. /\ x \o y \in Seq(S) /\ Len(x \o y) = Len(x) + Len(y)
       /\ \A k \in 1 .. Len(x) + Len(y) : (x \o y)[k] = IF k <= Len(x) THEN x[k] ELSE y[k - Len(x)]
  BY ONLY <1>9, ConcatProperties
<1>11. Len(x) \in Nat /\ Len(y) \in Nat
  BY <1>9, LenProperties
<1>12. ASSUME NEW k \in 1 .. Len(x) + Len(y)
       PROVE  \/ rec.pointer # NoPointer /\ \E i \in 1 .. Len(lines) : (x \o y)[k] = lines[i]
              \/ \E i \in 1 .. Len(rec.tail) : (x \o y)[k] = rec.tail[i]
  <2>1. CASE k <= Len(x)
    <3>1. k \in 1 .. Len(x) /\ (x \o y)[k] = x[k]
      BY <1>10, <1>11, <2>1
    <3> QED
      BY <1>7, <1>8, <3>1
  <2>2. CASE ~(k <= Len(x))
    <3>1. k - Len(x) \in 1 .. Len(y) /\ (x \o y)[k] = y[k - Len(x)]
      BY <1>10, <1>11, <2>2
    <3> QED
      BY <1>6, <1>8, <3>1
  <2> QED
    BY <2>1, <2>2
<1>13. History(rec, lines) = x \o y
  BY <1>8 DEF History
<1> QED
  BY <1>10, <1>12, <1>13 DEF S

\* While nobody has a copy, it is enough that the record and the log are what the next is made of.
LEMMA NobodyStands ==
  ASSUME LogShape', \A g \in Holders : ~HoldsCopy(g)' /\ copyOf'[g].messages = <<>>,
         \A g, h \in Holders : Busy(g)' /\ Busy(h)' => g = h,
         \A g \in Holders : copyOf'[g].stage = "reading" => copyOf'[g].image = record',
         \A g \in Holders, w \in LogWrites : write'[g][w] = NoWrite,
         talk' = "none", PartsStayParts', Resumes(record, log)', Stands(History(record, log), written)'
  PROVE  LogStands'
<1>1. NoWrite.stage = "idle" /\ "idle" \notin Appending /\ "idle" # "serialized"
  BY Empties DEF Appending
<1>2. \A g \in Holders, w \in LogWrites : write'[g][w].stage = "idle" /\ ~Serialized(g, w)'
  BY <1>1 DEF Serialized
<1>3. OneHolder'
  BY DEF OneHolder
<1>4. OneAtATime'
  BY <1>1, <1>2 DEF OneAtATime
<1>5. CopiesFit' /\ StreamsLast'
  BY DEF CopiesFit, StreamsLast
<1>6. WritesFit'
  <2>1. \A g \in Holders : \A q : q.stage = "idle" => Fits(g, q)'
    BY DEF Fits, Appending
  <2> QED
    BY <1>2, <2>1 DEF WritesFit, Fits
<1>7. RecordsFollow' /\ CopyRemembers'
  BY DEF RecordsFollow, CopyRemembers
<1>8. Aligned' /\ RecordStands'
  BY DEF Aligned, RecordStands
<1>9. ImagesStand'
  BY <1>2 DEF ImagesStand, Current
<1> QED
  BY <1>3, <1>4, <1>5, <1>6, <1>7, <1>8, <1>9 DEF LogStands, Orderly, OnDiskStands

\* A process reads the record when no other has the session.
LEMMA ReadRecordStands ==
  ASSUME LogStands, CloseOverlaps = FALSE, NEW h \in Holders, ReadRecord(h)
  PROVE  LogStands'
<1> USE DEF LogStands, Orderly, OnDiskStands
<1>1. /\ said \in Nat /\ log \in Seq(Uttered(said)) /\ record \in Image(said)
      /\ copyOf \in [Holders -> CopyForm(said)]
  BY BoundsAssumption DEF LogShape
<1>2. \A g \in Holders : g # h => ~Busy(g) /\ ~HoldsCopy(g)
  BY DEF ReadRecord, Busy, HoldsCopy
<1>3. \A g \in Holders, w \in LogWrites : write[g][w] = NoWrite
  <2>1. \A w \in LogWrites : write[h][w] = NoWrite
    BY DEF ReadRecord, Quiet, OneAtATime
  <2> QED
    BY <1>2, <2>1 DEF OneHolder
<1>4. talk = "none"
  <2>1. CASE h = LogOwner
    BY <2>1 DEF ReadRecord
  <2>2. CASE h # LogOwner
    BY <1>2, <2>2, OwnerAssumption DEF StreamsLast
  <2> QED
    BY <2>1, <2>2
<1>5. PICK d : d = [NoCopy EXCEPT !.stage = "reading", !.image = record]
  OBVIOUS
<1>6. d \in CopyForm(said) /\ d.stage = "reading" /\ d.image = record /\ d.messages = <<>>
  <2>1. NoCopy \in CopyForm(said) /\ NoCopy.messages = <<>>
    BY <1>1, Empties
  <2> QED
    BY <1>1, <1>5, <2>1 DEF CopyForm
<1>7. /\ copyOf' = [copyOf EXCEPT ![h] = d]
      /\ UNCHANGED <<log, record, lock, write, chain, said, talk, written>>
  BY <1>5 DEF ReadRecord
<1>8. copyOf' \in [Holders -> CopyForm(said)] /\ copyOf'[h] = d /\ \A g \in Holders : g # h => copyOf'[g] = copyOf[g]
  BY <1>1, <1>6, <1>7
<1>9. LogShape'
  BY <1>7, <1>8 DEF LogShape
<1>10. \A g \in Holders : ~HoldsCopy(g)' /\ copyOf'[g].messages = <<>>
  <2>1. \A g \in Holders : g # h => copyOf[g].messages = <<>>
    BY <1>2 DEF OneHolder
  <2> QED
    BY <1>2, <1>6, <1>8, <2>1 DEF HoldsCopy
<1>11. \A g \in Holders : g # h => ~Busy(g)'
  BY <1>2, <1>8 DEF Busy
<1>12. \A g \in Holders : copyOf'[g].stage = "reading" => copyOf'[g].image = record'
  BY <1>6, <1>7, <1>8, <1>11 DEF Busy
<1>13. Steady
  <2>1. NoWrite.replaced = FALSE
    BY <1>1, Empties
  <2> QED
    BY <1>3, <2>1 DEF Steady
<1>14. Resumes(record, log)
  <2>1. CASE HoldsCopy(h)
    <3>1. copyOf[h] \in CopyForm(said) /\ CopyFits(copyOf[h], log)
      BY <1>1, <2>1 DEF CopiesFit
    <3>2. (record.pointer # NoPointer => copyOf[h].pointer # NoPointer) /\ Under(record, copyOf[h], log)
      BY <1>13, <2>1 DEF RecordsFollow
    <3> QED
      BY <1>1, <3>1, <3>2, RecordBehind
  <2>2. CASE ~HoldsCopy(h)
    BY <1>2, <2>2 DEF Aligned
  <2> QED
    BY <2>1, <2>2
<1>15. Stands(History(record, log), written)
  BY <1>13 DEF RecordStands
<1>16. PartsStayParts'
  <2>1. \A g \in Holders : \A w \in LogWrites :
          Serialized(g, w)' => Serialized(g, w) /\ write'[g][w].image = write[g][w].image
    BY <1>7 DEF Serialized
  <2>2. ASSUME NEW n, NEW g \in Holders PROVE NeverWhole(copyOf'[g].messages, n)
    <3>1. DOMAIN <<>> = {}
      OBVIOUS
    <3> QED
      BY <1>10, <3>1 DEF NeverWhole
  <2>3. \A i \in DOMAIN log' : \A n : n = log'[i].id /\ ~log'[i].whole =>
          NowhereWhole(n) /\ (talk' = "streaming" => n < said')
    BY <1>7 DEF PartsStayParts, StaysPart
  <2> QED
    BY <1>7, <2>1, <2>2, <2>3, PartsStay
<1>17. \A g, k \in Holders : Busy(g)' /\ Busy(k)' => g = k
  BY <1>11
<1>18. \A g \in Holders, w \in LogWrites : write'[g][w] = NoWrite
  BY <1>3, <1>7
<1> HIDE DEF LogStands, Orderly, OnDiskStands
<1> QED
  BY <1>4, <1>7, <1>9, <1>10, <1>12, <1>14, <1>15, <1>16, <1>17, <1>18, NobodyStands

\* What follows the first of two sequences is the second.
LEMMA AfterConcat ==
  ASSUME NEW S, NEW s \in Seq(S), NEW t \in Seq(S)
  PROVE  After(s \o t, Len(s)) = t
<1>1. /\ s \o t \in Seq(S) /\ Len(s \o t) = Len(s) + Len(t)
      /\ \A i \in 1 .. Len(s) + Len(t) : (s \o t)[i] = IF i <= Len(s) THEN s[i] ELSE t[i - Len(s)]
  BY ConcatProperties
<1>2. Len(s) \in Nat /\ Len(t) \in Nat
  BY LenProperties
<1>3. PICK u, k : u = s \o t /\ k = Len(s)
  OBVIOUS
<1>4. u \in Seq(S) /\ k \in 0 .. Len(u) /\ Len(u) - k = Len(t)
  BY <1>1, <1>2, <1>3
<1>5. /\ After(u, k) \in Seq(S) /\ Len(After(u, k)) = Len(u) - k
      /\ \A i \in 1 .. Len(u) - k : After(u, k)[i] = u[k + i]
  BY ONLY <1>4, AfterFacts
<1>6. ASSUME NEW i \in 1 .. Len(t) PROVE After(u, k)[i] = t[i]
  <2>1. Len(s) + i \in 1 .. Len(s) + Len(t) /\ ~(Len(s) + i <= Len(s)) /\ (Len(s) + i) - Len(s) = i
    BY <1>2
  <2>2. After(u, k)[i] = (s \o t)[Len(s) + i]
    BY <1>3, <1>4, <1>5
  <2> QED
    BY <1>1, <2>1, <2>2
<1>7. After(u, k) = t
  BY <1>4, <1>5, <1>6, SeqEqual
<1> QED
  BY <1>3, <1>7

\* A copy made of a record and the log has the history they give, and goes on from the log.
LEMMA HydratedFacts ==
  ASSUME NEW n \in Nat, NEW rec \in Image(n), NEW lines \in Seq(Uttered(n)), Len(rec.tail) <= Window,
         Resumes(rec, lines), NEW d, d = Hydrated(rec, lines)
  PROVE  /\ d \in CopyForm(n) /\ d.stage = "open" /\ CopyFits(d, lines)
         /\ Live(d, lines) = History(rec, lines)
         /\ (d.pointer = NoPointer) <=> (rec.pointer = NoPointer)
<1> DEFINE S == Uttered(n)
           inline == Inline(rec, lines)
           counted == Logged(rec, lines)
           room == Window - Len(inline)
           kept == LastOf(counted, room)
<1>1. /\ rec.pointer \in Nat /\ rec.tail \in Seq(S) /\ Len(rec.tail) \in Nat /\ lines \in Seq(S)
      /\ Len(lines) \in Nat /\ Upto(rec.pointer) \in Nat /\ Window \in Nat /\ Window > 0
  <2>1. rec.pointer \in Nat /\ rec.tail \in Seq(S) /\ Len(rec.tail) \in Nat /\ Len(lines) \in Nat
    BY Fields, LenProperties
  <2> QED
    BY <2>1, BoundsAssumption DEF Upto, NoPointer
<1>2. \A s \in Seq(S) : Readable(s) = s
  <2>1. ASSUME NEW s \in Seq(S) PROVE \A i \in DOMAIN s : s[i].id # 0
    BY UtteredFacts
  <2> QED
    BY <2>1 DEF Readable
<1>3. rec.pointer # NoPointer => Upto(rec.pointer) <= Len(lines)
  BY DEF Resumes
<1> HIDE DEF S
<1>4. rec.pointer # NoPointer =>
        /\ Unrecorded(rec, lines) \in Seq(S) /\ Len(Unrecorded(rec, lines)) = Len(lines) - Upto(rec.pointer)
  <2> SUFFICES ASSUME rec.pointer # NoPointer
               PROVE  /\ Unrecorded(rec, lines) \in Seq(S)
                      /\ Len(Unrecorded(rec, lines)) = Len(lines) - Upto(rec.pointer)
    OBVIOUS
  <2>1. PICK a \in 0 .. Len(lines) : a = Upto(rec.pointer)
    BY <1>1, <1>3
  <2>2. After(lines, a) \in Seq(S) /\ Len(After(lines, a)) = Len(lines) - a
    BY <1>1, AfterFacts
  <2> QED
    BY <1>2, <2>1, <2>2 DEF Unrecorded
<1>5. /\ inline \in Seq(S) /\ Len(inline) \in Nat /\ Len(inline) <= Window
      /\ rec.pointer = NoPointer => inline = rec.tail
  <2>1. CASE rec.pointer = NoPointer
    BY <1>1, <2>1 DEF Inline
  <2>2. CASE rec.pointer # NoPointer
    <3>1. PICK a \in Nat, b \in Nat : a = Len(Unrecorded(rec, lines)) /\ b = Len(rec.tail)
      BY <1>1, <1>4, <2>2, LenProperties
    <3>2. PICK skip \in 0 .. Len(rec.tail) : skip = Min({a, b})
      BY <3>1, OfTwo
    <3>3. After(rec.tail, skip) \in Seq(S) /\ Len(After(rec.tail, skip)) = Len(rec.tail) - skip
      BY <1>1, AfterFacts
    <3>4. Inline(rec, lines) = After(rec.tail, skip)
      BY <2>2, <3>1, <3>2 DEF Inline
    <3> QED
      BY <1>1, <2>2, <3>3, <3>4
  <2> QED
    BY <2>1, <2>2
<1>6. counted = Counted(rec.pointer, lines) /\ counted \in Seq(S) /\ Len(counted) \in Nat
  <2>1. counted = Counted(rec.pointer, lines)
    BY <1>1, <1>2 DEF Logged, Counted
  <2>2. counted \in Seq(S)
    BY <1>1, <2>1, EmptySeq DEF Counted
  <2> QED
    BY <2>1, <2>2, LenProperties
<1>7. room \in Nat /\ room + Len(inline) = Window
  BY <1>1, <1>5
<1> HIDE DEF room, inline, counted
<1>8. /\ kept \in Seq(S) /\ Len(kept) = IF Len(counted) > room THEN room ELSE Len(counted)
      /\ \A i \in 1 .. Len(kept) : kept[i] = counted[Len(counted) - Len(kept) + i]
  BY <1>6, <1>7, LastOfFacts
<1> HIDE DEF kept
<1>9. /\ Len(kept) \in Nat /\ Len(kept) <= Len(counted) /\ Len(kept) <= room
      /\ Len(kept) < Len(counted) => Len(kept) = room
  BY <1>6, <1>7, <1>8, LenProperties
<1>10. d = [stage |-> "open", messages |-> kept \o inline, logged |-> Len(kept),
            pointer |-> HydratedPointer(rec, lines), image |-> NoRecord]
  <2>1. (IF Len(inline) > Window THEN 0 ELSE Window - Len(inline)) = room
    BY <1>1, <1>5 DEF room
  <2> QED
    BY <2>1 DEF Hydrated, inline, counted, kept
<1>11. /\ kept \o inline \in Seq(S) /\ Len(kept \o inline) = Len(kept) + Len(inline)
       /\ \A i \in 1 .. Len(kept) + Len(inline) :
            (kept \o inline)[i] = IF i <= Len(kept) THEN kept[i] ELSE inline[i - Len(kept)]
  BY <1>5, <1>8, ConcatProperties
<1>12. PICK x \in Nat : /\ x = HydratedPointer(rec, lines)
                        /\ x = NoPointer <=> rec.pointer = NoPointer
                        /\ x # NoPointer => Upto(x) = Len(lines)
  <2>1. CASE rec.pointer # NoPointer /\ Unrecorded(rec, lines) # <<>>
    <3>1. PointerAt(Len(lines)) \in Nat /\ PointerAt(Len(lines)) # NoPointer /\ Upto(PointerAt(Len(lines))) = Len(lines)
      BY <1>1 DEF PointerAt, Upto, NoPointer
    <3> QED
      BY <2>1, <3>1 DEF HydratedPointer
  <2>2. CASE rec.pointer # NoPointer /\ Unrecorded(rec, lines) = <<>>
    <3>1. Len(lines) - Upto(rec.pointer) = 0
      BY <1>4, <2>2, EmptySeq
    <3>2. Upto(rec.pointer) = Len(lines)
      BY <1>1, <3>1
    <3> QED
      BY <1>1, <2>2, <3>2 DEF HydratedPointer
  <2>3. CASE rec.pointer = NoPointer
    BY <1>1, <2>3 DEF HydratedPointer
  <2> QED
    BY <2>1, <2>2, <2>3
<1>13. /\ d \in CopyForm(n) /\ d.stage = "open" /\ d.messages = kept \o inline /\ d.logged = Len(kept)
       /\ d.pointer = x
  <2>1. NoRecord \in Image(n)
    BY Empties
  <2> QED
    BY <1>9, <1>10, <1>11, <1>12, <2>1 DEF CopyForm, S
<1>14. Counted(d.pointer, lines) = counted
  BY <1>6, <1>12, <1>13 DEF Counted
<1>15. Live(d, lines) = History(rec, lines)
  <2>1. After(kept \o inline, Len(kept)) = inline
    BY <1>5, <1>8, AfterConcat
  <2>2. Live(d, lines) = counted \o inline
    BY <1>13, <1>14, <2>1 DEF Live
  <2> QED
    BY <2>2 DEF History, counted, inline
<1>16. ASSUME d.pointer # NoPointer
       PROVE  /\ Upto(d.pointer) = Len(lines) /\ d.logged <= Len(lines)
              /\ \A j \in 1 .. d.logged : d.messages[j] = lines[(Len(lines) - d.logged) + j]
              /\ d.logged < Len(lines) => Len(d.messages) = Window
  <2>1. counted = lines
    BY <1>14, <1>16 DEF Counted
  <2>2. Upto(d.pointer) = Len(lines)
    BY <1>12, <1>13, <1>16
  <2>3. \A j \in 1 .. Len(kept) : j \in 1 .. Len(kept) + Len(inline) /\ j <= Len(kept)
    BY <1>5, <1>9
  <2>4. \A j \in 1 .. Len(kept) : d.messages[j] = lines[(Len(lines) - Len(kept)) + j]
    BY <1>8, <1>11, <1>13, <2>1, <2>3
  <2>5. Len(kept) < Len(lines) => Len(d.messages) = Window
    BY <1>5, <1>7, <1>9, <1>11, <1>13, <2>1
  <2> QED
    BY <1>9, <1>13, <2>1, <2>2, <2>4, <2>5
<1>17. d.pointer = NoPointer => d.logged = 0
  <2>1. ASSUME d.pointer = NoPointer PROVE Len(kept) = 0
    <3>1. counted = <<>>
      BY <1>14, <2>1 DEF Counted
    <3> QED
      BY <1>9, <3>1, EmptySeq
  <2> QED
    BY <1>13, <2>1
<1>18. d.logged \in 0 .. Len(d.messages) /\ Len(d.messages) <= Window
  <2>1. Len(kept) \in 0 .. Len(kept) + Len(inline) /\ Len(kept) + Len(inline) <= Window
    BY <1>5, <1>7, <1>9
  <2> QED
    BY <1>11, <1>13, <2>1
<1>19. Ascending(Live(d, lines))
  BY <1>15 DEF Resumes
<1>20. CopyFits(d, lines)
  BY <1>16, <1>17, <1>18, <1>19 DEF CopyFits
<1> QED
  BY <1>12, <1>13, <1>15, <1>20

\* The record speaks of it, if what it has as whole is whole in the log.
LEMMA UnderHistory ==
  ASSUME NEW n \in Nat, NEW rec \in Image(n), NEW lines \in Seq(Uttered(n)), Resumes(rec, lines),
         \A i \in DOMAIN lines : ~lines[i].whole => NeverWhole(rec.tail, lines[i].id)
  PROVE  /\ Follows(rec, History(rec, lines))
         /\ Upto(rec.pointer) <= Len(Counted(rec.pointer, lines))
<1> DEFINE S == Uttered(n)
           told == History(rec, lines)
           seen == Counted(rec.pointer, lines)
           a == Upto(rec.pointer)
<1>1. /\ rec.pointer \in Nat /\ rec.tail \in Seq(S) /\ Len(rec.tail) \in Nat /\ lines \in Seq(S)
      /\ Len(lines) \in Nat /\ DOMAIN lines = 1 .. Len(lines) /\ DOMAIN rec.tail = 1 .. Len(rec.tail)
  BY Fields, LenProperties
<1>2. \A x \in S : x.id # 0
  BY UtteredFacts
<1>3. rec.pointer # NoPointer => Upto(rec.pointer) <= Len(lines)
  BY DEF Resumes
<1> HIDE DEF S
<1>4. /\ Len(told) = IF a + Len(rec.tail) > Len(seen) THEN a + Len(rec.tail) ELSE Len(seen)
      /\ a \in Nat /\ a <= Len(seen)
      /\ \A i \in 1 .. Len(told) : told[i] = IF i <= Len(seen) THEN seen[i] ELSE rec.tail[i - a]
  BY <1>1, <1>2, <1>3, HistoryFacts
<1>5. Len(seen) \in Nat /\ (rec.pointer # NoPointer => seen = lines) /\ (rec.pointer = NoPointer => Len(seen) = 0)
  BY <1>1, EmptySeq DEF Counted
<1>6. ASSUME rec.pointer # NoPointer, NEW i \in 1 .. Len(rec.tail), a + i <= Len(lines)
      PROVE  lines[a + i].id = rec.tail[i].id
  BY <1>6 DEF Resumes
<1> HIDE DEF told, seen, a
<1>7. ASSUME NEW i \in 1 .. Len(rec.tail)
      PROVE  a + i <= Len(told) /\ told[a + i].id = rec.tail[i].id /\ (rec.tail[i].whole => told[a + i].whole)
  <2>1. a + i \in 1 .. Len(told) /\ a + i <= Len(told) /\ (a + i) - a = i
    BY <1>1, <1>4, <1>5
  <2>2. CASE a + i <= Len(seen)
    <3>1. rec.pointer # NoPointer /\ seen = lines
      BY <1>4, <1>5, <2>2
    <3>2. lines[a + i].id = rec.tail[i].id /\ a + i \in DOMAIN lines
      BY <1>1, <1>4, <1>6, <2>1, <2>2, <3>1
    <3>3. rec.tail[i].whole => lines[a + i].whole
      BY <1>1, <3>2 DEF NeverWhole
    <3> QED
      BY <1>4, <2>1, <2>2, <3>1, <3>2, <3>3
  <2>3. CASE ~(a + i <= Len(seen))
    <3>1. told[a + i] = rec.tail[i]
      BY <1>4, <2>1, <2>3
    <3> QED
      BY <2>1, <3>1
  <2> QED
    BY <2>2, <2>3
<1> QED
  BY <1>4, <1>7 DEF Follows, told, seen, a

\* A history that stands has what was written and the record's own entries.
LEMMA HistoryRemembers ==
  ASSUME NEW n \in Nat, NEW told \in Seq(Uttered(n)), Ascending(told), NEW rec \in Image(n), Follows(rec, told),
         NEW entries, entries \subseteq Uttered(n), Stands(told, entries)
  PROVE  /\ \A e \in entries : Remembered(told, e)
         /\ \A i \in 1 .. Len(rec.tail) : Remembered(told, rec.tail[i])
<1>1. DOMAIN told = 1 .. Len(told) /\ Ids(told) \subseteq 1 .. n /\ \A x \in Uttered(n) : x.id \in Nat
  BY UtteredFacts
<1>2. ASSUME NEW e \in entries PROVE Remembered(told, e)
  <2>1. Survives(told, e, Ids(told))
    <3>1. PICK few : few = Ids(told) \cap {d.id : d \in entries}
      OBVIOUS
    <3>2. Survives(told, e, few) /\ few \subseteq Ids(told)
      BY <3>1 DEF Stands
    <3> QED
      BY <1>1, <3>2, SurvivesMore
  <2>2. ASSUME e.whole, NEW k \in DOMAIN told, told[k].id = e.id PROVE told[k].whole
    <3>1. e = Whole(e.id)
      <4>1. e \in [id : 1 .. n, whole : BOOLEAN]
        BY DEF Uttered
      <4> QED
        BY <2>2, <4>1 DEF Whole
    <3> QED
      BY <2>2, <3>1 DEF Stands
  <2> QED
    BY <2>1, <2>2 DEF Remembered
<1>3. ASSUME NEW i \in 1 .. Len(rec.tail) PROVE Remembered(told, rec.tail[i])
  <2>1. /\ Upto(rec.pointer) + i <= Len(told) /\ told[Upto(rec.pointer) + i].id = rec.tail[i].id
        /\ rec.tail[i].whole => told[Upto(rec.pointer) + i].whole
    BY DEF Follows
  <2>2. PICK k \in 1 .. Len(told) : k = Upto(rec.pointer) + i
    <3>1. Upto(rec.pointer) \in Nat
      BY Fields DEF Upto, NoPointer
    <3>2. Len(told) \in Nat
      BY UtteredFacts
    <3> QED
      BY <2>1, <3>1, <3>2
  <2>3. Has(told, rec.tail[i])
    BY <1>1, <2>1, <2>2 DEF Has
  <2>4. ASSUME rec.tail[i].whole, NEW j \in DOMAIN told, told[j].id = rec.tail[i].id PROVE told[j].whole
    <3>1. j = k
      BY <1>1, <2>1, <2>2, <2>4, OnePlace
    <3> QED
      BY <2>1, <2>2, <2>4, <3>1
  <2> QED
    BY <2>3, <2>4 DEF Remembered, Survives
<1> QED
  BY <1>2, <1>3

\* What is part in the log is whole nowhere in a copy made of it.
LEMMA HydratedParts ==
  ASSUME NEW n \in Nat, NEW rec \in Image(n), NEW lines \in Seq(Uttered(n)), Len(rec.tail) <= Window,
         Resumes(rec, lines), \A i \in DOMAIN lines : ~lines[i].whole => NeverWhole(rec.tail, lines[i].id),
         NEW d, d = Hydrated(rec, lines), NEW i \in DOMAIN lines, ~lines[i].whole
  PROVE  NeverWhole(d.messages, lines[i].id)
<1>1. /\ d \in CopyForm(n) /\ CopyFits(d, lines) /\ Live(d, lines) = History(rec, lines)
      /\ (d.pointer = NoPointer) <=> (rec.pointer = NoPointer)
  BY HydratedFacts
<1>2. DOMAIN d.messages = 1 .. Len(d.messages) /\ DOMAIN lines = 1 .. Len(lines)
  <2>1. d.messages \in Seq(Uttered(n))
    BY <1>1, FitFacts
  <2> QED
    BY <2>1, UtteredFacts
<1>3. ASSUME NEW j \in DOMAIN d.messages, d.messages[j].id = lines[i].id, d.messages[j].whole PROVE FALSE
  <2>1. PICK k \in 1 .. Len(History(rec, lines)) : History(rec, lines)[k] = d.messages[j]
    BY <1>1, <1>2, InConversation
  <2>2. CASE rec.pointer # NoPointer /\ \E x \in 1 .. Len(lines) : History(rec, lines)[k] = lines[x]
    <3>1. PICK x \in 1 .. Len(lines) : d.messages[j] = lines[x]
      BY <2>1, <2>2
    <3>2. Ascending(lines)
      BY <1>1, <2>2, LinesInConversation
    <3>3. \A y \in Uttered(n) : y.id \in Nat
      BY UtteredFacts
    <3>4. x = i
      BY <1>2, <1>3, <3>1, <3>2, <3>3, OnePlace
    <3> QED
      BY <1>3, <3>1, <3>4
  <2>3. CASE \E x \in 1 .. Len(rec.tail) : History(rec, lines)[k] = rec.tail[x]
    <3>1. PICK x \in 1 .. Len(rec.tail) : d.messages[j] = rec.tail[x]
      BY <2>1, <2>3
    <3>2. x \in DOMAIN rec.tail
      BY Fields, UtteredFacts
    <3> QED
      BY <1>3, <3>1, <3>2 DEF NeverWhole
  <2> QED
    BY <2>1, <2>2, <2>3, HistoryElements
<1> QED
  BY <1>3 DEF NeverWhole

\* A process that has read the record reads the log, and has a copy.
LEMMA ReadLogStands ==
  ASSUME LogStands, NEW h \in Holders, ReadLog(h)
  PROVE  LogStands'
<1> USE DEF LogStands, Orderly, OnDiskStands
<1>1. /\ said \in Nat /\ log \in Seq(Uttered(said)) /\ record \in Image(said) /\ Len(record.tail) <= Window
      /\ copyOf \in [Holders -> CopyForm(said)] /\ written \subseteq Uttered(said)
  BY BoundsAssumption DEF LogShape
<1>2. copyOf[h].stage = "reading" /\ copyOf[h].image = record /\ ~HoldsCopy(h)
  BY DEF ReadLog, OneHolder, HoldsCopy
<1>3. \A g \in Holders : ~HoldsCopy(g) /\ (g # h => ~Busy(g))
  BY <1>2 DEF OneHolder, Busy, HoldsCopy
<1>4. NoWrite.stage = "idle" /\ NoWrite.replaced = FALSE /\ \A g \in Holders, w \in LogWrites : write[g][w] = NoWrite
  BY <1>1, <1>3, Empties DEF OneHolder
<1>5. Steady /\ \A g \in Holders, w \in LogWrites : write[g][w].stage = "idle" /\ ~Serialized(g, w)
  BY <1>4 DEF Steady, Serialized
<1>6. talk = "none"
  BY <1>3, OwnerAssumption DEF StreamsLast
<1>7. PICK d : d = Hydrated(record, log)
  OBVIOUS
<1>8. copyOf' = [copyOf EXCEPT ![h] = d] /\ UNCHANGED <<log, record, lock, write, chain, said, talk, written>>
  BY <1>2, <1>7 DEF ReadLog
<1>9. Resumes(record, log) /\ Stands(History(record, log), written)
  BY <1>3, <1>5 DEF Aligned, RecordStands
<1>10. /\ d \in CopyForm(said) /\ d.stage = "open" /\ CopyFits(d, log)
       /\ Live(d, log) = History(record, log)
       /\ (d.pointer = NoPointer) <=> (record.pointer = NoPointer)
  BY <1>1, <1>7, <1>9, HydratedFacts
<1>11. /\ copyOf' \in [Holders -> CopyForm(said)] /\ copyOf'[h] = d
       /\ \A g \in Holders : g # h => copyOf'[g] = copyOf[g]
  BY <1>1, <1>8, <1>10
<1>12. \A g \in Holders : (HoldsCopy(g)' <=> g = h) /\ (Busy(g)' <=> g = h)
  BY <1>3, <1>10, <1>11 DEF HoldsCopy, Busy
<1>13. LogShape'
  BY <1>8, <1>11 DEF LogShape
<1>14. OneHolder'
  <2>1. \A g \in Holders : ~HoldsCopy(g)' => copyOf'[g].messages = <<>> /\ \A w \in LogWrites : write'[g][w] = NoWrite
    BY <1>3, <1>8, <1>11, <1>12 DEF OneHolder
  <2>2. \A g \in Holders : copyOf'[g].stage # "reading"
    BY <1>10, <1>11, <1>12 DEF Busy
  <2> QED
    BY <1>12, <2>1, <2>2 DEF OneHolder
<1>15. OneAtATime'
  BY <1>8 DEF OneAtATime, FirstInChain
<1>16. CopiesFit' /\ StreamsLast'
  BY <1>6, <1>8, <1>10, <1>11, <1>12 DEF CopiesFit, StreamsLast
<1>17. WritesFit'
  <2>1. \A g \in Holders : \A q : q.stage = "idle" => Fits(g, q)'
    BY DEF Fits, Appending
  <2> QED
    BY <1>5, <1>8, <2>1 DEF WritesFit, Fits
<1>18. \A i \in DOMAIN log : ~log[i].whole => NowhereWhole(log[i].id) /\ NeverWhole(record.tail, log[i].id)
  BY DEF PartsStayParts, StaysPart, NowhereWhole
<1>19. PartsStayParts'
  <2>1. \A g \in Holders : \A w \in LogWrites :
          Serialized(g, w)' => Serialized(g, w) /\ write'[g][w].image = write[g][w].image
    BY <1>8 DEF Serialized
  <2>2. ASSUME NEW i \in DOMAIN log, ~log[i].whole, NEW g \in Holders, NeverWhole(copyOf[g].messages, log[i].id)
        PROVE  NeverWhole(copyOf'[g].messages, log[i].id)
    <3>1. NeverWhole(d.messages, log[i].id)
      BY <1>1, <1>7, <1>9, <1>18, <2>2, HydratedParts
    <3> QED
      BY <1>11, <2>2, <3>1
  <2>3. talk' # "streaming"
    BY <1>6, <1>8
  <2> QED
    BY <1>8, <1>18, <2>1, <2>2, <2>3, PartsStay
<1>20. Follows(record, Live(d, log)) /\ Upto(record.pointer) <= Len(Counted(record.pointer, log))
  BY <1>1, <1>9, <1>10, <1>18, UnderHistory
<1>21. RecordsFollow'
  <2>1. Under(record, d, log)
    BY <1>10, <1>20 DEF Under, Counted
  <2> QED
    BY <1>5, <1>8, <1>10, <1>11, <1>12, <2>1 DEF RecordsFollow, Serialized
<1>22. CopyRemembers'
  <2>1. /\ \A e \in written : Remembered(Live(d, log), e)
        /\ \A i \in 1 .. Len(record.tail) : Remembered(Live(d, log), record.tail[i])
    <3>1. Live(d, log) \in Seq(Uttered(said)) /\ Ascending(Live(d, log))
      BY <1>1, <1>10, FitFacts DEF CopyFits
    <3> QED
      BY <1>1, <1>9, <1>10, <1>20, <3>1, HistoryRemembers
  <2> QED
    BY <1>5, <1>8, <1>11, <1>12, <2>1 DEF CopyRemembers, Serialized
<1>23. Aligned' /\ RecordStands'
  BY <1>8, <1>9, <1>12 DEF Aligned, RecordStands
<1>24. ImagesStand'
  BY <1>5, <1>8 DEF ImagesStand, Current, Serialized
<1> QED
  BY <1>13, <1>14, <1>15, <1>16, <1>17, <1>19, <1>21, <1>22, <1>23, <1>24

(***************************************************************************)
(* The record write.                                                       *)
(***************************************************************************)

\* What a holder has in memory, as a record: its history is the conversation.
LEMMA OnDiskFacts ==
  ASSUME NEW n \in Nat, NEW c \in CopyForm(n), NEW lines \in Seq(Uttered(n)), CopyFits(c, lines)
  PROVE  /\ OnDisk(c) \in Image(n) /\ Len(OnDisk(c).tail) <= Window /\ OnDisk(c).pointer = c.pointer
         /\ \A i \in 1 .. Len(OnDisk(c).tail) : \E j \in 1 .. Len(c.messages) : OnDisk(c).tail[i] = c.messages[j]
         /\ Under(OnDisk(c), c, lines) /\ History(OnDisk(c), lines) = Live(c, lines)
<1> DEFINE S == Uttered(n)
           m == c.messages
           tail == After(c.messages, c.logged)
<1>1. /\ m \in Seq(S) /\ c.logged \in 0 .. Len(m) /\ Len(m) \in Nat /\ c.pointer \in Nat /\ lines \in Seq(S)
      /\ Len(lines) \in Nat /\ c.logged \in Nat
  BY FitFacts
<1>2. \A s \in Seq(S) : Readable(s) = s
  <2>1. ASSUME NEW s \in Seq(S) PROVE \A i \in DOMAIN s : s[i].id # 0
    BY UtteredFacts
  <2> QED
    BY <2>1 DEF Readable
<1> HIDE DEF S
<1>3. /\ tail \in Seq(S) /\ Len(tail) = Len(m) - c.logged
      /\ \A i \in 1 .. Len(m) - c.logged : tail[i] = m[c.logged + i]
  BY <1>1, AfterFacts
<1>4. \A s \in Seq(S) : After(s, 0) = s
  <2> SUFFICES ASSUME NEW s \in Seq(S) PROVE After(s, 0) = s
    OBVIOUS
  <2>1. <<>> \in Seq(S) /\ <<>> \o s = s /\ Len(<<>>) = 0
    BY EmptySeq, ConcatEmptySeq
  <2>2. After(<<>> \o s, Len(<<>>)) = s
    BY ONLY <2>1, AfterConcat
  <2> QED
    BY <2>1, <2>2
<1>5. OnDisk(c) = [pointer |-> c.pointer, tail |-> tail]
  <2>1. c.pointer = NoPointer => tail = m
    BY <1>1, <1>4 DEF CopyFits
  <2> QED
    BY <2>1 DEF OnDisk
<1>6. OnDisk(c).pointer = c.pointer /\ OnDisk(c).tail = tail
  BY <1>5
<1> HIDE DEF tail, m
<1>7. OnDisk(c) \in Image(n)
  BY <1>1, <1>3, <1>5 DEF Image, S
<1>8. Len(tail) \in Nat /\ Len(tail) <= Window
  <2>1. Len(m) <= Window /\ Window \in Nat
    BY BoundsAssumption DEF CopyFits, m
  <2> QED
    BY <1>1, <1>3, <2>1
<1>9. \A i \in 1 .. Len(tail) : c.logged + i \in 1 .. Len(m) /\ c.logged + i \in c.logged + 1 .. Len(m)
                                /\ (c.logged + i) - c.logged = i /\ i \in Nat
  BY <1>1, <1>3
<1>10. Upto(c.pointer) = Len(Counted(c.pointer, lines))
  BY EmptySeq DEF CopyFits, Counted, Upto
<1>11. Follows(OnDisk(c), Live(c, lines))
  <2>1. /\ Len(Live(c, lines)) = Len(Counted(c.pointer, lines)) + Len(tail)
        /\ Len(Counted(c.pointer, lines)) \in Nat
    <3>1. c.messages \in Seq(S) /\ c.logged \in 0 .. Len(c.messages) /\ lines \in Seq(S)
      BY <1>1 DEF m
    <3>2. /\ Len(Counted(c.pointer, lines)) \in Nat
          /\ Len(Live(c, lines)) = Len(Counted(c.pointer, lines)) + (Len(c.messages) - c.logged)
      BY ONLY <3>1, LiveFacts
    <3> QED
      BY <1>3, <3>2 DEF m
  <2>2. \A j \in c.logged + 1 .. Len(m) : Live(c, lines)[Len(Counted(c.pointer, lines)) + (j - c.logged)] = m[j]
    <3>1. c.messages \in Seq(S) /\ c.logged \in 0 .. Len(c.messages) /\ lines \in Seq(S)
      BY <1>1 DEF m
    <3>2. \A j \in c.logged + 1 .. Len(c.messages) :
            Live(c, lines)[Len(Counted(c.pointer, lines)) + (j - c.logged)] = c.messages[j]
      BY ONLY <3>1, LiveFacts
    <3> QED
      BY <3>2 DEF m
  <2>3. ASSUME NEW i \in 1 .. Len(tail)
        PROVE  /\ Upto(c.pointer) + i <= Len(Live(c, lines))
               /\ Live(c, lines)[Upto(c.pointer) + i] = tail[i]
    <3>1. Upto(c.pointer) + i <= Len(Live(c, lines))
      BY <1>8, <1>10, <2>1
    <3>2. Live(c, lines)[Len(Counted(c.pointer, lines)) + ((c.logged + i) - c.logged)] = m[c.logged + i]
      BY <1>9, <2>2
    <3>3. tail[i] = m[c.logged + i]
      BY <1>3
    <3> QED
      BY <1>9, <1>10, <3>1, <3>2, <3>3
  <2> QED
    BY <1>6, <2>3 DEF Follows
<1>12. History(OnDisk(c), lines) = Live(c, lines)
  <2>1. CASE c.pointer = NoPointer
    <3>1. Live(c, lines) = <<>> \o tail
      BY <2>1 DEF Live, Counted, tail
    <3>2. History(OnDisk(c), lines) = <<>> \o tail
      BY <1>6, <2>1 DEF History, Logged, Inline
    <3> QED
      BY <3>1, <3>2
  <2>2. CASE c.pointer # NoPointer
    <3>1. Unrecorded(OnDisk(c), lines) = <<>>
      <4>1. PICK a \in 0 .. Len(lines) : a = Upto(c.pointer) /\ a = Len(lines)
        BY <1>1, <1>10, <2>2 DEF Counted
      <4>2. After(lines, a) \in Seq(S) /\ Len(After(lines, a)) = 0
        BY <1>1, <4>1, AfterFacts
      <4>3. After(lines, a) = <<>>
        BY <4>2, EmptySeq
      <4>4. Readable(<<>>) = <<>>
        BY <1>2, EmptySeq
      <4> QED
        BY <1>6, <4>1, <4>3, <4>4 DEF Unrecorded
    <3>2. Min({Len(<<>>), Len(tail)}) = 0
      BY <1>8, EmptySeq, OfTwo
    <3>3. Inline(OnDisk(c), lines) = tail
      <4>1. Inline(OnDisk(c), lines) = After(tail, Min({Len(<<>>), Len(tail)}))
        BY <1>6, <2>2, <3>1 DEF Inline
      <4> QED
        BY <1>3, <1>4, <3>2, <4>1
    <3>4. Logged(OnDisk(c), lines) = Counted(c.pointer, lines)
      BY <1>1, <1>2, <1>6, <2>2 DEF Logged, Counted
    <3> QED
      BY <3>3, <3>4 DEF History, Live, tail
  <2> QED
    BY <2>1, <2>2
<1>13. Under(OnDisk(c), c, lines)
  <2>1. Upto(c.pointer) <= Len(Counted(c.pointer, lines))
    <3>1. Len(Counted(c.pointer, lines)) \in Nat
      BY <1>1, EmptySeq DEF Counted
    <3> QED
      BY <1>10, <3>1
  <2> QED
    BY <1>6, <1>11, <2>1 DEF Under
<1>14. \A i \in 1 .. Len(tail) : \E j \in 1 .. Len(m) : tail[i] = m[j]
  BY <1>3, <1>9
<1> QED
  BY <1>6, <1>7, <1>8, <1>12, <1>13, <1>14 DEF m

\* A conversation has its own entries.
LEMMA OwnEntries ==
  ASSUME NEW n \in Nat, NEW t \in Seq(Uttered(n)), Ascending(t), NEW k \in 1 .. Len(t), NEW e, e = t[k]
  PROVE  Remembered(t, e)
<1>1. DOMAIN t = 1 .. Len(t) /\ \A x \in Uttered(n) : x.id \in Nat
  BY UtteredFacts
<1>2. Survives(t, e, Ids(t))
  BY <1>1 DEF Survives, Has
<1>3. ASSUME e.whole, NEW j \in DOMAIN t, t[j].id = e.id PROVE t[j].whole
  <2>1. j = k
    BY <1>1, <1>3, OnePlace
  <2> QED
    BY <1>3, <2>1
<1> QED
  BY <1>2, <1>3 DEF Remembered

\* The record is taken from the copy, under the record lock.
LEMMA SerializeStands ==
  ASSUME LogStands, NEW h \in Holders, NEW w \in LogWrites, Serialize(h, w)
  PROVE  LogStands'
<1> USE DEF LogStands, Orderly, OnDiskStands
<1> DEFINE c == copyOf[h]
           img == OnDisk(copyOf[h])
           t == Live(copyOf[h], log)
<1>1. /\ HoldsCopy(h) /\ CopyFits(c, log) /\ said \in Nat /\ c \in CopyForm(said) /\ log \in Seq(Uttered(said))
      /\ write[h][w] \in WriteForm(said) /\ write[h][w].stage = "unrecorded"
      /\ h # LogOwner => \A v \in LogWrites : v # w => write[h][v] = NoWrite
  BY WriterHolds DEF Serialize
<1>2. \A g \in Holders, v \in LogWrites : ~Serialized(g, v)
  BY DEF OneAtATime, Serialize, NoHolder, Serialized
<1>3. /\ img \in Image(said) /\ Len(img.tail) <= Window /\ img.pointer = c.pointer
      /\ \A i \in 1 .. Len(img.tail) : \E j \in 1 .. Len(c.messages) : img.tail[i] = c.messages[j]
      /\ Under(img, c, log) /\ History(img, log) = t
  BY <1>1, OnDiskFacts
<1>4. PICK q : q = [write[h][w] EXCEPT !.stage = "serialized", !.image = img]
  OBVIOUS
<1> HIDE DEF img
<1>5. q \in WriteForm(said) /\ q.stage = "serialized" /\ q.image = img /\ q.replaced = write[h][w].replaced
  BY <1>1, <1>3, <1>4 DEF WriteForm, Appending
<1>6. write \in [Holders -> [LogWrites -> WriteForm(said)]]
  BY DEF LogShape
<1>7. write' = [write EXCEPT ![h][w] = q]
  <2>1. write' = [write EXCEPT ![h][w].stage = "serialized", ![h][w].image = img]
    BY DEF Serialize, img
  <2> QED
    BY <1>4, <1>6, <2>1
<1>8. /\ write' \in [Holders -> [LogWrites -> WriteForm(said)]]
      /\ write'[h][w] = q
      /\ \A g \in Holders, v \in LogWrites : g # h \/ v # w => write'[g][v] = write[g][v]
  BY <1>5, <1>6, <1>7, OneChanged
<1>9. lock' = <<h, w>> /\ UNCHANGED <<log, record, copyOf, chain, said, talk, written>>
  BY DEF Serialize
<1>10. \A g \in Holders, v \in LogWrites : Serialized(g, v)' <=> g = h /\ v = w
  BY <1>2, <1>5, <1>8 DEF Serialized
<1>11. \A g \in Holders, v \in LogWrites : write'[g][v].replaced = write[g][v].replaced
  BY <1>5, <1>8
<1>12. LogShape'
  BY <1>8, <1>9 DEF LogShape
<1>13. OneHolder'
  <2>1. \A g \in Holders : HoldsCopy(g)' <=> HoldsCopy(g)
    BY <1>9 DEF HoldsCopy
  <2>2. \A g \in Holders : g # h => \A v \in LogWrites : write'[g][v] = write[g][v]
    BY <1>8
  <2> QED
    BY <1>1, <1>9, <2>1, <2>2 DEF OneHolder, Busy
<1>14. OneAtATime'
  <2>1. ASSUME NEW g \in Holders, NEW v \in LogWrites
        PROVE  /\ write'[g][v].stage = "idle" => write'[g][v] = NoWrite
               /\ write'[g][v].stage \in Appending => FirstInChain(g, v)'
               /\ write'[g][v].stage = "serialized" => lock' = <<g, v>>
               /\ g # LogOwner /\ write'[g][v].stage # "idle" =>
                    \A x \in LogWrites : x # v => write'[g][x] = NoWrite
    <3>1. write'[g][v].stage = "serialized" => lock' = <<g, v>>
      BY <1>9, <1>10 DEF Serialized
    <3>2. CASE g = h /\ v = w
      BY <1>1, <1>5, <1>8, <3>1, <3>2 DEF Appending
    <3>3. CASE g # h \/ v # w
      <4>1. write'[g][v] = write[g][v]
        BY <1>8, <3>3
      <4>2. g # LogOwner /\ write[g][v].stage # "idle" => g # h
        <5>1. NoWrite.stage = "idle"
          BY <1>1, Empties
        <5> QED
          BY <1>1, <3>3, <5>1
      <4> QED
        BY <1>8, <1>9, <3>1, <4>1, <4>2 DEF OneAtATime, FirstInChain
    <3> QED
      BY <3>2, <3>3
  <2> QED
    BY <2>1 DEF OneAtATime
<1>15. CopiesFit' /\ StreamsLast'
  BY <1>9 DEF CopiesFit, StreamsLast, HoldsCopy
<1>16. WritesFit'
  <2>1. ASSUME NEW g \in Holders, NEW v \in LogWrites, NEW y, y = write'[g][v] PROVE Fits(g, y)'
    <3>1. CASE g = h /\ v = w
      BY <1>5, <1>8, <2>1, <3>1 DEF Fits, Appending
    <3>2. CASE g # h \/ v # w
      <4>1. Fits(g, y)
        BY <1>8, <2>1, <3>2 DEF WritesFit
      <4> QED
        BY <1>9, <4>1 DEF Fits
    <3> QED
      BY <3>1, <3>2
  <2> QED
    BY <2>1 DEF WritesFit, Fits
<1>17. \A g \in Holders : HoldsCopy(g)' <=> g = h
  BY <1>1, <1>9 DEF HoldsCopy, OneHolder, Busy
<1>18. RecordsFollow'
  <2>1. Steady' <=> Steady
    BY <1>11 DEF Steady
  <2>2. (record.pointer # NoPointer => c.pointer # NoPointer) /\ (Steady => Under(record, c, log))
    BY <1>1 DEF RecordsFollow
  <2>3. write'[h][w].image = img
    BY <1>5, <1>8
  <2> HIDE DEF LogStands, Orderly, OnDiskStands
  <2> QED
    BY <1>3, <1>9, <1>10, <1>17, <2>1, <2>2, <2>3 DEF RecordsFollow
<1>19. t \in Seq(Uttered(said)) /\ Ascending(t) /\ Len(t) \in Nat
  BY <1>1, FitFacts DEF CopyFits
<1>20. \A i \in 1 .. Len(img.tail) : \E k \in 1 .. Len(t) : img.tail[i] = t[k]
  <2>1. \A j \in 1 .. Len(c.messages) : \E k \in 1 .. Len(t) : t[k] = c.messages[j]
    BY <1>1, InConversation
  <2> QED
    BY <1>3, <2>1
<1>21. \A e \in written : Remembered(t, e)
  BY <1>1 DEF CopyRemembers
<1>22. CopyRemembers'
  <2>1. \A i \in 1 .. Len(record.tail) : Remembered(t, record.tail[i])
    BY <1>1 DEF CopyRemembers
  <2>2. \A i \in 1 .. Len(img.tail) : Remembered(t, img.tail[i])
    <3> HIDE DEF t
    <3> QED
      BY <1>1, <1>19, <1>20, OwnEntries
  <2>3. write'[h][w].image = img
    BY <1>5, <1>8
  <2> QED
    BY <1>9, <1>10, <1>17, <1>21, <2>1, <2>2, <2>3 DEF CopyRemembers
<1>23. Aligned' /\ RecordStands'
  <2>1. Steady' <=> Steady
    BY <1>11 DEF Steady
  <2> QED
    BY <1>9, <1>17, <2>1 DEF Aligned, RecordStands
<1>24. ImagesStand'
  <2>1. ASSUME NEW i \in 1 .. Len(img.tail), ~img.tail[i].whole PROVE Whole(img.tail[i].id) \notin written
    <3>1. PICK k \in 1 .. Len(t) : img.tail[i] = t[k]
      BY <1>20
    <3>2. NowhereWhole(img.tail[i].id)
      BY <1>1, <2>1, <3>1, PartOfConversation
    <3> QED
      BY <3>2 DEF NowhereWhole
  <2>2. \A e \in written : Survives(History(img, log), e, Ids(History(img, log)))
    BY <1>3, <1>21 DEF Remembered
  <2>3. write'[h][w].image = img
    BY <1>5, <1>8
  <2>4. \A g \in Holders, v \in LogWrites : Current(g, v)' => g = h /\ v = w
    BY <1>10 DEF Current
  <2> QED
    BY <1>9, <1>10, <2>1, <2>2, <2>3, <2>4 DEF ImagesStand
<1>25. PartsStayParts'
  <2>1. ASSUME NEW n, StaysPart(n) PROVE StaysPart(n)'
    <3>1. NeverWhole(img.tail, n)
      <4>1. NeverWhole(c.messages, n)
        BY <2>1 DEF StaysPart, NowhereWhole
      <4>2. DOMAIN img.tail = 1 .. Len(img.tail) /\ DOMAIN c.messages = 1 .. Len(c.messages)
        BY <1>1, <1>3, Fields, UtteredFacts
      <4> QED
        BY <1>3, <4>1, <4>2 DEF NeverWhole
    <3>2. write'[h][w].image = img
      BY <1>5, <1>8
    <3> QED
      BY <1>9, <1>10, <2>1, <3>1, <3>2 DEF StaysPart, NowhereWhole
  <2> QED
    BY <1>9, <2>1 DEF PartsStayParts
<1> QED
  BY <1>12, <1>13, <1>14, <1>15, <1>16, <1>18, <1>22, <1>23, <1>24, <1>25

\* What the record written is, and who writes it.
LEMMA WrittenFacts ==
  ASSUME LogStands, NEW h \in Holders, NEW w \in LogWrites, Serialized(h, w), NEW img, img = write[h][w].image
  PROVE  /\ HoldsCopy(h) /\ CopyFits(copyOf[h], log) /\ said \in Nat /\ copyOf[h] \in CopyForm(said)
         /\ log \in Seq(Uttered(said))
         /\ img \in Image(said) /\ Len(img.tail) <= Window /\ (img.pointer # NoPointer => copyOf[h].pointer # NoPointer)
         /\ Current(h, w) => Under(img, copyOf[h], log)
         /\ History(img, log) \in Seq(Uttered(said))
         /\ DOMAIN History(img, log) = 1 .. Len(History(img, log))
         /\ \A g \in Holders, v \in LogWrites : Serialized(g, v) => g = h /\ v = w
<1> USE DEF LogStands, Orderly, OnDiskStands
<1>1. /\ HoldsCopy(h) /\ CopyFits(copyOf[h], log) /\ said \in Nat /\ copyOf[h] \in CopyForm(said)
      /\ log \in Seq(Uttered(said)) /\ write[h][w] \in WriteForm(said)
  BY WriterHolds DEF Serialized
<1>2. img \in Image(said)
  BY <1>1, Fields
<1>3. /\ Len(img.tail) <= Window /\ (img.pointer # NoPointer => copyOf[h].pointer # NoPointer)
      /\ Current(h, w) => Under(img, copyOf[h], log)
  BY <1>1 DEF RecordsFollow
<1>4. History(img, log) \in Seq(Uttered(said))
  BY <1>1, <1>2, HistoryElements
<1>5. DOMAIN History(img, log) = 1 .. Len(History(img, log))
  BY <1>1, <1>4, UtteredFacts
<1>6. \A g \in Holders, v \in LogWrites : Serialized(g, v) => lock = <<g, v>>
  BY DEF OneAtATime, Serialized
<1>7. \A g \in Holders, v \in LogWrites : Serialized(g, v) => g = h /\ v = w
  BY <1>6
<1> QED
  BY <1>1, <1>2, <1>3, <1>4, <1>5, <1>7

\* Nothing it puts on disk is whole that is in the log in part.
LEMMA WrittenParts ==
  ASSUME LogStands, NEW h \in Holders, NEW w \in LogWrites, Serialized(h, w), NEW img, img = write[h][w].image,
         NEW i \in DOMAIN log, ~log[i].whole, NEW n, n = log[i].id
  PROVE  NeverWhole(img.tail, n) /\ Whole(n) \notin written \cup ToSet(History(img, log))
<1> USE DEF LogStands, Orderly, OnDiskStands
<1>1. /\ HoldsCopy(h) /\ CopyFits(copyOf[h], log) /\ said \in Nat /\ copyOf[h] \in CopyForm(said)
      /\ log \in Seq(Uttered(said)) /\ img \in Image(said)
      /\ (img.pointer # NoPointer => copyOf[h].pointer # NoPointer)
      /\ DOMAIN History(img, log) = 1 .. Len(History(img, log))
  BY WrittenFacts
<1>2. NowhereWhole(n)
  BY DEF PartsStayParts, StaysPart
<1>3. NeverWhole(img.tail, n) /\ Whole(n) \notin written
  BY <1>2 DEF NowhereWhole
<1>4. Whole(n).id = n /\ Whole(n).whole
  BY DEF Whole
<1>5. ASSUME NEW k \in 1 .. Len(History(img, log)), History(img, log)[k] = Whole(n) PROVE FALSE
  <2>1. CASE img.pointer # NoPointer /\ \E x \in 1 .. Len(log) : History(img, log)[k] = log[x]
    <3>1. PICK x \in 1 .. Len(log) : log[x] = Whole(n)
      BY <1>5, <2>1
    <3>2. Ascending(log)
      BY <1>1, <2>1, LinesInConversation
    <3>3. /\ \A y \in Uttered(said) : y.id \in Nat
          /\ i \in 1 .. Len(log)
      BY <1>1, UtteredFacts
    <3>4. x = i
      BY <1>1, <1>4, <3>1, <3>2, <3>3, OnePlace
    <3> QED
      BY <1>4, <3>1, <3>4
  <2>2. CASE \E x \in 1 .. Len(img.tail) : History(img, log)[k] = img.tail[x]
    <3>1. DOMAIN img.tail = 1 .. Len(img.tail)
      BY <1>1, Fields, UtteredFacts
    <3> QED
      BY <1>3, <1>4, <1>5, <2>2, <3>1 DEF NeverWhole
  <2> QED
    BY <1>1, <2>1, <2>2, HistoryElements
<1>6. Whole(n) \notin ToSet(History(img, log))
  BY <1>1, <1>5 DEF ToSet
<1> QED
  BY <1>3, <1>6

\* What it puts on disk is in the conversation.
LEMMA WrittenRemembered ==
  ASSUME LogStands, NEW h \in Holders, NEW w \in LogWrites, Serialized(h, w), NEW img, img = write[h][w].image
  PROVE  \A e \in written \cup ToSet(History(img, log)) : Remembered(Live(copyOf[h], log), e)
<1> USE DEF LogStands, Orderly, OnDiskStands
<1> DEFINE t == Live(copyOf[h], log)
<1>1. /\ HoldsCopy(h) /\ CopyFits(copyOf[h], log) /\ said \in Nat /\ copyOf[h] \in CopyForm(said)
      /\ log \in Seq(Uttered(said)) /\ img \in Image(said)
      /\ (img.pointer # NoPointer => copyOf[h].pointer # NoPointer)
      /\ DOMAIN History(img, log) = 1 .. Len(History(img, log))
  BY WrittenFacts
<1>2. t \in Seq(Uttered(said)) /\ Ascending(t) /\ Len(t) \in Nat
  BY <1>1, FitFacts DEF CopyFits
<1>3. \A e \in written : Remembered(t, e)
  BY <1>1 DEF CopyRemembers
<1>4. ASSUME NEW k \in 1 .. Len(History(img, log)), NEW e, e = History(img, log)[k] PROVE Remembered(t, e)
  <2>1. CASE img.pointer # NoPointer /\ \E x \in 1 .. Len(log) : History(img, log)[k] = log[x]
    <3>1. PICK x \in 1 .. Len(log) : e = log[x]
      BY <1>4, <2>1
    <3>2. Len(log) <= Len(t) /\ t[x] = log[x]
      BY <1>1, <2>1, LinesInConversation
    <3>3. x \in 1 .. Len(t)
      <4>1. Len(log) \in Nat
        BY <1>1, UtteredFacts
      <4> QED
        BY <1>2, <3>2, <4>1
    <3> HIDE DEF t
    <3> QED
      BY <1>1, <1>2, <3>1, <3>2, <3>3, OwnEntries
  <2>2. CASE \E x \in 1 .. Len(img.tail) : History(img, log)[k] = img.tail[x]
    BY <1>1, <1>4, <2>2 DEF CopyRemembers
  <2> QED
    BY <1>1, <2>1, <2>2, HistoryElements
<1>5. \A e \in ToSet(History(img, log)) : Remembered(t, e)
  BY <1>1, <1>4 DEF ToSet
<1> QED
  BY <1>3, <1>5

\* The history of the record just written has all that was written so far.
LEMMA WrittenStands ==
  ASSUME LogStands, NEW h \in Holders, NEW w \in LogWrites, Current(h, w), NEW img, img = write[h][w].image
  PROVE  Resumes(img, log) /\ Stands(History(img, log), written \cup ToSet(History(img, log)))
<1> USE DEF LogStands, Orderly, OnDiskStands
<1> DEFINE told == History(img, log)
           entries == written \cup ToSet(History(img, log))
<1>1. Serialized(h, w)
  BY DEF Current
<1>2. /\ CopyFits(copyOf[h], log) /\ said \in Nat /\ copyOf[h] \in CopyForm(said)
      /\ log \in Seq(Uttered(said)) /\ img \in Image(said)
      /\ (img.pointer # NoPointer => copyOf[h].pointer # NoPointer) /\ Under(img, copyOf[h], log)
      /\ told \in Seq(Uttered(said)) /\ DOMAIN told = 1 .. Len(told)
  BY <1>1, WrittenFacts
<1>3. Resumes(img, log) /\ Ascending(told)
  <2>1. Resumes(img, log)
    BY <1>2, RecordBehind
  <2> QED
    BY <2>1 DEF Resumes
<1>4. ToSet(told) = {told[k] : k \in DOMAIN told}
  BY DEF ToSet
<1>7. \A k \in DOMAIN told :
        \/ img.pointer # NoPointer /\ \E x \in 1 .. Len(log) : told[k] = log[x]
        \/ \E x \in 1 .. Len(img.tail) : told[k] = img.tail[x]
  BY <1>2, HistoryElements
<1>5. ASSUME NEW e \in entries PROVE Survives(told, e, Ids(told) \cap {x.id : x \in entries})
  <2>1. Ids(told) \cap {x.id : x \in entries} = Ids(told)
    BY <1>4 DEF Ids
  <2>2. CASE e \in written
    <3>1. Survives(told, e, Ids(told))
      BY <2>2 DEF ImagesStand
    <3> QED
      BY <2>1, <3>1
  <2>3. CASE e \in ToSet(told)
    BY <1>4, <2>3 DEF Survives, Has
  <2> QED
    BY <2>2, <2>3
<1>6. ASSUME NEW k \in DOMAIN told, ~told[k].whole PROVE Whole(told[k].id) \notin entries
  <2>1. Whole(told[k].id).id = told[k].id /\ Whole(told[k].id).whole
    BY DEF Whole
  <2>2. Whole(told[k].id) \notin ToSet(told)
    <3>1. ASSUME NEW j \in DOMAIN told, told[j] = Whole(told[k].id) PROVE FALSE
      <4>1. \A x \in Uttered(said) : x.id \in Nat
        BY <1>2, UtteredFacts
      <4> HIDE DEF told
      <4>2. j = k
        BY <1>2, <1>3, <2>1, <3>1, <4>1, OnePlace
      <4> QED
        BY <1>6, <2>1, <3>1, <4>2
    <3> QED
      BY <1>4, <3>1
  <2>3. Whole(told[k].id) \notin written
    <3>1. CASE img.pointer # NoPointer /\ \E x \in 1 .. Len(log) : told[k] = log[x]
      <4>1. PICK x \in DOMAIN log : told[k] = log[x]
        <5>1. DOMAIN log = 1 .. Len(log)
          BY <1>2, UtteredFacts
        <5> QED
          BY <3>1, <5>1
      <4> QED
        BY <1>6, <4>1 DEF PartsStayParts, StaysPart, NowhereWhole
    <3>2. CASE \E x \in 1 .. Len(img.tail) : told[k] = img.tail[x]
      BY <1>1, <1>6, <3>2 DEF ImagesStand
    <3> QED
      BY <1>7, <3>1, <3>2
  <2> QED
    BY <2>2, <2>3
<1> QED
  BY <1>3, <1>5, <1>6 DEF Stands

\* What a rename leaves: the record written, its write over, and parts that are parts.
LEMMA RenameLeaves ==
  ASSUME LogStands, NEW h \in Holders, NEW w \in LogWrites, Rename(h, w)
  PROVE  /\ Serialized(h, w) /\ record' = write[h][w].image
         /\ written' = written \cup ToSet(History(write[h][w].image, log))
         /\ write' \in [Holders -> [LogWrites -> WriteForm(said)]] /\ write'[h][w] = NoWrite
         /\ \A g \in Holders, v \in LogWrites : g # h \/ v # w => write'[g][v] = write[g][v]
         /\ \A g \in Holders : g # h => copyOf'[g] = copyOf[g]
         /\ copyOf'[h] = IF h = LogOwner THEN copyOf[h] ELSE Over
         /\ \A g \in Holders, v \in LogWrites : ~Serialized(g, v)'
         /\ LogShape' /\ PartsStayParts'
<1> USE DEF LogStands, Orderly, OnDiskStands
<1>1. /\ Serialized(h, w) /\ record' = write[h][w].image /\ UNCHANGED <<log, chain, said, talk>>
      /\ write' = [write EXCEPT ![h][w] = NoWrite]
      /\ copyOf' = IF h = LogOwner THEN copyOf ELSE [copyOf EXCEPT ![h] = Over]
  BY DEF Rename, Serialized
<1>2. PICK img : img = write[h][w].image
  OBVIOUS
<1>3. written' = written \cup ToSet(History(img, log))
  BY <1>1, <1>2 DEF Rename
<1>4. /\ said \in Nat /\ img \in Image(said) /\ Len(img.tail) <= Window
      /\ History(img, log) \in Seq(Uttered(said)) /\ DOMAIN History(img, log) = 1 .. Len(History(img, log))
      /\ \A g \in Holders, v \in LogWrites : Serialized(g, v) => g = h /\ v = w
  BY <1>1, <1>2, WrittenFacts
<1>5. /\ NoWrite \in WriteForm(said) /\ NoWrite.stage = "idle" /\ NoWrite.stage # "serialized"
      /\ Over \in CopyForm(said) /\ Over.messages = <<>>
  BY <1>4, Empties
<1>6. /\ write' \in [Holders -> [LogWrites -> WriteForm(said)]] /\ write'[h][w] = NoWrite
      /\ \A g \in Holders, v \in LogWrites : g # h \/ v # w => write'[g][v] = write[g][v]
  <2>1. write \in [Holders -> [LogWrites -> WriteForm(said)]]
    BY DEF LogShape
  <2> QED
    BY <1>1, <1>5, <2>1, OneChanged
<1>7. copyOf \in [Holders -> CopyForm(said)]
  BY DEF LogShape
<1>8. /\ copyOf' \in [Holders -> CopyForm(said)]
      /\ copyOf'[h] = (IF h = LogOwner THEN copyOf[h] ELSE Over)
      /\ \A g \in Holders : g # h => copyOf'[g] = copyOf[g]
  <2>1. CASE h = LogOwner
    BY <1>1, <1>7, <2>1
  <2>2. CASE h # LogOwner
    BY <1>1, <1>5, <1>7, <2>2
  <2> QED
    BY <2>1, <2>2
<1>9. \A g \in Holders, v \in LogWrites : ~Serialized(g, v)'
  BY <1>4, <1>5, <1>6 DEF Serialized
<1>10. LogShape'
  <2>1. ToSet(History(img, log)) \subseteq Uttered(said)
    <3>1. \A k \in DOMAIN History(img, log) : History(img, log)[k] \in Uttered(said)
      BY <1>4, UtteredFacts
    <3> QED
      BY <3>1 DEF ToSet
  <2> QED
    BY <1>1, <1>2, <1>3, <1>4, <1>6, <1>8, <2>1 DEF LogShape
<1>11. PartsStayParts'
  <2>1. ASSUME NEW i \in DOMAIN log, ~log[i].whole, NEW n, n = log[i].id PROVE StaysPart(n)'
    <3>1. StaysPart(n)
      BY <2>1 DEF PartsStayParts
    <3>2. NeverWhole(img.tail, n) /\ Whole(n) \notin written'
      BY <1>1, <1>2, <1>3, <2>1, WrittenParts
    <3>3. \A g \in Holders : NeverWhole(copyOf'[g].messages, n)
      <4>1. NeverWhole(<<>>, n)
        <5>1. DOMAIN <<>> = {}
          OBVIOUS
        <5> QED
          BY <5>1 DEF NeverWhole
      <4> QED
        BY <1>5, <1>8, <3>1, <4>1 DEF StaysPart, NowhereWhole
    <3> QED
      BY <1>1, <1>2, <1>9, <3>1, <3>2, <3>3 DEF StaysPart, NowhereWhole
  <2> QED
    BY <1>1, <2>1 DEF PartsStayParts
<1> QED
  BY <1>1, <1>2, <1>3, <1>6, <1>8, <1>9, <1>10, <1>11

\* The record is in place.  A process that closes the session is done with it.
LEMMA RenameStands ==
  ASSUME LogStands, NEW h \in Holders, NEW w \in LogWrites, Rename(h, w)
  PROVE  LogStands'
<1> USE DEF LogStands, Orderly, OnDiskStands
<1>1. PICK img : img = write[h][w].image
  OBVIOUS
<1>2. /\ Serialized(h, w) /\ record' = img
      /\ written' = written \cup ToSet(History(img, log))
      /\ write'[h][w] = NoWrite
      /\ \A g \in Holders, v \in LogWrites : g # h \/ v # w => write'[g][v] = write[g][v]
      /\ \A g \in Holders : g # h => copyOf'[g] = copyOf[g]
      /\ copyOf'[h] = IF h = LogOwner THEN copyOf[h] ELSE Over
      /\ \A g \in Holders, v \in LogWrites : ~Serialized(g, v)'
      /\ LogShape' /\ PartsStayParts'
  BY <1>1, RenameLeaves
<1>3. UNCHANGED <<log, chain, said, talk>>
  BY DEF Rename
<1>4. /\ HoldsCopy(h) /\ CopyFits(copyOf[h], log) /\ said \in Nat /\ copyOf[h] \in CopyForm(said)
      /\ (img.pointer # NoPointer => copyOf[h].pointer # NoPointer)
      /\ Current(h, w) => Under(img, copyOf[h], log)
  BY <1>1, <1>2, WrittenFacts
<1>5. /\ NoWrite.stage = "idle" /\ NoWrite.replaced = FALSE /\ "idle" \notin Appending
      /\ Over.stage = "over" /\ Over.messages = <<>>
  BY <1>4, Empties DEF Appending
<1>6. \A g \in Holders : g # h => /\ ~HoldsCopy(g) /\ ~Busy(g) /\ copyOf[g].messages = <<>>
                                  /\ \A v \in LogWrites : write[g][v] = NoWrite
  BY <1>4 DEF OneHolder, Busy, HoldsCopy
<1>7. Current(h, w) => Resumes(img, log) /\ Stands(History(img, log), written')
  BY <1>1, <1>2, WrittenStands
<1>8. CASE h # LogOwner
  <2>1. \A v \in LogWrites : v # w => write[h][v] = NoWrite
    BY <1>2, <1>8 DEF OneAtATime, Serialized
  <2>2. Current(h, w)
    BY <1>2, <1>5, <2>1 DEF Current
  <2>3. \A g \in Holders, v \in LogWrites : write'[g][v] = NoWrite
    BY <1>2, <1>6, <2>1
  <2>4. \A g \in Holders : ~HoldsCopy(g)' /\ ~Busy(g)' /\ copyOf'[g].messages = <<>>
    BY <1>2, <1>5, <1>6, <1>8 DEF HoldsCopy, Busy
  <2>5. talk' = "none"
    BY <1>3, <1>6, <1>8, OwnerAssumption DEF StreamsLast
  <2>6. Resumes(record, log)' /\ Stands(History(record, log), written)'
    BY <1>2, <1>3, <1>7, <2>2
  <2>7. \A g \in Holders : copyOf'[g].stage # "reading"
    BY <2>4 DEF Busy
  <2> HIDE DEF LogStands, Orderly, OnDiskStands
  <2> QED
    BY <1>2, <2>3, <2>4, <2>5, <2>6, <2>7, NobodyStands
<1>9. CASE h = LogOwner
  <2>1. copyOf'[h] = copyOf[h] /\ \A g \in Holders : copyOf'[g] = copyOf[g]
    BY <1>2, <1>9
  <2>2. \A g \in Holders : (HoldsCopy(g)' <=> g = h) /\ (Busy(g)' <=> g = h)
    BY <1>4, <1>6, <2>1 DEF HoldsCopy, Busy
  <2>3. Steady' => Current(h, w)
    BY <1>2 DEF Steady, Current
  <2>4. OneHolder'
    <3>1. \A g \in Holders : copyOf'[g].stage # "reading"
      BY <1>4, <1>6, <2>1 DEF HoldsCopy, Busy
    <3>2. \A g \in Holders : g # h => \A v \in LogWrites : write'[g][v] = NoWrite
      BY <1>2, <1>6
    <3> QED
      BY <1>6, <2>1, <2>2, <3>1, <3>2 DEF OneHolder
  <2>5. OneAtATime'
    <3>1. ASSUME NEW g \in Holders, NEW v \in LogWrites
          PROVE  /\ write'[g][v].stage = "idle" => write'[g][v] = NoWrite
                 /\ write'[g][v].stage \in Appending => FirstInChain(g, v)'
                 /\ write'[g][v].stage # "serialized"
                 /\ g # LogOwner => \A x \in LogWrites : write'[g][x] = NoWrite
      <4>1. write'[g][v].stage # "serialized"
        BY <1>2 DEF Serialized
      <4>2. g # LogOwner => \A x \in LogWrites : write'[g][x] = NoWrite
        BY <1>2, <1>6, <1>9
      <4>3. CASE g = h /\ v = w
        BY <1>2, <1>5, <4>1, <4>2, <4>3
      <4>4. CASE g # h \/ v # w
        <5>1. write'[g][v] = write[g][v]
          BY <1>2, <4>4
        <5> QED
          BY <1>3, <4>1, <4>2, <5>1 DEF OneAtATime, FirstInChain
      <4> QED
        BY <4>3, <4>4
    <3> QED
      BY <3>1 DEF OneAtATime
  <2>6. CopiesFit' /\ StreamsLast'
    BY <1>3, <1>4, <1>9, <2>1, <2>2 DEF CopiesFit, StreamsLast
  <2>7. WritesFit'
    <3>1. ASSUME NEW g \in Holders, NEW v \in LogWrites, NEW y, y = write'[g][v] PROVE Fits(g, y)'
      <4>1. CASE g = h /\ v = w
        BY <1>2, <1>5, <3>1, <4>1 DEF Fits, Appending
      <4>2. CASE g # h \/ v # w
        <5>1. Fits(g, y)
          BY <1>2, <3>1, <4>2 DEF WritesFit
        <5> QED
          BY <1>3, <2>1, <5>1 DEF Fits
      <4> QED
        BY <4>1, <4>2
    <3> QED
      BY <3>1 DEF WritesFit, Fits
  <2>8. RecordsFollow'
    BY <1>2, <1>3, <1>4, <2>1, <2>2, <2>3 DEF RecordsFollow
  <2>9. CopyRemembers'
    <3>1. \A e \in written' : Remembered(Live(copyOf[h], log), e)
      BY <1>1, <1>2, WrittenRemembered
    <3>2. \A i \in 1 .. Len(img.tail) : Remembered(Live(copyOf[h], log), img.tail[i])
      BY <1>1, <1>2, <1>4 DEF CopyRemembers
    <3> QED
      BY <1>2, <1>3, <2>1, <2>2, <3>1, <3>2 DEF CopyRemembers
  <2>10. Aligned' /\ RecordStands'
    BY <1>2, <1>3, <1>4, <1>7, <2>2, <2>3 DEF Aligned, RecordStands
  <2>11. ImagesStand'
    BY <1>2 DEF ImagesStand, Current
  <2> QED
    BY <1>2, <2>4, <2>5, <2>6, <2>7, <2>8, <2>9, <2>10, <2>11
<1> QED
  BY <1>8, <1>9

(***************************************************************************)
(* The compaction.                                                         *)
(***************************************************************************)

\* An ascending sequence has as many numbers as entries.
LEMMA AsManyIds ==
  ASSUME NEW n \in Nat, NEW s \in Seq(Uttered(n)), \A i, j \in 1 .. Len(s) : i < j => s[i].id < s[j].id
  PROVE  /\ IsFiniteSet(Ids(s)) /\ Cardinality(Ids(s)) \in Nat /\ Len(s) <= Cardinality(Ids(s))
<1>1. /\ Len(s) \in Nat /\ DOMAIN s = 1 .. Len(s) /\ Ids(s) \subseteq 1 .. n
      /\ \A i \in 1 .. Len(s) : s[i].id \in Nat
  BY UtteredFacts
<1>2. IsFiniteSet(Ids(s)) /\ Cardinality(Ids(s)) \in Nat
  BY <1>1, PartOfBound
<1>3. PICK f : f = [i \in 1 .. Len(s) |-> s[i].id]
  OBVIOUS
<1>4. f \in [1 .. Len(s) -> Ids(s)]
  BY <1>1, <1>3 DEF Ids
<1>5. ASSUME NEW i \in 1 .. Len(s), NEW j \in 1 .. Len(s), f[i] = f[j] PROVE i = j
  <2>1. s[i].id = s[j].id /\ s[i].id \in Nat
    BY <1>1, <1>3, <1>5
  <2>2. ~(i < j) /\ ~(j < i)
    BY <2>1
  <2> QED
    BY <1>1, <2>2
<1>6. f \in Injection(1 .. Len(s), Ids(s))
  BY <1>4, <1>5 DEF Injection, IsInjective
<1>7. Cardinality(1 .. Len(s)) <= Cardinality(Ids(s)) /\ Cardinality(1 .. Len(s)) = Len(s)
  BY <1>1, <1>2, <1>6, FS_Injection, UpToBound
<1> QED
  BY <1>2, <1>7

\* The window that a compaction keeps has what the conversation has, or a window of later entries.
LEMMA WindowRemembers ==
  ASSUME NEW n \in Nat, NEW c \in CopyForm(n), NEW lines \in Seq(Uttered(n)), CopyFits(c, lines),
         NEW e, e.id \in Nat, Remembered(Live(c, lines), e)
  PROVE  Remembered(c.messages, e)
<1> DEFINE m == c.messages
           t == Live(c, lines)
<1>1. /\ m \in Seq(Uttered(n)) /\ Len(m) \in Nat /\ DOMAIN m = 1 .. Len(m) /\ Ids(m) \subseteq 1 .. n
      /\ t \in Seq(Uttered(n)) /\ Len(t) \in Nat /\ DOMAIN t = 1 .. Len(t)
      /\ \A i \in 1 .. Len(m) : m[i].id \in Nat
      /\ \A i \in 1 .. Len(t) : t[i].id \in Nat
      /\ Ascending(t)
  <2>1. m \in Seq(Uttered(n)) /\ t \in Seq(Uttered(n))
    BY FitFacts
  <2>2. Ascending(t)
    BY DEF CopyFits
  <2> QED
    BY <2>1, <2>2, UtteredFacts
<1>2. /\ Len(m) <= Len(t) /\ Len(t) - Len(m) = Len(Counted(c.pointer, lines)) - c.logged
      /\ \A j \in 1 .. Len(m) : m[j] = t[(Len(t) - Len(m)) + j]
  BY MessagesEnd
<1>3. \A i, j \in 1 .. Len(m) : i < j => m[i].id < m[j].id
  BY InConversation
<1>4. Len(m) < Len(t) => Len(m) = Window
  <2>1. CASE c.pointer = NoPointer
    <3>1. c.logged = 0 /\ Len(Counted(c.pointer, lines)) = 0
      BY <2>1, EmptySeq DEF CopyFits, Counted
    <3>2. Len(t) - Len(m) = 0
      BY <1>2, <3>1
    <3> QED
      BY <1>1, <3>2
  <2>2. CASE c.pointer # NoPointer
    <3>1. /\ Counted(c.pointer, lines) = lines /\ (c.logged < Len(lines) => Len(m) = Window)
          /\ c.logged \in Nat /\ Len(lines) \in Nat
      BY <2>2, FitFacts DEF CopyFits, Counted
    <3>2. PICK a \in Nat, b \in Nat : a = c.logged /\ b = Len(lines) /\ Len(t) - Len(m) = b - a
      BY <1>2, <3>1
    <3>3. Len(m) < Len(t) => a < b
      BY <1>1, <3>2
    <3> QED
      BY <3>1, <3>2, <3>3
  <2> QED
    BY <2>1, <2>2
<1> HIDE DEF m, t
<1>5. PICK skip \in Nat : skip + Len(m) = Len(t) /\ (skip > 0 => Len(m) = Window)
                          /\ \A j \in 1 .. Len(m) : skip + j \in 1 .. Len(t) /\ m[j] = t[skip + j]
  <2>1. Len(t) - Len(m) \in Nat /\ (Len(t) - Len(m)) + Len(m) = Len(t)
        /\ \A j \in 1 .. Len(m) : (Len(t) - Len(m)) + j \in 1 .. Len(t)
    BY <1>1, <1>2
  <2>2. Len(t) - Len(m) > 0 => Len(m) = Window
    BY <1>1, <1>4
  <2> QED
    BY <1>2, <2>1, <2>2
<1>6. ASSUME e.whole, NEW k \in DOMAIN m, m[k].id = e.id PROVE m[k].whole
  <2>1. skip + k \in DOMAIN t /\ m[k] = t[skip + k]
    BY <1>1, <1>5
  <2> QED
    BY <1>6, <2>1 DEF Remembered, t
<1>7. Survives(t, e, Ids(t))
  BY DEF Remembered, t
\* Whatever comes after an entry of the window is in the window.
<1>8. ASSUME NEW j \in 1 .. Len(m), m[j].id <= e.id, NEW k \in 1 .. Len(t), t[k].id >= e.id
      PROVE  \E i \in 1 .. Len(m) : t[k] = m[i]
  <2>1. m[j].id = t[skip + j].id /\ skip + j \in 1 .. Len(t)
    BY <1>5
  <2>2. ~(k < skip + j)
    <3>1. k < skip + j => t[k].id < t[skip + j].id
      BY <1>1, <2>1 DEF Ascending
    <3>2. t[k].id \in Nat /\ t[skip + j].id \in Nat /\ t[skip + j].id <= e.id
      BY <1>1, <1>8, <2>1
    <3> QED
      BY <1>8, <3>1, <3>2
  <2>3. PICK i \in 1 .. Len(m) : k = skip + i
    <3>1. k - skip \in 1 .. Len(m) /\ k = skip + (k - skip)
      BY <1>1, <1>5, <2>2
    <3> QED
      BY <3>1
  <2> QED
    BY <1>5, <2>3
<1>9. CASE \E j \in 1 .. Len(m) : m[j].id <= e.id
  <2>1. PICK j \in 1 .. Len(m) : m[j].id <= e.id
    BY <1>9
  <2>2. CASE Has(t, e)
    <3>1. PICK k \in 1 .. Len(t) : t[k].id = e.id /\ (e.whole => t[k].whole)
      BY <1>1, <2>2 DEF Has
    <3>2. PICK i \in 1 .. Len(m) : t[k] = m[i]
      BY <1>8, <2>1, <3>1
    <3>3. Has(m, e)
      BY <1>1, <3>1, <3>2 DEF Has
    <3> QED
      BY <1>6, <3>3 DEF Remembered, Survives, m
  <2>3. CASE ~Has(t, e)
    <3> DEFINE few == {x \in Ids(t) : x > e.id}
               many == {x \in Ids(m) : x > e.id}
    <3>1. Cardinality(few) >= Window
      BY <1>7, <2>3 DEF Survives
    <3>2. few \subseteq many
      <4> SUFFICES ASSUME NEW x \in Ids(t), x > e.id PROVE x \in Ids(m)
        OBVIOUS
      <4>1. PICK k \in 1 .. Len(t) : x = t[k].id
        BY <1>1 DEF Ids
      <4>2. t[k].id >= e.id
        BY <1>1, <4>1
      <4>3. PICK i \in 1 .. Len(m) : t[k] = m[i]
        BY <1>8, <2>1, <4>2
      <4> QED
        BY <1>1, <4>1, <4>3 DEF Ids
    <3>3. many \subseteq 1 .. n
      BY <1>1
    <3> HIDE DEF few, many
    <3>4. IsFiniteSet(many) /\ Cardinality(many) \in Nat
      <4>1. IsFiniteSet(many) /\ Cardinality(many) \in 0 .. n
        BY ONLY <3>3, n \in Nat, PartOfBound
      <4> QED
        BY <4>1
    <3>5. Cardinality(few) <= Cardinality(many) /\ IsFiniteSet(few)
      BY <3>2, <3>4, FS_Subset
    <3>6. Cardinality(few) \in Nat /\ Window \in Nat
      BY <3>5, FS_CardinalityType, BoundsAssumption
    <3>7. Cardinality(many) >= Window
      BY <3>1, <3>4, <3>5, <3>6
    <3> QED
      BY <1>6, <3>7 DEF Remembered, Survives, many, m
  <2> QED
    BY <2>2, <2>3
<1>10. CASE \A j \in 1 .. Len(m) : ~(m[j].id <= e.id)
  <2>1. CASE skip = 0
    <3>0. Len(t) = Len(m)
      <4>1. skip + Len(m) = Len(t) /\ Len(m) \in Nat /\ Len(t) \in Nat
        BY ONLY <1>1, <1>5
      <4> QED
        BY ONLY <2>1, <4>1
    <3>1. \A i \in 1 .. Len(t) : i \in 1 .. Len(m) /\ t[i] = m[i]
      <4>1. 1 .. Len(t) = 1 .. Len(m)
        BY <3>0
      <4>2. \A i \in 1 .. Len(m) : skip + i = i
        BY <1>1, <2>1
      <4> QED
        BY <1>5, <4>1, <4>2
    <3>2. ~Has(t, e)
      <4>1. \A i \in 1 .. Len(t) : t[i].id # e.id
        BY <1>1, <1>10, <3>1
      <4> QED
        BY <1>1, <4>1 DEF Has
    <3>4. Ids(t) = Ids(m)
      BY <1>1, <3>0, <3>1 DEF Ids
    <3>5. Survives(m, e, Ids(m))
      BY <1>7, <3>2, <3>4 DEF Survives
    <3> QED
      BY <1>6, <3>5 DEF Remembered, m
  <2>2. CASE skip # 0
    <3>1. Len(m) = Window
      BY <1>5, <2>2
    <3>2. {x \in Ids(m) : x > e.id} = Ids(m)
      <4>1. \A i \in 1 .. Len(m) : m[i].id > e.id
        BY <1>1, <1>10
      <4> QED
        BY <1>1, <4>1 DEF Ids
    <3>3. Len(m) <= Cardinality(Ids(m)) /\ Cardinality(Ids(m)) \in Nat
      BY <1>1, <1>3, AsManyIds
    <3>4. Cardinality(Ids(m)) >= Window
      BY <1>1, <3>1, <3>3
    <3>5. Survives(m, e, Ids(m))
      BY <3>2, <3>4 DEF Survives
    <3> QED
      BY <1>6, <3>5 DEF Remembered, m
  <2> QED
    BY <2>1, <2>2
<1> QED
  BY <1>9, <1>10


\* The copy after a compaction.
Compacted(c) == [c EXCEPT !.logged = Len(c.messages), !.pointer = PointerAt(Len(c.messages))]

\* The log is its window.
LEMMA CompactedFacts ==
  ASSUME NEW n \in Nat, NEW c \in CopyForm(n), NEW lines \in Seq(Uttered(n)), CopyFits(c, lines),
         NEW kept, kept = c.messages, NEW d, d = Compacted(c)
  PROVE  /\ kept \in Seq(Uttered(n)) /\ d \in CopyForm(n) /\ d.stage = c.stage /\ d.messages = c.messages
         /\ d.pointer # NoPointer /\ d.pointer \in Nat /\ Upto(d.pointer) = Len(kept)
         /\ Counted(d.pointer, kept) = kept /\ Live(d, kept) = kept /\ CopyFits(d, kept)
<1>1. /\ kept \in Seq(Uttered(n)) /\ Len(kept) \in Nat /\ Len(kept) <= Window /\ DOMAIN kept = 1 .. Len(kept)
  BY FitFacts, UtteredFacts DEF CopyFits
<1>2. \A i, j \in 1 .. Len(kept) : i < j => kept[i].id < kept[j].id
  BY InConversation
<1>3. PICK p \in Nat : p = PointerAt(Len(kept)) /\ p # NoPointer /\ Upto(p) = Len(kept)
  BY <1>1 DEF PointerAt, Upto, NoPointer
<1>4. /\ d \in CopyForm(n) /\ d.stage = c.stage /\ d.messages = kept /\ d.logged = Len(kept) /\ d.pointer = p
  <2>1. \A k \in Nat : LET e == [c EXCEPT !.logged = k, !.pointer = p]
                       IN  /\ e \in CopyForm(n) /\ e.stage = c.stage /\ e.messages = kept
                           /\ e.logged = k /\ e.pointer = p
    BY <1>1 DEF CopyForm
  <2> QED
    BY <1>1, <1>3, <2>1 DEF Compacted
<1>5. Live(d, kept) = kept
  <2>1. After(kept, Len(kept)) \in Seq(Uttered(n)) /\ Len(After(kept, Len(kept))) = 0
    <3>1. Len(kept) \in 0 .. Len(kept) /\ Len(kept) - Len(kept) = 0
      BY <1>1
    <3>2. Len(After(kept, Len(kept))) = Len(kept) - Len(kept) /\ After(kept, Len(kept)) \in Seq(Uttered(n))
      BY ONLY <1>1, <3>1, AfterFacts
    <3> QED
      BY <3>1, <3>2
  <2>2. After(kept, Len(kept)) = <<>>
    BY ONLY <2>1, EmptySeq
  <2>3. kept \o <<>> = kept
    BY ONLY <1>1, ConcatEmptySeq
  <2> QED
    BY <1>3, <1>4, <2>2, <2>3 DEF Live, Counted
<1>6. CopyFits(d, kept)
  <2>1. Ascending(kept)
    BY <1>1, <1>2 DEF Ascending
  <2>2. \A j \in 1 .. Len(kept) : (Len(kept) - Len(kept)) + j = j
    BY <1>1
  <2>3. Len(kept) \in 0 .. Len(kept) /\ ~(Len(kept) < Len(kept))
    BY <1>1
  <2> QED
    BY <1>1, <1>3, <1>4, <1>5, <2>1, <2>2, <2>3 DEF CopyFits
<1> QED
  BY <1>1, <1>3, <1>4, <1>5, <1>6 DEF Counted

\* The window takes the place of the log.
LEMMA CompactReplaceStands ==
  ASSUME LogStands, NEW h \in Holders, NEW w \in LogWrites, CompactReplace(h, w),
         Copied(copyOf[h]) = write[h][w].slice
  PROVE  LogStands'
<1> DEFINE c == copyOf[h]
<1>1. write[h][w].stage = "compacting" /\ ~Serialized(h, w)
  BY DEF CompactReplace, Serialized
<1>2. /\ HoldsCopy(h) /\ CopyFits(c, log) /\ Fits(h, write[h][w]) /\ said \in Nat /\ c \in CopyForm(said)
      /\ log \in Seq(Uttered(said)) /\ write[h][w] \in WriteForm(said)
      /\ FirstInChain(h, w) /\ chain[h] \in Seq(LogWrites)
      /\ h # LogOwner => \A v \in LogWrites : v # w => write[h][v] = NoWrite
  BY <1>1, WriterHolds DEF Appending
<1>3. PICK kept : kept = write[h][w].slice
  OBVIOUS
<1>4. kept = c.messages
  <2>1. c.messages \in Seq(Uttered(said)) /\ Len(c.messages) <= Window /\ Window \in Nat
    BY <1>2, FitFacts, BoundsAssumption DEF CopyFits
  <2>2. LastOf(c.messages, Window) = c.messages
    BY ONLY <2>1, LastOfFacts
  <2> QED
    BY <1>3, <2>2 DEF Copied
<1>5. PICK d : d = Compacted(c)
  OBVIOUS
<1>6. /\ kept \in Seq(Uttered(said)) /\ d \in CopyForm(said) /\ d.stage = c.stage /\ d.messages = c.messages
      /\ d.pointer # NoPointer /\ d.pointer \in Nat /\ Upto(d.pointer) = Len(kept)
      /\ Counted(d.pointer, kept) = kept /\ Live(d, kept) = kept /\ CopyFits(d, kept)
  <2> HIDE DEF c
  <2> QED
    BY <1>2, <1>4, <1>5, CompactedFacts
<1>7. PICK q : q = [write[h][w] EXCEPT !.stage = "unrecorded", !.replaced = TRUE]
  OBVIOUS
<1>8. q \in WriteForm(said) /\ q.stage = "unrecorded" /\ q.replaced = TRUE
  BY <1>2, <1>7 DEF WriteForm
<1>9. /\ UNCHANGED <<record, lock, said, talk, written>> /\ log' = kept
  BY <1>3 DEF CompactReplace
<1>10. /\ write' \in [Holders -> [LogWrites -> WriteForm(said)]] /\ write'[h][w] = q
       /\ \A g \in Holders, v \in LogWrites : g # h \/ v # w => write'[g][v] = write[g][v]
  <2>1. write \in [Holders -> [LogWrites -> WriteForm(said)]]
    BY DEF LogStands, Orderly, LogShape
  <2>2. write' = [write EXCEPT ![h][w].stage = "unrecorded", ![h][w].replaced = TRUE]
    BY DEF CompactReplace
  <2>3. write' = [write EXCEPT ![h][w] = q]
    BY <1>7, <2>1, <2>2
  <2> QED
    BY <1>8, <2>1, <2>3, OneChanged
<1>11. /\ copyOf' \in [Holders -> CopyForm(said)] /\ copyOf'[h] = d
       /\ \A g \in Holders : g # h => copyOf'[g] = copyOf[g]
  <2>1. copyOf \in [Holders -> CopyForm(said)]
    BY DEF LogStands, Orderly, LogShape
  <2>2. copyOf' = [copyOf EXCEPT ![h].messages = kept, ![h].logged = Len(kept), ![h].pointer = PointerAt(Len(kept))]
    BY <1>3 DEF CompactReplace
  <2>3. \A x, y, z : [copyOf EXCEPT ![h].messages = x, ![h].logged = y, ![h].pointer = z]
                       = [copyOf EXCEPT ![h] = [c EXCEPT !.messages = x, !.logged = y, !.pointer = z]]
    BY <2>1
  <2>4. d = [c EXCEPT !.messages = kept, !.logged = Len(kept), !.pointer = PointerAt(Len(kept))]
    BY <1>2, <1>4, <1>5 DEF Compacted, CopyForm
  <2>5. copyOf' = [copyOf EXCEPT ![h] = d]
    BY <2>2, <2>3, <2>4
  <2> QED
    BY <1>6, <2>1, <2>5
<1>12. chain' \in [Holders -> Seq(LogWrites)]
  <2>1. Tail(chain[h]) \in Seq(LogWrites)
    BY <1>2, HeadTailProperties DEF FirstInChain
  <2> QED
    BY <2>1 DEF CompactReplace, Released, LogStands, Orderly, LogShape
<1>13. /\ \A v \in LogWrites : v # w => write[h][v].stage \notin Appending
       /\ \A g \in Holders : g # h => /\ ~HoldsCopy(g) /\ copyOf[g].messages = <<>>
                                      /\ \A v \in LogWrites : write[g][v] = NoWrite
  <2>1. \A v \in LogWrites : v # w => write[h][v].stage \notin Appending
    BY <1>2, AloneAtLog
  <2>2. \A g \in Holders : g # h => /\ ~HoldsCopy(g) /\ copyOf[g].messages = <<>>
                                    /\ \A v \in LogWrites : write[g][v] = NoWrite
    BY <1>2, OtherHolders DEF LogStands, Orderly
  <2> QED
    BY <2>1, <2>2
<1>14. talk = "none"
  <2>1. CASE h = LogOwner
    BY <1>1, <1>2, <2>1 DEF Fits, Appending
  <2>2. CASE h # LogOwner
    <3>1. ~HoldsCopy(LogOwner)
      BY <1>13, <2>2, OwnerAssumption
    <3> QED
      BY <3>1 DEF LogStands, Orderly, StreamsLast
  <2> QED
    BY <2>1, <2>2
<1>15. \A g \in Holders : (HoldsCopy(g)' <=> g = h) /\ (Busy(g)' <=> g = h)
  <2>1. c.stage = "open" /\ \A g \in Holders : Busy(g) => g = h
    BY <1>2 DEF HoldsCopy, Busy, LogStands, Orderly, OneHolder
  <2> HIDE DEF c
  <2>2. HoldsCopy(h)' /\ Busy(h)'
    BY <1>6, <1>11, <2>1 DEF HoldsCopy, Busy
  <2>3. \A g \in Holders : g # h => ~HoldsCopy(g)' /\ ~Busy(g)'
    BY <1>11, <1>13, <2>1 DEF HoldsCopy, Busy
  <2> QED
    BY <2>2, <2>3
<1>16. LogShape'
  BY <1>6, <1>9, <1>10, <1>11, <1>12 DEF LogShape, LogStands, Orderly
<1>17. OneHolder'
  <2>1. ASSUME NEW g \in Holders, g # h
        PROVE  /\ copyOf'[g].messages = <<>> /\ \A v \in LogWrites : write'[g][v] = NoWrite
    BY <1>10, <1>11, <1>13, <2>1
  <2>2. \A g \in Holders : copyOf'[g].stage # "reading"
    BY <1>15 DEF Busy, HoldsCopy
  <2> QED
    BY <1>15, <2>1, <2>2 DEF OneHolder
<1>18. OneAtATime'
  <2>1. lock' = lock /\ q.stage \notin {"idle", "serialized"} /\ q.stage \notin Appending
    BY <1>8, <1>9 DEF Appending
  <2> HIDE DEF c
  <2> QED
    BY <1>2, <1>10, <1>13, <2>1, TurnsKept DEF LogStands, Orderly
<1>19. CopiesFit' /\ StreamsLast'
  <2> HIDE DEF c
  <2> QED
    BY <1>6, <1>9, <1>11, <1>14, <1>15 DEF CopiesFit, StreamsLast
<1>20. WritesFit'
  <2>1. \A g \in Holders, v \in LogWrites : write'[g][v].stage \notin Appending
    <3>1. ASSUME NEW g \in Holders, NEW v \in LogWrites PROVE write'[g][v].stage \notin Appending
      <4>1. CASE g = h /\ v = w
        BY <1>8, <1>10, <4>1 DEF Appending
      <4>2. CASE g = h /\ v # w
        BY <1>10, <1>13, <4>2
      <4>3. CASE g # h
        BY <1>2, <1>10, <1>13, <4>3, Empties DEF Appending
      <4> QED
        BY <4>1, <4>2, <4>3
    <3> QED
      BY <3>1
  <2> QED
    BY <1>9, <1>14, <2>1 DEF WritesFit, Fits, Appending
<1>21. /\ ~Steady' /\ \A g \in Holders, v \in LogWrites : ~Current(g, v)'
       /\ \A g \in Holders, v \in LogWrites :
            Serialized(g, v)' => Serialized(g, v) /\ g = h /\ write'[g][v] = write[g][v]
  <2>1. ~Steady'
    BY <1>8, <1>10 DEF Steady
  <2>2. ASSUME NEW g \in Holders, NEW v \in LogWrites, Serialized(g, v)'
        PROVE  Serialized(g, v) /\ g = h /\ write'[g][v] = write[g][v] /\ v # w
    <3>1. ~(g = h /\ v = w)
      BY <1>8, <1>10, <2>2 DEF Serialized
    <3>2. write'[g][v] = write[g][v]
      BY <1>10, <3>1
    <3>3. g = h
      BY <1>2, <1>13, <2>2, <3>2, Empties DEF Serialized
    <3> QED
      BY <2>2, <3>1, <3>2, <3>3 DEF Serialized
  <2>3. \A g \in Holders, v \in LogWrites : ~Current(g, v)'
    BY <1>8, <1>10, <2>2 DEF Current
  <2> QED
    BY <2>1, <2>2, <2>3
<1>22. RecordsFollow' /\ Aligned' /\ RecordStands'
  <2>1. \A v \in LogWrites : Serialized(h, v) => Len(write[h][v].image.tail) <= Window
    BY <1>2 DEF LogStands, OnDiskStands, RecordsFollow
  <2>2. RecordsFollow'
    BY <1>6, <1>11, <1>15, <1>21, <2>1 DEF RecordsFollow
  <2> QED
    BY <1>15, <1>21, <2>2 DEF Aligned, RecordStands
<1>23. ASSUME NEW e, e.id \in Nat, Remembered(Live(c, log), e) PROVE Remembered(Live(d, kept), e)
  <2> HIDE DEF c
  <2>1. Remembered(c.messages, e)
    BY <1>2, <1>23, WindowRemembers
  <2> QED
    BY <1>4, <1>6, <2>1
<1>24. CopyRemembers'
  <2>1. /\ \A e \in written : e.id \in Nat /\ Remembered(Live(c, log), e)
        /\ \A i \in 1 .. Len(record.tail) : record.tail[i].id \in Nat /\ Remembered(Live(c, log), record.tail[i])
    <3>1. \A e \in written : e.id \in Nat
      BY <1>2, UtteredFacts DEF LogStands, Orderly, LogShape
    <3>2. record.tail \in Seq(Uttered(said))
      BY <1>2, Fields DEF LogStands, Orderly, LogShape
    <3>3. \A i \in 1 .. Len(record.tail) : record.tail[i].id \in Nat
      BY <1>2, <3>2, IdsOfSaid
    <3> QED
      BY <1>2, <3>1, <3>3 DEF LogStands, OnDiskStands, CopyRemembers
  <2>2. ASSUME NEW v \in LogWrites, Serialized(h, v), NEW i \in 1 .. Len(write[h][v].image.tail)
        PROVE  write[h][v].image.tail[i].id \in Nat /\ Remembered(Live(c, log), write[h][v].image.tail[i])
    <3>1. write[h][v] \in WriteForm(said)
      BY DEF LogStands, Orderly, LogShape
    <3>2. write[h][v].image.tail \in Seq(Uttered(said))
      BY <1>2, <3>1, Fields
    <3>3. write[h][v].image.tail[i].id \in Nat
      BY <1>2, <3>2, IdsOfSaid
    <3> QED
      BY <1>2, <2>2, <3>3 DEF LogStands, OnDiskStands, CopyRemembers
  <2>3. \A e \in written : Remembered(Live(d, kept), e)
    BY <1>23, <2>1
  <2>4. \A i \in 1 .. Len(record.tail) : Remembered(Live(d, kept), record.tail[i])
    BY <1>23, <2>1
  <2>5. ASSUME NEW v \in LogWrites, Serialized(h, v)'
        PROVE  \A i \in 1 .. Len(write'[h][v].image.tail) : Remembered(Live(d, kept), write'[h][v].image.tail[i])
    BY <1>21, <1>23, <2>2, <2>5
  <2> HIDE DEF c
  <2> QED
    BY <1>9, <1>11, <1>15, <2>3, <2>4, <2>5 DEF CopyRemembers
<1>25. ImagesStand'
  <2>1. \A g \in Holders, v \in LogWrites :
          Serialized(g, v) =>
            \A i \in 1 .. Len(write[g][v].image.tail) :
              ~write[g][v].image.tail[i].whole => Whole(write[g][v].image.tail[i].id) \notin written
    BY DEF LogStands, OnDiskStands, ImagesStand
  <2> QED
    BY <1>9, <1>21, <2>1 DEF ImagesStand
<1>26. PartsStayParts'
  <2>1. \A g \in Holders : \A v \in LogWrites :
          Serialized(g, v)' => Serialized(g, v) /\ write'[g][v].image = write[g][v].image
    BY <1>21
  <2>2. \A g \in Holders : \A n : NeverWhole(copyOf[g].messages, n) => NeverWhole(copyOf'[g].messages, n)
    BY <1>6, <1>11
  <2>3. ASSUME NEW i \in DOMAIN log', NEW n, n = log'[i].id, ~log'[i].whole PROVE NowhereWhole(n)
    <3>1. i \in 1 .. Len(c.messages) /\ log'[i] = c.messages[i]
      BY <1>2, <1>4, <1>6, <1>9, <2>3, UtteredFacts
    <3>2. PICK k \in 1 .. Len(Live(c, log)) : Live(c, log)[k] = c.messages[i]
      BY <1>2, <3>1, InConversation
    <3>3. ~Live(copyOf[h], log)[k].whole /\ n = Live(copyOf[h], log)[k].id
      BY <2>3, <3>1, <3>2
    <3> QED
      BY <1>2, <3>3, PartOfConversation DEF LogStands, Orderly, OnDiskStands
  <2>4. talk' # "streaming"
    BY <1>9, <1>14
  <2> QED
    BY <1>9, <2>1, <2>2, <2>3, <2>4, PartsStay
<1> QED
  BY <1>16, <1>17, <1>18, <1>19, <1>20, <1>22, <1>24, <1>25, <1>26 DEF LogStands, Orderly, OnDiskStands

(***************************************************************************)
(* The end of a process.                                                   *)
(***************************************************************************)

\* The copy as if the lines that were appended had been counted.
CountedOn(c, lines, k) == [c EXCEPT !.logged = c.logged + k, !.pointer = PointerAt(Len(lines) + k)]

\* Each line is from the one sequence or the other.
From(more, lines, entries) ==
  \A i \in DOMAIN more : \/ i \in DOMAIN lines /\ more[i] = lines[i]
                         \/ \E j \in 1 .. Len(entries) : more[i] = entries[j]

\* A process may end after any of the entries of a slice; the conversation stays as it is.
CutAt(slice, k) == k \in 1 .. Len(slice)
SameLive(c, lines, d, more) == Live(d, more) = Live(c, lines)

\* The first of the entries to append go on where the copy ends.
LEMMA CutFacts ==
  ASSUME NEW n \in Nat, NEW c \in CopyForm(n), NEW lines \in Seq(Uttered(n)), CopyFits(c, lines),
         NEW slice \in Seq(Uttered(n)), SliceFits(c, slice, FALSE), c.pointer = NoPointer => lines = <<>>,
         NEW k, CutAt(slice, k),
         NEW more, more = Appended(lines, SubSeq(slice, 1, k)), NEW d, d = CountedOn(c, lines, k)
  PROVE  /\ more \in Seq(Uttered(n)) /\ d \in CopyForm(n) /\ CopyFits(d, more)
         /\ SameLive(c, lines, d, more) /\ Grows(c, lines, d, more, n) /\ d.pointer # NoPointer
         /\ From(more, lines, c.messages)
<1>1. /\ c.messages \in Seq(Uttered(n)) /\ c.logged \in Nat /\ Len(c.messages) \in Nat
      /\ c.pointer \in Nat /\ Len(lines) \in Nat
  BY FitFacts
<1>2. Len(slice) \in Nat /\ k \in Nat /\ k \in 1 .. Len(slice)
  BY LenProperties DEF CutAt
<1> PICK part : part = SubSeq(slice, 1, k)
  OBVIOUS
<1>3. part \in Seq(Uttered(n)) /\ Len(part) = k /\ \A j \in 1 .. k : part[j] = slice[j]
  <2>1. 1 \in Int /\ k \in Int /\ \A i \in 1 .. k : slice[i] \in Uttered(n)
    BY <1>2, ElementOfSeq
  <2>2. /\ part \in Seq(Uttered(n))
        /\ Len(part) = IF 1 <= k THEN k - 1 + 1 ELSE 0
        /\ \A i \in 1 .. k - 1 + 1 : part[i] = slice[1 + i - 1]
    BY <2>1, SubSeqProperties
  <2>3. k - 1 + 1 = k /\ 1 <= k /\ \A i \in 1 .. k : 1 + i - 1 = i
    BY <1>2
  <2> QED
    BY <2>2, <2>3
<1>4. SliceFits(c, part, FALSE) /\ c.logged + k <= Len(c.messages)
      /\ \A j \in 1 .. k : part[j] = c.messages[c.logged + j]
  <2>1. \A a, b, m \in Nat : a + b <= m => \A i \in 1 .. b : a + i <= m
    OBVIOUS
  <2>2. c.logged + Len(slice) <= Len(c.messages)
    BY DEF SliceFits
  <2>3. c.logged + k <= Len(c.messages)
    BY <1>1, <1>2, <2>1, <2>2
  <2>4. \A j \in 1 .. k : part[j] = c.messages[c.logged + j]
    <3>1. \A j \in 1 .. k : j \in 1 .. Len(slice)
      BY <1>2
    <3> QED
      BY <1>3, <3>1 DEF SliceFits
  <2> QED
    BY <1>3, <2>3, <2>4 DEF SliceFits
<1>5. more = lines \o part
  <2>1. lines # <<>> => Last(lines) # Nul
    <3> SUFFICES ASSUME lines # <<>> PROVE Last(lines) # Nul
      OBVIOUS
    <3>1. Len(lines) \in 1 .. Len(lines)
      BY <1>1, EmptySeq
    <3>2. lines[Len(lines)].id # 0
      BY <3>1, UtteredFacts
    <3>3. Nul.id = 0
      BY DEF Nul, Partial
    <3> QED
      BY <3>2, <3>3 DEF Last
  <2> QED
    BY <2>1 DEF Appended
<1>6. PICK p \in Nat : p = PointerAt(Len(lines) + k) /\ p # NoPointer /\ Upto(p) = Len(lines) + k
  BY <1>1, <1>2 DEF PointerAt, Upto, NoPointer
<1>7. d \in CopyForm(n) /\ d.messages = c.messages /\ d.logged = c.logged + k /\ d.pointer = p
  <2>1. c.logged + k \in Nat
    BY <1>1, <1>2
  <2>2. \A l \in Nat : LET e == [c EXCEPT !.logged = l, !.pointer = p]
                       IN  e \in CopyForm(n) /\ e.messages = c.messages /\ e.logged = l /\ e.pointer = p
    BY DEF CopyForm
  <2> QED
    BY <1>6, <2>1, <2>2 DEF CountedOn
<1>8. Live(d, more) = Live(c, lines) /\ CopyFits(d, more)
  <2>1. /\ d.messages = c.messages /\ d.logged = c.logged + Len(part)
        /\ (d.pointer = NoPointer => c.pointer = NoPointer /\ part = <<>>)
        /\ (d.pointer # NoPointer => Upto(d.pointer) = Len(lines) + Len(part))
    BY <1>3, <1>6, <1>7
  <2>2. Live(d, lines \o part) = Live(c, lines) /\ CopyFits(d, lines \o part)
    <3>1. /\ c \in CopyForm(n) /\ lines \in Seq(Uttered(n)) /\ CopyFits(c, lines)
          /\ part \in Seq(Uttered(n)) /\ SliceFits(c, part, FALSE) /\ (c.pointer = NoPointer => lines = <<>>)
          /\ d \in CopyForm(n)
      BY <1>3, <1>4, <1>7
    <3> QED
      BY ONLY n \in Nat, <2>1, <3>1, AppendFits
  <2> QED
    BY <1>5, <2>2
<1>9. /\ more \in Seq(Uttered(n)) /\ Len(more) = Len(lines) + k /\ DOMAIN more = 1 .. Len(lines) + k
      /\ DOMAIN lines = 1 .. Len(lines)
      /\ \A i \in 1 .. Len(lines) + k : more[i] = IF i <= Len(lines) THEN lines[i] ELSE part[i - Len(lines)]
  <2>1. /\ more \in Seq(Uttered(n)) /\ Len(more) = Len(lines) + Len(part)
        /\ \A i \in 1 .. Len(lines) + Len(part) : more[i] = IF i <= Len(lines) THEN lines[i] ELSE part[i - Len(lines)]
    <3> DEFINE S == Uttered(n)
    <3>1. lines \in Seq(S) /\ part \in Seq(S)
      BY <1>3
    <3> HIDE DEF S
    <3>2. /\ lines \o part \in Seq(S) /\ Len(lines \o part) = Len(lines) + Len(part)
          /\ \A i \in 1 .. Len(lines) + Len(part) :
               (lines \o part)[i] = IF i <= Len(lines) THEN lines[i] ELSE part[i - Len(lines)]
      BY ONLY <3>1, ConcatProperties
    <3> QED
      BY ONLY <1>5, <3>2 DEF S
  <2>2. DOMAIN more = 1 .. Len(more) /\ DOMAIN lines = 1 .. Len(lines)
    BY <2>1, LenProperties
  <2> QED
    BY <1>3, <2>1, <2>2
<1>10. Grows(c, lines, d, more, n)
  <2>1. Len(lines) <= Len(more) /\ \A i \in 1 .. Len(lines) : more[i] = lines[i]
    <3>1. \A a, b \in Nat : a <= a + b /\ \A i \in 1 .. a : i \in 1 .. a + b /\ i <= a
      OBVIOUS
    <3>2. Len(lines) <= Len(lines) + k /\ \A i \in 1 .. Len(lines) : i \in 1 .. Len(lines) + k /\ i <= Len(lines)
      BY <1>1, <1>2, <3>1
    <3>3. \A i \in 1 .. Len(lines) : more[i] = lines[i]
      BY <1>9, <3>2
    <3> QED
      BY <1>9, <3>2, <3>3
  <2> QED
    BY <1>6, <1>7, <1>8, <2>1, StandsStill
<1>11. ASSUME NEW i \in DOMAIN more
       PROVE  \/ i \in DOMAIN lines /\ more[i] = lines[i]
              \/ \E j \in 1 .. Len(c.messages) : more[i] = c.messages[j]
  <2>1. CASE i <= Len(lines)
    <3>1. i \in 1 .. Len(lines) + k
      BY <1>9, <1>11
    <3>2. i \in 1 .. Len(lines)
      BY <1>1, <1>2, <2>1, <3>1
    <3> QED
      BY <1>9, <2>1, <3>1, <3>2
  <2>2. CASE ~(i <= Len(lines))
    <3>1. PICK j \in 1 .. k : j = i - Len(lines)
      BY <1>1, <1>2, <1>9, <2>2
    <3>2. more[i] = c.messages[c.logged + j]
      BY <1>4, <1>9, <2>2, <3>1
    <3>3. c.logged + j \in 1 .. Len(c.messages)
      <4>1. \A a, b, m \in Nat : a + b <= m => \A x \in 1 .. b : a + x \in 1 .. m
        OBVIOUS
      <4> QED
        BY <1>1, <1>2, <1>4, <4>1
    <3> QED
      BY <3>2, <3>3
  <2> QED
    BY <2>1, <2>2
<1> QED
  BY <1>6, <1>7, <1>8, <1>9, <1>10, <1>11 DEF From, SameLive

\* An append cut short leaves what the next copy can be made of.
LEMMA CutStands ==
  ASSUME LogStands, Steady, NEW h \in Holders, NEW w \in LogWrites, write[h][w].stage = "truncated",
         NEW k \in 1 .. Len(write[h][w].slice), NEW more, more = Appended(log, SubSeq(write[h][w].slice, 1, k))
  PROVE  /\ more \in Seq(Uttered(said)) /\ Resumes(record, more) /\ Stands(History(record, more), written)
         /\ \A i \in DOMAIN more : ~more[i].whole => NowhereWhole(more[i].id)
<1> DEFINE c == copyOf[h]
           slice == write[h][w].slice
<1>1. /\ HoldsCopy(h) /\ CopyFits(c, log) /\ Fits(h, write[h][w]) /\ said \in Nat /\ c \in CopyForm(said)
      /\ log \in Seq(Uttered(said)) /\ write[h][w] \in WriteForm(said)
  BY WriterHolds
<1>2. slice \in Seq(Uttered(said)) /\ SliceFits(c, slice, FALSE) /\ (c.pointer = NoPointer => log = <<>>)
  BY <1>1, Fields DEF Fits, SliceFits
<1>3. PICK d : d = CountedOn(c, log, k)
  OBVIOUS
<1>4. more = Appended(log, SubSeq(slice, 1, k)) /\ CutAt(slice, k)
  BY DEF CutAt
<1>5. /\ more \in Seq(Uttered(said)) /\ d \in CopyForm(said) /\ CopyFits(d, more)
      /\ Live(d, more) = Live(c, log) /\ Grows(c, log, d, more, said) /\ d.pointer # NoPointer
      /\ From(more, log, c.messages)
  <2> HIDE DEF c, slice
  <2>1. /\ said \in Nat /\ c \in CopyForm(said) /\ log \in Seq(Uttered(said)) /\ CopyFits(c, log)
        /\ slice \in Seq(Uttered(said)) /\ SliceFits(c, slice, FALSE) /\ (c.pointer = NoPointer => log = <<>>)
        /\ CutAt(slice, k) /\ more = Appended(log, SubSeq(slice, 1, k)) /\ d = CountedOn(c, log, k)
    BY <1>1, <1>2, <1>3, <1>4
  <2>2. more \in Seq(Uttered(said))
    BY ONLY <2>1, CutFacts
  <2>3. d \in CopyForm(said)
    BY ONLY <2>1, CutFacts
  <2>4. CopyFits(d, more)
    BY ONLY <2>1, CutFacts
  <2>5. From(more, log, c.messages)
    BY ONLY <2>1, CutFacts
  <2>6. Live(d, more) = Live(c, log)
    <3>1. SameLive(c, log, d, more)
      BY ONLY <2>1, CutFacts
    <3> QED
      BY <3>1 DEF SameLive
  <2>7. Grows(c, log, d, more, said)
    BY ONLY <2>1, CutFacts
  <2>8. d.pointer # NoPointer
    BY ONLY <2>1, CutFacts
  <2> QED
    BY <2>2, <2>3, <2>4, <2>5, <2>6, <2>7, <2>8
<1>6. /\ record \in Image(said) /\ (record.pointer # NoPointer => c.pointer # NoPointer) /\ Under(record, c, log)
      /\ written \subseteq Uttered(said)
  BY <1>1 DEF LogStands, Orderly, LogShape, OnDiskStands, RecordsFollow
<1> HIDE DEF c, slice
<1>7. /\ Under(record, d, more)
      /\ History(record, log) \in Seq(Uttered(said)) /\ History(record, more) \in Seq(Uttered(said))
      /\ Advances(History(record, log), History(record, more))
      /\ MadeOf(History(record, more), Len(Live(d, more)), Live(d, more), History(record, log))
  <2>1. said <= said
    BY <1>1
  <2> QED
    BY ONLY <1>1, <1>5, <1>6, <2>1, ImageOnward
<1>8. Resumes(record, more)
  BY ONLY <1>1, <1>5, <1>6, <1>7, RecordBehind
<1>9. Stands(History(record, more), written)
  <2>1. \A e \in written : Remembered(Live(d, more), e)
    BY <1>1, <1>5 DEF LogStands, OnDiskStands, CopyRemembers, c
  <2>2. Stands(History(record, log), written)
    BY DEF LogStands, OnDiskStands, RecordStands
  <2>3. Live(d, more) \in Seq(Uttered(said))
    BY <1>1, <1>5, FitFacts
  <2> QED
    BY ONLY <1>1, <1>7, <2>1, <2>2, <2>3, StandsOn
<1>10. ASSUME NEW i \in DOMAIN more, ~more[i].whole PROVE NowhereWhole(more[i].id)
  <2>1. CASE i \in DOMAIN log /\ more[i] = log[i]
    BY <1>10, <2>1 DEF LogStands, PartsStayParts, StaysPart
  <2>2. CASE \E j \in 1 .. Len(c.messages) : more[i] = c.messages[j]
    <3>1. PICK j \in 1 .. Len(c.messages) : more[i] = c.messages[j]
      BY <2>2
    <3>2. PICK m \in 1 .. Len(Live(c, log)) : Live(c, log)[m] = c.messages[j]
      BY <1>1, InConversation
    <3>3. ~Live(copyOf[h], log)[m].whole /\ more[i].id = Live(copyOf[h], log)[m].id
      BY <1>10, <3>1, <3>2 DEF c
    <3> QED
      BY <1>1, <3>3, PartOfConversation DEF LogStands, Orderly, OnDiskStands, c
  <2> QED
    BY <1>5, <1>10, <2>1, <2>2 DEF From
<1> QED
  BY <1>5, <1>8, <1>9, <1>10

\* Whether a process has a copy or none does, what is on disk is what the next can be made of.
LEMMA SteadyResumes ==
  ASSUME LogStands, Steady
  PROVE  Resumes(record, log) /\ said \in Nat /\ record \in Image(said) /\ log \in Seq(Uttered(said))
<1>1. said \in Nat /\ record \in Image(said) /\ log \in Seq(Uttered(said))
  BY BoundsAssumption DEF LogStands, Orderly, LogShape
<1>2. CASE \E h \in Holders : HoldsCopy(h)
  <2>1. PICK h \in Holders : HoldsCopy(h)
    BY <1>2
  <2>2. CopyFits(copyOf[h], log) /\ copyOf[h] \in CopyForm(said)
    BY <2>1 DEF LogStands, Orderly, LogShape, CopiesFit
  <2>3. (record.pointer # NoPointer => copyOf[h].pointer # NoPointer) /\ Under(record, copyOf[h], log)
    BY <2>1 DEF LogStands, OnDiskStands, RecordsFollow
  <2> QED
    BY <1>1, <2>2, <2>3, RecordBehind
<1>3. CASE \A h \in Holders : ~HoldsCopy(h)
  BY <1>1, <1>3 DEF LogStands, OnDiskStands, Aligned
<1> QED
  BY <1>2, <1>3

\* A process ends while no log has been put in place of another.
LEMMA LogCrashStands ==
  ASSUME LogStands, Steady, NEW h \in Holders, LogCrash(h)
  PROVE  LogStands'
<1>1. /\ Busy(h) /\ Gone(h) /\ UNCHANGED <<record, said, written>>
  BY DEF LogCrash
<1>2. /\ said \in Nat /\ log \in Seq(Uttered(said)) /\ record \in Image(said)
      /\ copyOf \in [Holders -> CopyForm(said)] /\ write \in [Holders -> [LogWrites -> WriteForm(said)]]
      /\ chain \in [Holders -> Seq(LogWrites)] /\ talk \in {"none", "prompted", "streaming"}
  BY BoundsAssumption DEF LogStands, Orderly, LogShape
<1>3. /\ NoCopy \in CopyForm(said) /\ Over \in CopyForm(said) /\ NoWrite \in WriteForm(said)
      /\ NoCopy.stage = "none" /\ NoCopy.messages = <<>> /\ Over.stage = "over" /\ Over.messages = <<>>
      /\ NoWrite.stage = "idle"
  BY <1>2, Empties
<1>4. \A g \in Holders : g # h => /\ ~Busy(g) /\ copyOf[g].messages = <<>>
                                  /\ \A v \in LogWrites : write[g][v] = NoWrite
  BY <1>1 DEF LogStands, Orderly, OneHolder, Busy, HoldsCopy
<1>5. \A g \in Holders : /\ ~Busy(g)' /\ ~HoldsCopy(g)' /\ copyOf'[g].messages = <<>>
                         /\ copyOf'[g] \in CopyForm(said)
  <2>1. copyOf'[h] \in {NoCopy, Over} /\ \A g \in Holders : g # h => copyOf'[g] = copyOf[g]
    BY <1>1, <1>2 DEF Gone
  <2> QED
    BY <1>2, <1>3, <1>4, <2>1 DEF Busy, HoldsCopy
<1>6. \A g \in Holders, v \in LogWrites : write'[g][v] = NoWrite
  BY <1>1, <1>2, <1>4 DEF Gone
<1>7. talk' = "none"
  <2>1. h # LogOwner => ~HoldsCopy(LogOwner)
    BY <1>4, OwnerAssumption DEF Busy, HoldsCopy
  <2> QED
    BY <1>1, <2>1 DEF Gone, LogStands, Orderly, StreamsLast
\* What is on disk.
<1>8. /\ log' \in Seq(Uttered(said)) /\ Resumes(record, log') /\ Stands(History(record, log'), written)
      /\ \A i \in DOMAIN log' : ~log'[i].whole => NowhereWhole(log'[i].id)
  <2>1. CASE log' = log
    <3>1. Resumes(record, log)
      BY SteadyResumes
    <3>2. Stands(History(record, log), written)
      BY DEF LogStands, OnDiskStands, RecordStands
    <3>3. \A i \in DOMAIN log : ~log[i].whole => NowhereWhole(log[i].id)
      BY DEF LogStands, PartsStayParts, StaysPart
    <3> QED
      BY <1>2, <2>1, <3>1, <3>2, <3>3
  <2>2. CASE log' # log
    <3>0. PICK w \in LogWrites :
            \E k \in 1 .. Len(write[h][w].slice) :
              write[h][w].stage = "truncated" /\ log' = Appended(log, SubSeq(write[h][w].slice, 1, k))
      BY <2>2 DEF LogCrash
    <3>1. PICK k \in 1 .. Len(write[h][w].slice) :
            write[h][w].stage = "truncated" /\ log' = Appended(log, SubSeq(write[h][w].slice, 1, k))
      BY <3>0
    <3>2. PICK more : more = log'
      OBVIOUS
    <3>3. /\ more \in Seq(Uttered(said)) /\ Resumes(record, more) /\ Stands(History(record, more), written)
          /\ \A i \in DOMAIN more : ~more[i].whole => NowhereWhole(more[i].id)
      BY <3>1, <3>2, CutStands
    <3> QED
      BY <3>2, <3>3
  <2> QED
    BY <2>1, <2>2
<1>9. LogShape'
  <2>1. chain' \in [Holders -> Seq(LogWrites)]
    <3>1. <<>> \in Seq(LogWrites)
      BY EmptySeq
    <3> QED
      BY <1>1, <1>2, <3>1 DEF Gone
  <2>2. copyOf' \in [Holders -> CopyForm(said)] /\ write' \in [Holders -> [LogWrites -> WriteForm(said)]]
    <3>1. write' = [write EXCEPT ![h] = [v \in LogWrites |-> NoWrite]]
          /\ copyOf' = [copyOf EXCEPT ![h] = IF h = LogOwner THEN NoCopy ELSE Over]
      BY <1>1 DEF Gone
    <3> QED
      BY <1>2, <1>3, <3>1
  <2> QED
    BY <1>1, <1>7, <1>8, <2>1, <2>2 DEF LogStands, Orderly, LogShape
<1>10. PartsStayParts'
  <2>1. DOMAIN <<>> = {}
    OBVIOUS
  <2>2. \A g \in Holders, v \in LogWrites : ~Serialized(g, v)'
    BY <1>3, <1>6 DEF Serialized
  <2>3. ASSUME NEW n, NowhereWhole(n) PROVE StaysPart(n)'
    BY <1>1, <1>5, <1>7, <2>1, <2>2, <2>3 DEF StaysPart, NowhereWhole, NeverWhole
  <2> QED
    BY <1>8, <2>3 DEF PartsStayParts
<1>11. Resumes(record, log)' /\ Stands(History(record, log), written)'
  BY <1>1, <1>8
<1>12. /\ \A f, g \in Holders : Busy(f)' /\ Busy(g)' => f = g
       /\ \A g \in Holders : copyOf'[g].stage = "reading" => copyOf'[g].image = record'
  BY <1>5 DEF Busy
<1> QED
  BY <1>5, <1>6, <1>7, <1>9, <1>10, <1>11, <1>12, NobodyStands

(***************************************************************************)
(* The theorem.                                                            *)
(***************************************************************************)

\* Every step keeps the invariant, or has excused what follows.
LEMMA LogSteps ==
  ASSUME CloseOverlaps = FALSE, LogInv, [LogNext]_logVars
  PROVE  LogInv'
<1> SUFFICES ASSUME ~excused' PROVE LogStands'
  BY DEF LogInv
<1>1. excused \/ LogStands
  BY DEF LogInv
<1>2. CASE UNCHANGED logVars
  <2>1. UNCHANGED <<log, record, lock, copyOf, write, chain, said, talk, written, excused>>
    BY <1>2 DEF logVars
  <2>2. LogStands
    BY <1>1, <2>1
  <2>3. Orderly'
    BY <2>1, <2>2 DEF LogStands, Orderly, LogShape, OneHolder, OneAtATime, FirstInChain, CopiesFit, StreamsLast,
                      WritesFit, Fits, Busy, HoldsCopy
  <2>4. PartsStayParts'
    BY <2>1, <2>2 DEF LogStands, PartsStayParts, StaysPart, NowhereWhole, Serialized
  <2>5. (RecordsFollow /\ Aligned /\ CopyRemembers)'
    BY <2>1, <2>2 DEF LogStands, OnDiskStands, RecordsFollow, Aligned, CopyRemembers, Steady, Current, Serialized,
                      HoldsCopy
  <2>6. (RecordStands /\ ImagesStand)'
    BY <2>1, <2>2 DEF LogStands, OnDiskStands, RecordStands, ImagesStand, Steady, Current, Serialized
  <2> QED
    BY <2>3, <2>4, <2>5, <2>6 DEF LogStands, OnDiskStands
\* What is said.
<1>3. ASSUME Stream \/ Push PROVE LogStands'
  <2>1. excused' = excused
    BY <1>3 DEF Stream, Push
  <2> QED
    BY <1>1, <1>3, <2>1, StreamStands, PushStands
<1>4. ASSUME NEW w \in LogWrites, PromptStarts(w) \/ EndTurn(w) PROVE LogStands'
  <2>1. excused' = excused
    BY <1>4 DEF PromptStarts, EndTurn
  <2> QED
    BY <1>1, <1>4, <2>1, PromptStartsStands, EndTurnStands
\* A write begins.
<1>5. ASSUME NEW w \in LogWrites, SaveOutsideTurn(w) \/ Checkpoint(w) PROVE LogStands'
  <2>1. excused' = excused
    BY <1>5 DEF SaveOutsideTurn, Checkpoint
  <2> QED
    BY <1>1, <1>5, <2>1, SaveOutsideTurnStands, CheckpointStands
<1>6. ASSUME NEW h \in Holders, NEW w \in LogWrites, Close(h, w) PROVE LogStands'
  <2>1. excused' = excused
    BY <1>6 DEF Close
  <2> QED
    BY <1>1, <1>6, <2>1, CloseStands
\* A process comes and goes.
<1>7. ASSUME NEW h \in Holders, ReadRecord(h) \/ ReadLog(h) PROVE LogStands'
  <2>1. excused' = excused
    BY <1>7 DEF ReadRecord, ReadLog
  <2> QED
    BY <1>1, <1>7, <2>1, ReadRecordStands, ReadLogStands
<1>8. ASSUME NEW h \in Holders, LogCrash(h) PROVE LogStands'
  <2>1. excused' = (excused \/ ~Steady)
    BY <1>8 DEF LogCrash
  <2>2. LogStands /\ Steady
    BY <1>1, <2>1
  <2> QED
    BY <1>8, <2>2, LogCrashStands
\* A write goes on.
<1>9. ASSUME NEW h \in Holders, NEW w \in LogWrites, BoundaryStep(h, w) PROVE LogStands'
  <2>1. ASSUME Prepare(h, w) \/ Truncate(h, w) \/ AppendLines(h, w) PROVE LogStands'
    <3>1. excused' = excused
      BY <2>1 DEF Prepare, Truncate, AppendLines
    <3> QED
      BY <1>1, <2>1, <3>1, PrepareStands, TruncateStands, AppendLinesStands
  <2>2. ASSUME NoCompaction(h, w) \/ CompactCopy(h, w) PROVE LogStands'
    <3>1. excused' = excused
      BY <2>2 DEF NoCompaction, CompactCopy
    <3> QED
      BY <1>1, <2>2, <3>1, NoCompactionStands, CompactCopyStands
  <2>3. ASSUME CompactReplace(h, w) PROVE LogStands'
    <3>1. excused' = (excused \/ Copied(copyOf[h]) # write[h][w].slice)
      BY <2>3 DEF CompactReplace
    <3>2. LogStands /\ Copied(copyOf[h]) = write[h][w].slice
      BY <1>1, <3>1
    <3> QED
      BY <2>3, <3>2, CompactReplaceStands
  <2> QED
    BY <1>9, <2>1, <2>2, <2>3 DEF BoundaryStep
<1>10. ASSUME NEW h \in Holders, NEW w \in LogWrites, RecordStep(h, w) PROVE LogStands'
  <2>1. excused' = excused
    BY <1>10 DEF RecordStep, Serialize, Rename
  <2> QED
    BY <1>1, <1>10, <2>1, SerializeStands, RenameStands DEF RecordStep
<1>11. CASE LogNext
  BY <1>3, <1>4, <1>5, <1>6, <1>7, <1>8, <1>9, <1>10, <1>11 DEF LogNext
<1> QED
  BY <1>2, <1>11

\* The invariant is enough.
LEMMA StandsIsEnough ==
  ASSUME LogInv
  PROVE  HistoryStands
<1> DEFINE told == History(record, log)
<1>1. EachOnce
  <2> SUFFICES ASSUME Steady, ~excused PROVE Ascending(told)
    BY DEF EachOnce, Ascending
  <2> QED
    BY SteadyResumes DEF LogInv, Resumes
<1>2. Kept
  <2> SUFFICES ASSUME Steady, ~excused, NEW e \in written
               PROVE  \/ Cardinality({later \in {d.id : d \in written} : later > e.id}) >= Window
                      \/ \E t \in ToSet(told) : t.id = e.id /\ (e.whole => t.whole)
    BY DEF Kept, StillTold
  <2> DEFINE few == {later \in Ids(told) \cap {d.id : d \in written} : later > e.id}
             many == {later \in {d.id : d \in written} : later > e.id}
  <2>1. LogStands
    BY DEF LogInv
  <2>2. Has(told, e) \/ Cardinality(few) >= Window
    BY <2>1 DEF LogStands, OnDiskStands, RecordStands, Stands, Survives
  <2>3. CASE Has(told, e)
    BY <2>3 DEF Has, ToSet
  <2>4. CASE Cardinality(few) >= Window
    <3>1. said \in Nat /\ written \subseteq Uttered(said) /\ Window \in Nat
      BY <2>1, SteadyResumes, BoundsAssumption DEF LogStands, Orderly, LogShape
    <3>2. few \subseteq many
      OBVIOUS
    <3>3. many \subseteq 1 .. said
      BY <3>1, UtteredFacts
    <3> HIDE DEF few, many
    <3>4. IsFiniteSet(many) /\ Cardinality(many) \in 0 .. said
      BY ONLY <3>1, <3>3, PartOfBound
    <3>5. Cardinality(few) <= Cardinality(many) /\ IsFiniteSet(few)
      BY <3>2, <3>4, FS_Subset
    <3>6. Cardinality(few) \in Nat
      BY <3>5, FS_CardinalityType
    <3>7. Cardinality(many) >= Window
      BY <2>4, <3>1, <3>4, <3>5, <3>6
    <3> QED
      BY <3>7 DEF many
  <2> QED
    BY <2>2, <2>3, <2>4
<1>3. LoggedWhole
  <2> SUFFICES ASSUME ~excused, NEW i \in DOMAIN log, ~log[i].whole, NEW n, n = log[i].id
               PROVE  n \notin Streaming /\ Whole(n) \notin written \cup ToSet(copyOf[LogOwner].messages)
    BY DEF LoggedWhole
  <2>1. LogStands
    BY DEF LogInv
  <2>2. StaysPart(n)
    BY <2>1 DEF LogStands, PartsStayParts
  <2>3. n \notin Streaming
    <3>1. talk = "streaming" => Last(copyOf[LogOwner].messages).id = said
      BY <2>1 DEF LogStands, Orderly, StreamsLast, Last
    <3>2. said \in Nat /\ (talk = "streaming" => n < said)
      BY <2>1, <2>2, BoundsAssumption DEF StaysPart, LogStands, Orderly, LogShape
    <3>3. talk = "streaming" => n # said
      BY <3>2
    <3> QED
      BY <3>1, <3>3 DEF Streaming
  <2>4. Whole(n).id = n /\ Whole(n).whole
    BY DEF Whole
  <2>5. Whole(n) \notin ToSet(copyOf[LogOwner].messages)
    BY <2>2, <2>4, OwnerAssumption DEF StaysPart, NowhereWhole, NeverWhole, ToSet
  <2> QED
    BY <2>2, <2>3, <2>5 DEF StaysPart, NowhereWhole
<1> QED
  BY <1>1, <1>2, <1>3 DEF HistoryStands

\* What a reader gets of a session that is not closed while it has an owner, between any two calls of
\* a write and after any end of a process, has every entry once and in order, lacks none that a record
\* write had put on disk, and has none as final before it is whole (writeSessionRecordInternal,
\* hydrateFromLogReader): until a compaction is cut short.
THEOREM HistoryIsKept ==
  ASSUME CloseOverlaps = FALSE
  PROVE  LogSpec => []HistoryStands
<1>1. LogInit => LogInv
  BY LogStarts
<1>2. LogInv /\ [LogNext]_logVars => LogInv'
  BY LogSteps
<1>3. LogInv => HistoryStands
  BY StandsIsEnough
<1> QED
  BY <1>1, <1>2, <1>3, PTL DEF LogSpec
=============================================================================
