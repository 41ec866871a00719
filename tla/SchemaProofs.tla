---------------------------- MODULE SchemaProofs ----------------------------
(***************************************************************************)
(* Proofs of Schema: a cron line fires when it was picked to, a number is  *)
(* taken from a text only when it is the only one it can mean, a run finds *)
(* the element that was recorded or stops, and the steps a recording       *)
(* becomes do what was recorded; for texts, pages, recurrences and         *)
(* recordings of any size.                                                 *)
(***************************************************************************)
EXTENDS Schema, FiniteSetTheorems, SequenceTheorems, WellFoundedInduction, NaturalsInduction, TLAPS

(***************************************************************************)
(* Repeating.                                                              *)
(***************************************************************************)

(* The two kinds of cron field are told apart, and read back.              *)
LEMMA FieldKinds ==
  /\ \A n : IsStep(Every(n)) /\ Every(n).step = n
  /\ \A v : ~IsStep(At(v)) /\ At(v).at = v
  /\ \A v, n : At(v) # Every(n)
  /\ \A m, n : Every(m) = Every(n) <=> m = n
<1>1. \A n : IsStep(Every(n)) /\ Every(n).step = n
  BY DEF IsStep, Every
<1>2. \A v : ~IsStep(At(v)) /\ At(v).at = v
  BY DEF IsStep, At
<1>3. \A v, n : At(v) # Every(n)
  BY <1>1, <1>2
<1>4. \A m, n : Every(m) = Every(n) <=> m = n
  BY <1>1
<1>5. QED
  BY <1>1, <1>2, <1>3, <1>4

(* When each kind of field fires.                                          *)
LEMMA FieldsFire ==
  /\ \A n, value, first : FieldFires(Every(n), value, first) <=> (value - first) % n = 0
  /\ \A value, first \in Int : FieldFires(Every(1), value, first)
  /\ \A v, value, first : FieldFires(At(v), value, first) <=> value = v
<1>1. \A n, value, first : FieldFires(Every(n), value, first) <=> (value - first) % n = 0
  BY FieldKinds DEF FieldFires
<1>2. \A v, value, first : FieldFires(At(v), value, first) <=> value = v
  BY FieldKinds DEF FieldFires
<1>3. \A value, first \in Int : (value - first) % 1 = 0
  OBVIOUS
<1>4. QED
  BY <1>1, <1>2, <1>3

Moments == [month : 1..12, day : 1..31, weekday : 0..6, hour : 0..23, minute : 0..59]

LEMMA TimeIsPair ==
  ASSUME NEW time \in TimesOfDay
  PROVE  time = <<time[1], time[2]>>
BY DEF TimesOfDay

(* The cron line fires at the times the recurrence means. *)
LEMMA CronFires ==
  ASSUME NEW r \in ValidRecurrences, NEW t \in Moments
  PROVE  Fires(RecurrenceToCron(r), t) <=> Meant(r, t)
<1>0. /\ t.month \in Int /\ t.day \in Int /\ t.weekday \in Int /\ t.hour \in Int /\ t.minute \in Int
      /\ t.minute - 0 = t.minute /\ t.hour - 0 = t.hour
  BY DEF Moments
<1>1. CASE r \in [kind : {"minutes"}, every : 1..59]
  <2>1. r.kind = "minutes"
    BY <1>1
  <2>2. QED
    BY <1>0, <2>1, FieldKinds, FieldsFire DEF RecurrenceToCron, Cron, Fires, Meant
<1>2. CASE r \in [kind : {"hours"}, every : 1..23, minute : 0..59]
  <2>1. r.kind = "hours"
    BY <1>2
  <2>2. QED
    BY <1>0, <2>1, FieldKinds, FieldsFire DEF RecurrenceToCron, Cron, Fires, Meant
<1>3. CASE r \in [kind : {"days"}, every : 1..30, time : TimesOfDay]
  <2>1. r.kind = "days" /\ r.time \in TimesOfDay
    BY <1>3
  <2>2. r.time = <<r.time[1], r.time[2]>>
    BY <2>1, TimeIsPair
  <2>3. QED
    BY <1>0, <2>1, <2>2, FieldKinds, FieldsFire DEF RecurrenceToCron, Cron, Fires, Meant
<1>4. CASE r \in [kind : {"weekly"}, weekday : 0..6, time : TimesOfDay]
  <2>1. r.kind = "weekly" /\ r.time \in TimesOfDay
    BY <1>4
  <2>2. r.time = <<r.time[1], r.time[2]>>
    BY <2>1, TimeIsPair
  <2>3. QED
    BY <1>0, <2>1, <2>2, FieldKinds, FieldsFire DEF RecurrenceToCron, Cron, Fires, Meant
<1>5. CASE r \in [kind : {"months"}, every : 1..12, day : 1..28, time : TimesOfDay]
  <2>1. r.kind = "months" /\ r.time \in TimesOfDay
    BY <1>5
  <2>2. r.time = <<r.time[1], r.time[2]>>
    BY <2>1, TimeIsPair
  <2>3. QED
    BY <1>0, <2>1, <2>2, FieldKinds, FieldsFire DEF RecurrenceToCron, Cron, Fires, Meant
<1>6. QED
  BY <1>1, <1>2, <1>3, <1>4, <1>5 DEF ValidRecurrences

(* And is read back as the recurrence. *)
LEMMA CronReadBack ==
  ASSUME NEW r \in ValidRecurrences
  PROVE  DescribeCron(RecurrenceToCron(r)) = r
<1>1. CASE r \in [kind : {"minutes"}, every : 1..59]
  <2>1. r.kind = "minutes"
    BY <1>1
  <2>2. DescribeCron(RecurrenceToCron(r)) = [kind |-> "minutes", every |-> r.every]
    BY <2>1, FieldKinds DEF RecurrenceToCron, Cron, DescribeCron, StepOf
  <2>3. r = [kind |-> "minutes", every |-> r.every]
    BY <1>1
  <2>4. QED
    BY <2>2, <2>3
<1>2. CASE r \in [kind : {"hours"}, every : 1..23, minute : 0..59]
  <2>1. r.kind = "hours"
    BY <1>2
  <2>2. DescribeCron(RecurrenceToCron(r)) = [kind |-> "hours", every |-> r.every, minute |-> r.minute]
    BY <2>1, FieldKinds DEF RecurrenceToCron, Cron, DescribeCron, StepOf
  <2>3. r = [kind |-> "hours", every |-> r.every, minute |-> r.minute]
    BY <1>2
  <2>4. QED
    BY <2>2, <2>3
<1>3. CASE r \in [kind : {"days"}, every : 1..30, time : TimesOfDay]
  <2>1. r.kind = "days" /\ r.time \in TimesOfDay
    BY <1>3
  <2>2. r.time = <<r.time[1], r.time[2]>>
    BY <2>1, TimeIsPair
  <2>3. DescribeCron(RecurrenceToCron(r)) = [kind |-> "days", every |-> r.every, time |-> r.time]
    BY <2>1, <2>2, FieldKinds DEF RecurrenceToCron, Cron, DescribeCron, StepOf
  <2>4. r = [kind |-> "days", every |-> r.every, time |-> r.time]
    BY <1>3
  <2>5. QED
    BY <2>3, <2>4
<1>4. CASE r \in [kind : {"weekly"}, weekday : 0..6, time : TimesOfDay]
  <2>1. r.kind = "weekly" /\ r.time \in TimesOfDay
    BY <1>4
  <2>2. r.time = <<r.time[1], r.time[2]>>
    BY <2>1, TimeIsPair
  <2>3. DescribeCron(RecurrenceToCron(r)) = [kind |-> "weekly", weekday |-> r.weekday, time |-> r.time]
    BY <2>1, <2>2, FieldKinds DEF RecurrenceToCron, Cron, DescribeCron, StepOf
  <2>4. r = [kind |-> "weekly", weekday |-> r.weekday, time |-> r.time]
    BY <1>4
  <2>5. QED
    BY <2>3, <2>4
<1>5. CASE r \in [kind : {"months"}, every : 1..12, day : 1..28, time : TimesOfDay]
  <2>1. r.kind = "months" /\ r.time \in TimesOfDay
    BY <1>5
  <2>2. r.time = <<r.time[1], r.time[2]>>
    BY <2>1, TimeIsPair
  <2>3. DescribeCron(RecurrenceToCron(r)) = [kind |-> "months", every |-> r.every, day |-> r.day, time |-> r.time]
    BY <2>1, <2>2, FieldKinds DEF RecurrenceToCron, Cron, DescribeCron, StepOf
  <2>4. r = [kind |-> "months", every |-> r.every, day |-> r.day, time |-> r.time]
    BY <1>5
  <2>5. QED
    BY <2>3, <2>4
<1>6. QED
  BY <1>1, <1>2, <1>3, <1>4, <1>5 DEF ValidRecurrences

-----------------------------------------------------------------------------
(* What each task is given. *)
LEMMA Given ==
  ASSUME SchemaInit
  PROVE  /\ phase = "given"
         /\ task = "repeat" => input \in Repetitions
         /\ task = "read" => input \in BoundedSeq({"d", "dot", "comma"}, MaxText)
         /\ task = "name" => \E page \in BoundedSeq(Elements, MaxPage) : \E i \in DOMAIN page :
                               input = [page |-> page, target |-> i]
         /\ task = "convert" => input \in Recordings
<1>0. /\ "repeat" \notin {"name", "convert", "read"}
      /\ "read" \notin {"name", "convert", "repeat"}
      /\ "name" \notin {"repeat", "convert", "read"}
      /\ "convert" \notin {"repeat", "name", "read"}
  OBVIOUS
<1>1. phase = "given"
  BY ZenonT(20) DEF SchemaInit
<1>2. task = "repeat" => input \in Repetitions
  BY <1>0, ZenonT(20) DEF SchemaInit
<1>3. task = "read" => input \in BoundedSeq({"d", "dot", "comma"}, MaxText)
  BY <1>0, ZenonT(20) DEF SchemaInit
<1>4. task = "name" => \E page \in BoundedSeq(Elements, MaxPage) : \E i \in DOMAIN page :
                                   input = [page |-> page, target |-> i]
  BY <1>0, ZenonT(20) DEF SchemaInit
<1>5. task = "convert" => input \in Recordings
  BY <1>0, ZenonT(20) DEF SchemaInit
<1>6. QED
  BY <1>1, <1>2, <1>3, <1>4, <1>5

(* What becomes of a recurrence.                                            *)
CronInv ==
  /\ task = "repeat" => input \in ValidRecurrences
  /\ Did("repeat") => output = RecurrenceToCron(input)

(* recurrence.ts 4-12: for every recurrence the form lets through, the cron  *)
(* line fires at the times it means and is read back as what was picked.     *)
THEOREM CronIsRight == SchemaSpec => []CronMeansWhatWasPicked
<1>1. SchemaInit => CronInv
  <2> SUFFICES ASSUME SchemaInit PROVE CronInv
    OBVIOUS
  <2>1. phase = "given" /\ (task = "repeat" => input \in Repetitions)
    BY Given, Zenon
  <2>2. QED
    BY <2>1, SchemaAssumption DEF CronInv, Did
<1>2. CronInv /\ [SchemaNext]_schemaVars => CronInv'
  BY DEF CronInv, Did, SchemaNext, schemaVars, Begins, Name, Grow, Convert, Repeat, Read
<1>3. CronInv => CronMeansWhatWasPicked
  <2> SUFFICES ASSUME CronInv, Did("repeat") PROVE CronMeansWhatWasPicked
    BY DEF CronMeansWhatWasPicked
  <2>1. input \in ValidRecurrences /\ output = RecurrenceToCron(input)
    BY DEF CronInv, Did
  <2>2. Times \subseteq Moments
    BY SchemaAssumption DEF Moments
  <2>3. \A t \in Times : Fires(output, t) <=> Meant(input, t)
    BY <2>1, <2>2, CronFires
  <2>4. DescribeCron(output) = input
    BY <2>1, CronReadBack
  <2>5. QED
    BY <2>3, <2>4 DEF CronMeansWhatWasPicked
<1>4. QED
  BY <1>1, <1>2, <1>3, PTL DEF SchemaSpec

-----------------------------------------------------------------------------
(* Reading.                                                                  *)

(* A set of numbers that is not empty has a least member, and a greatest one *)
(* when it is bounded.                                                       *)
LEMMA Least ==
  ASSUME NEW T, T \subseteq Nat, T # {}
  PROVE  \E x \in T : \A y \in T : x <= y
<1> DEFINE R == OpToRel(<, Nat)
<1>1. IsWellFoundedOn(R, Nat)
  BY NatLessThanWellFounded
<1>2. PICK x \in T : \A y \in T : ~ (<<y, x>> \in R)
  <2> HIDE DEF R
  <2> QED
    BY <1>1, WFMin
<1>3. \A y \in T : ~(y < x)
  BY <1>2 DEF OpToRel
<1>4. QED
  BY <1>3

LEMMA Greatest ==
  ASSUME NEW n \in Nat, NEW T, T \subseteq 0..n, T # {}
  PROVE  \E x \in T : \A y \in T : y <= x
<1> DEFINE U == {n - y : y \in T}
<1>1. PICK u \in U : \A v \in U : u <= v
  <2>1. U \subseteq Nat
    OBVIOUS
  <2>2. U # {}
    BY Zenon
  <2> HIDE DEF U
  <2>3. QED
    BY <2>1, <2>2, Least
<1>2. PICK x \in T : u = n - x
  BY <1>1
<1>3. \A y \in T : y <= x
  <2> TAKE y \in T
  <2>1. n - x <= n - y
    BY <1>1, <1>2
  <2>2. QED
    BY <2>1
<1>4. QED
  BY <1>3
Characters == {"d", "dot", "comma"}
Texts == Seq(Characters)

(* The last mark is the one after which there is none. *)
LEMMA LastMarkIsLast ==
  ASSUME NEW text \in Texts, MarksOf(text) # {}
  PROVE  /\ LastMark(text) \in MarksOf(text)
         /\ \A j \in MarksOf(text) : j <= LastMark(text)
<1>1. MarksOf(text) \subseteq 0..Len(text) /\ Len(text) \in Nat
  BY DEF MarksOf, Texts
<1>2. \E i \in MarksOf(text) : \A j \in MarksOf(text) : j <= i
  BY <1>1, Greatest
<1>3. QED
  BY <1>2 DEF LastMark

(* What is a mark and what is a digit, of a text and of its beginning. *)
LEMMA MarksAndDigits ==
  ASSUME NEW text \in Texts
  PROVE  /\ MarksOf(text) \subseteq 1..Len(text) /\ DOMAIN text = 1..Len(text) /\ Len(text) \in Nat
         /\ \A i \in 1..Len(text) : text[i] \in Characters
         /\ \A i \in 1..Len(text) : i \in MarksOf(text) <=> text[i] # "d"
         /\ \A i \in 1..Len(text) : i \in MarksOf(text) <=> (text[i] = "dot" \/ text[i] = "comma")
<1>1. DOMAIN text = 1..Len(text) /\ Len(text) \in Nat
  BY DEF Texts
<1>2. \A i \in 1..Len(text) : text[i] \in Characters
  BY DEF Texts
<1>3. \A i : i \in MarksOf(text) <=> i \in 1..Len(text) /\ text[i] \in {"dot", "comma"}
  BY <1>1 DEF MarksOf, Marks
<1>4. QED
  BY <1>1, <1>2, <1>3 DEF Characters

(* Between its first digit and the last mark, the thousands of a text are    *)
(* marked every fourth position, counted from that last mark: the marks are  *)
(* there, and nowhere else.                                                  *)
LEMMA ThousandsEveryFourth ==
  ASSUME NEW text \in Texts, MarksOf(text) # {}, NEW first \in MarksOf(text), first < LastMark(text),
         Grouped3(text, LastMark(text))
  PROVE  /\ 1 \notin MarksOf(text)
         /\ \A q \in 1..LastMark(text) - 1 : q \in MarksOf(text) <=> (LastMark(text) - q) % 4 = 0
<1> DEFINE M == MarksOf(text)
           L == LastMark(text)
           B == Bounds(text, L)
<1>1. L \in M /\ (\A j \in M : j <= L) /\ M \subseteq 1..Len(text) /\ Len(text) \in Nat
  BY LastMarkIsLast, MarksAndDigits
<1>2. /\ B = {0} \cup M
      /\ B \subseteq 0..L /\ 0 \in B /\ L \in B /\ L \in Nat
  BY <1>1 DEF Bounds
<1>3. \A i, j \in B : i < j /\ (\A k \in B : ~(i < k /\ k < j)) =>
        IF i = 0 THEN j - i > 1 /\ (j # L => j - i <= 4) ELSE j - i = 4
  BY DEF Grouped3, Follows
<1> HIDE DEF M, L, B
(* Every bound but the last has a next one. *)
<1>4. ASSUME NEW q \in 0..L, q < L
      PROVE  \E s \in B : q < s /\ \A k \in B : q < k => s <= k
  <2> DEFINE T == {k \in B : q < k}
  <2>1. T \subseteq Nat /\ L \in T
    BY <1>2, <1>4
  <2>2. PICK s \in T : \A k \in T : s <= k
    <3> HIDE DEF T
    <3> QED
      BY <2>1, Least
  <2>3. QED
    BY <2>2
(* And every position but the first has a bound before it. *)
<1>5. ASSUME NEW q \in 0..L, q > 0
      PROVE  \E b \in B : b < q /\ \A k \in B : k < q => k <= b
  <2> DEFINE T == {k \in B : k < q}
  <2>1. T \subseteq 0..L /\ 0 \in T
    BY <1>2, <1>5
  <2>2. PICK b \in T : \A k \in T : k <= b
    <3> HIDE DEF T
    <3> QED
      BY <1>2, <2>1, Greatest
  <2>3. QED
    BY <2>2
(* Marks are a multiple of four before the last one. *)
<1>6. \A q \in M : (L - q) % 4 = 0
  <2> DEFINE Wrong == {q \in M : (L - q) % 4 # 0}
  <2> SUFFICES ASSUME Wrong # {} PROVE FALSE
    OBVIOUS
  <2>1. Wrong \subseteq 0..L
    BY <1>1, <1>2
  <2>2. PICK q \in Wrong : \A p \in Wrong : p <= q
    <3> HIDE DEF Wrong
    <3> QED
      BY <1>2, <2>1, Greatest
  <2>3. q \in 0..L /\ q < L /\ q \in B /\ q # 0
    BY <1>1, <1>2, <2>2
  <2>4. PICK s \in B : q < s /\ \A k \in B : q < k => s <= k
    BY <1>4, <2>3
  <2>5. s - q = 4
    BY <1>2, <1>3, <2>3, <2>4
  <2>6. s \in M /\ s \in 0..L
    BY <1>2, <2>3, <2>4
  <2>7. (L - s) % 4 = 0
    BY <2>2, <2>4, <2>6, <2>3
  <2>8. (L - q) % 4 = 0
    BY <1>2, <2>3, <2>5, <2>6, <2>7
  <2>9. QED
    BY <2>2, <2>8
(* The first mark is where the second to fourth position is. *)
<1>7. ASSUME NEW s \in B, 0 < s, \A k \in B : 0 < k => s <= k
      PROVE  s > 1 /\ s <= 4
  <2>1. s <= first /\ first < L /\ s \in 0..L
    BY <1>1, <1>2, <1>7 DEF M, L
  <2>2. s # L
    BY <1>1, <1>2, <2>1 DEF M
  <2>3. QED
    BY <1>2, <1>3, <1>7, <2>1, <2>2
<1>8. 1 \notin M
  <2>1. PICK s \in B : 0 < s /\ \A k \in B : 0 < k => s <= k
    <3>1. 0 \in 0..L /\ 0 < L
      BY <1>1, <1>2
    <3>2. QED
      BY <1>4, <3>1
  <2>2. QED
    BY <1>2, <1>7, <2>1
<1>9. ASSUME NEW q \in 1..L - 1, (L - q) % 4 = 0, q \notin M
      PROVE  FALSE
  <2>1. q \in 0..L /\ q < L /\ q > 0 /\ q \notin B
    BY <1>2, <1>9
  <2>2. PICK s \in B : q < s /\ \A k \in B : q < k => s <= k
    BY <1>4, <2>1
  <2>3. PICK b \in B : b < q /\ \A k \in B : k < q => k <= b
    BY <1>5, <2>1
  <2>4. s \in 0..L /\ b \in 0..L /\ s \in M /\ b < s
    BY <1>2, <2>1, <2>2, <2>3
  <2>5. \A k \in B : ~(b < k /\ k < s)
    BY <1>2, <2>1, <2>2, <2>3
  <2>6. (L - s) % 4 = 0
    BY <1>6, <2>4
  <2>7. s - q < 4
    <3>1. CASE b = 0
      <4>1. \A k \in B : 0 < k => s <= k
        BY <1>2, <2>4, <2>5, <3>1
      <4>2. s <= 4
        BY <1>7, <2>1, <2>4, <4>1
      <4>3. QED
        BY <2>1, <2>4, <4>2
    <3>2. CASE b # 0
      <4>1. s - b = 4
        BY <1>3, <2>4, <2>5, <3>2
      <4>2. QED
        BY <2>1, <2>3, <2>4, <4>1
    <3>3. QED
      BY <3>1, <3>2
  <2>8. QED
    BY <1>2, <1>9, <2>1, <2>2, <2>4, <2>6, <2>7
<1>10. QED
  BY <1>6, <1>8, <1>9 DEF M, L

(* A reading with decimals has them after the last mark. *)
LEMMA ReadingsEndAtLastMark ==
  ASSUME NEW text \in Texts, NEW n \in 1..Len(text), n \in Readings(text)
  PROVE  MarksOf(text) # {} /\ n = Len(text) - LastMark(text) /\ LastMark(text) > 1
<1> DEFINE mark == Len(text) - n
<1>1. Len(text) \in Nat /\ n # 0
  BY MarksAndDigits
<1>2. /\ mark > 1 /\ text[mark] \in {"dot", "comma"}
      /\ \A i \in mark + 1..Len(text) : text[i] = "d"
  BY <1>1 DEF Readings, WrittenWith
<1>3. mark \in MarksOf(text)
  BY <1>1, <1>2, MarksAndDigits
<1>4. \A j \in MarksOf(text) : j <= mark
  BY <1>1, <1>2, MarksAndDigits
<1>5. LastMark(text) = mark
  <2>1. LastMark(text) \in MarksOf(text) /\ mark <= LastMark(text)
    BY <1>3, LastMarkIsLast
  <2>2. LastMark(text) <= mark /\ LastMark(text) \in Int
    BY <1>4, <2>1, MarksAndDigits
  <2>3. QED
    BY <1>1, <2>1, <2>2
<1>6. QED
  BY <1>1, <1>2, <1>3, <1>5

(* Of a text with a mark, a reading without decimals has three digits after  *)
(* the last mark, and one kind of mark.                                      *)
LEMMA WholeReadings ==
  ASSUME NEW text \in Texts, MarksOf(text) # {}, 0 \in Readings(text)
  PROVE  /\ Len(text) - LastMark(text) = 3
         /\ \A i, j \in MarksOf(text) : text[i] = text[j]
<1>1. PICK mark \in {"dot", "comma"} : Thousands(text, mark)
  BY DEF Readings, WrittenWith
<1>2. \A i \in MarksOf(text) : text[i] = mark
  BY <1>1, MarksAndDigits DEF Thousands
<1>3. \A i \in 1..Len(text) : text[i] = mark <=> (Len(text) - i) % 4 = 3
  <2>1. \E i \in DOMAIN text : text[i] # "d"
    BY MarksAndDigits
  <2>2. QED
    BY <1>1, <2>1, MarksAndDigits DEF Thousands
<1>4. LastMark(text) \in 1..Len(text) /\ Len(text) \in Nat /\ (Len(text) - LastMark(text)) % 4 = 3
  BY <1>2, <1>3, LastMarkIsLast, MarksAndDigits
<1>5. Len(text) - LastMark(text) <= 3
  <2> SUFFICES ASSUME Len(text) - LastMark(text) > 3 PROVE FALSE
    BY <1>4
  <2> DEFINE q == Len(text) - 3
  <2>1. q \in 1..Len(text) /\ (Len(text) - q) % 4 = 3 /\ q > LastMark(text)
    BY <1>4
  <2>2. q \in MarksOf(text)
    BY <1>1, <1>3, <2>1, MarksAndDigits
  <2>3. QED
    BY <1>4, <2>1, <2>2, LastMarkIsLast
<1>6. QED
  BY <1>2, <1>4, <1>5

(* So the number taken is the only reading: with one mark because three      *)
(* decimals are refused, with both because they tell each other apart.       *)
LEMMA NumberIsTheOnlyReading ==
  ASSUME NEW text \in Texts, ParseLocaleNumber(text) # NotANumber,
         ~EndsInMark(text), ~OneMarkRepeated(text), ~MixedThousands(text)
  PROVE  Readings(text) = {ParseLocaleNumber(text)}
<1> DEFINE L == LastMark(text)
           decimals == Len(text) - L
<1>0. /\ Len(text) \in Nat /\ text # <<>> /\ DOMAIN text = 1..Len(text) /\ Len(text) # 0
      /\ Readings(text) \subseteq 0..Len(text)
  <2>1. text # <<>>
    BY DEF ParseLocaleNumber
  <2>2. QED
    BY <2>1, MarksAndDigits DEF Readings, Texts
<1>1. CASE MarksOf(text) = {}
  <2>1. ParseLocaleNumber(text) = 0
    BY <1>1 DEF ParseLocaleNumber
  <2>2. \A i \in DOMAIN text : text[i] = "d"
    BY <1>1, MarksAndDigits
  <2>3. 0 \in Readings(text)
    BY <1>0, <2>2 DEF Readings, WrittenWith, Thousands
  <2>4. \A n \in Readings(text) : n = 0
    BY <1>0, <1>1, ReadingsEndAtLastMark
  <2>5. QED
    BY <2>1, <2>3, <2>4
<1>2. CASE MarksOf(text) # {}
  <2>1. L \in MarksOf(text) /\ L \in 1..Len(text) /\ \A j \in MarksOf(text) : j <= L /\ j \in 1..Len(text)
    BY <1>2, LastMarkIsLast, MarksAndDigits
  <2>2. /\ ParseLocaleNumber(text) = decimals /\ Grouped3(text, L)
        /\ ~(Cardinality(MarksOf(text)) = 1 /\ decimals = 3)
    BY <1>2 DEF ParseLocaleNumber
  <2>3. decimals \in 1..Len(text)
    BY <1>0, <2>1 DEF EndsInMark
  <2>4. \A n \in Readings(text) : n = 0 \/ n = decimals
    BY <1>0, ReadingsEndAtLastMark
  <2>5. text[L] \in {"dot", "comma"} /\ \A i \in L + 1..Len(text) : text[i] = "d"
    BY <1>0, <2>1, MarksAndDigits
  <2> DEFINE before == SubSeq(text, 1, L - 1)
  <2>6. /\ Len(before) = L - 1 /\ DOMAIN before = 1..L - 1
        /\ \A i \in 1..L - 1 : before[i] = text[i]
    BY <1>0, <2>1 DEF Texts
  <2> HIDE DEF before
  (* It is enough to see what is before the last mark. *)
  <2>7. ASSUME NEW thousands \in {"dot", "comma"}, thousands # text[L], L > 1, Thousands(before, thousands)
        PROVE  decimals \in Readings(text)
    <3>1. Len(text) - decimals = L /\ decimals # 0
      BY <1>0, <2>1, <2>3
    <3>2. WrittenWith(text, thousands, text[L], decimals)
      BY <2>5, <2>7, <3>1 DEF WrittenWith, before
    <3>3. QED
      BY <2>3, <2>5, <2>7, <3>2 DEF Readings
  <2>8. CASE MarksOf(text) = {L}
    <3>1. decimals # 3
      <4>1. Cardinality(MarksOf(text)) = 1
        BY <2>8, FS_Singleton
      <4>2. QED
        BY <2>2, <4>1
    <3>2. 0 \notin Readings(text)
      BY <1>2, <3>1, WholeReadings
    <3>3. L > 1
      <4>1. Bounds(text, L) = {0, L} /\ 0 < L
        BY <2>1, <2>8 DEF Bounds
      <4>2. Follows(text, L, 0, L)
        BY <2>1, <4>1 DEF Follows
      <4>3. QED
        BY <2>1, <2>2, <4>1, <4>2 DEF Grouped3
    <3>4. \A i \in 1..L - 1 : text[i] = "d"
      BY <1>0, <2>1, <2>8, MarksAndDigits
    <3>5. PICK thousands \in {"dot", "comma"} : thousands # text[L]
      OBVIOUS
    <3>6. Thousands(before, thousands)
      BY <2>6, <3>4 DEF Thousands
    <3>7. decimals \in Readings(text)
      BY <2>7, <3>3, <3>5, <3>6
    <3>8. QED
      BY <2>2, <2>4, <3>2, <3>7
  <2>9. CASE MarksOf(text) # {L}
    (* Two kinds of mark: one for the thousands, and the last. *)
    <3>1. PICK first \in MarksOf(text) : text[first] # text[L]
      <4> SUFFICES ASSUME \A i \in MarksOf(text) : text[i] = text[L] PROVE FALSE
        OBVIOUS
      <4>1. {text[i] : i \in MarksOf(text)} = {text[L]}
        BY <2>1
      <4>2. Cardinality({text[i] : i \in MarksOf(text)}) = 1
        BY <4>1, FS_Singleton
      <4>3. Cardinality(MarksOf(text)) > 1
        <5>1. PICK other \in MarksOf(text) : other # L
          BY <2>1, <2>9
        <5>2. IsFiniteSet(MarksOf(text))
          <6>1. MarksOf(text) \in SUBSET (1..Len(text))
            BY MarksAndDigits
          <6>2. IsFiniteSet(1..Len(text))
            BY <1>0, FS_Interval
          <6>3. QED
            BY <6>1, <6>2, FS_Subset
        <5>3. {L, other} \in SUBSET MarksOf(text) /\ Cardinality({L, other}) = 2
          <6>1. IsFiniteSet({L}) /\ Cardinality({L}) = 1
            BY FS_Singleton
          <6>2. Cardinality({L} \cup {other}) = 2
            BY <5>1, <6>1, FS_AddElement
          <6>3. {L, other} = {L} \cup {other}
            OBVIOUS
          <6>4. QED
            BY <2>1, <5>1, <6>2, <6>3
        <5>4. QED
          BY <5>2, <5>3, FS_Subset, FS_CardinalityType
      <4>4. QED
        BY <4>2, <4>3 DEF OneMarkRepeated
    <3>2. first < L /\ first \in 1..Len(text)
      BY <2>1, <3>1
    <3>3. 0 \notin Readings(text)
      BY <1>2, <2>1, <3>1, WholeReadings
    <3>4. \A j \in MarksOf(text) : j < L => text[j] = text[first]
      BY <3>1, <3>2 DEF MixedThousands
    <3>5. /\ 1 \notin MarksOf(text)
          /\ \A q \in 1..L - 1 : q \in MarksOf(text) <=> (L - q) % 4 = 0
      BY <1>2, <2>2, <3>2, ThousandsEveryFourth
    <3>6. text[first] \in {"dot", "comma"}
      BY <3>2, MarksAndDigits
    <3>7. Thousands(before, text[first])
      <4>1. \A q \in 1..L - 1 : before[q] = IF q \in MarksOf(text) THEN text[first] ELSE "d"
        BY <1>0, <2>1, <2>6, <3>4, MarksAndDigits
      <4>2. \A q \in 1..L - 1 : (L - q) % 4 = 0 <=> (Len(before) - q) % 4 = 3
        <5> TAKE q \in 1..L - 1
        <5>1. Len(before) - q = (L - q) - 1 /\ L - q \in Int
          BY <2>1, <2>6
        <5>2. \A x \in Int : x % 4 = 0 <=> (x - 1) % 4 = 3
          OBVIOUS
        <5>3. QED
          BY <5>1, <5>2
      <4>3. \A q \in 1..L - 1 : before[q] = text[first] <=> (Len(before) - q) % 4 = 3
        BY <3>5, <3>6, <4>1, <4>2
      <4>4. 1 \in 1..L - 1 /\ before[1] = "d"
        BY <1>0, <2>1, <3>2, <3>5, <4>1
      <4>5. QED
        BY <2>6, <4>1, <4>3, <4>4 DEF Thousands
    <3>8. decimals \in Readings(text)
      BY <2>1, <2>7, <3>1, <3>2, <3>6, <3>7
    <3>9. QED
      BY <2>2, <2>4, <3>3, <3>8
  <2>10. QED
    BY <2>8, <2>9
<1>3. QED
  BY <1>1, <1>2

(* What becomes of a text.                                                   *)
ReadInv ==
  /\ task = "read" => input \in Texts
  /\ Did("read") => output = ParseLocaleNumber(input)

LEMMA TextsGiven == BoundedSeq(Characters, MaxText) \subseteq Texts
BY DEF BoundedSeq, SeqOf, Texts

(* read-result.ts: a number taken from a text, of any length, is the only    *)
(* one any country writes like that.                                         *)
THEOREM NumbersAreNotGuessed == SchemaSpec => []AmbiguousNeverGuessed
<1>1. SchemaInit => ReadInv
  <2> SUFFICES ASSUME SchemaInit PROVE ReadInv
    OBVIOUS
  <2>1. phase = "given" /\ (task = "read" => input \in BoundedSeq(Characters, MaxText))
    BY Given, Zenon DEF Characters
  <2>2. QED
    BY <2>1, TextsGiven DEF ReadInv, Did
<1>2. ReadInv /\ [SchemaNext]_schemaVars => ReadInv'
  BY DEF ReadInv, Did, SchemaNext, schemaVars, Begins, Name, Grow, Convert, Repeat, Read
<1>3. ReadInv => AmbiguousNeverGuessed
  BY NumberIsTheOnlyReading DEF ReadInv, AmbiguousNeverGuessed, Did
<1>4. QED
  BY <1>1, <1>2, <1>3, PTL DEF SchemaSpec

-----------------------------------------------------------------------------
(* Naming.                                                                   *)

(* Of the candidates that name one element on the page, the best is chosen:  *)
(* the last one always does.                                                 *)
LEMMA SomeCandidateNames ==
  ASSUME NEW page, NEW i
  PROVE  \E k \in 1..9 :
           /\ Names(page, i, BuildCandidates(page, i)[k])
           /\ BestCandidate(page, i) = BuildCandidates(page, i)[k].selector
<1> DEFINE Fits(k) == Names(page, i, BuildCandidates(page, i)[k])
           T == {k \in 1..9 : Fits(k)}
<1>1. Fits(9)
  BY DEF BuildCandidates, Names, Unique
<1> HIDE DEF Fits
<1>2. PICK k \in T : \A j \in T : k <= j
  <2>1. T \subseteq Nat /\ 9 \in T
    BY <1>1
  <2> HIDE DEF T
  <2>2. QED
    BY <2>1, Least
<1>3. k \in 1..9 /\ Fits(k) /\ \A j \in 1..k - 1 : ~Fits(j)
  BY <1>2
<1>4. \E best \in 1..9 : Fits(best) /\ BestCandidate(page, i) = BuildCandidates(page, i)[best].selector
  BY <1>3 DEF BestCandidate, Fits
<1>5. QED
  BY <1>4 DEF Fits

(* How many elements of its kind there are up to one tells it from the       *)
(* others of its kind.                                                       *)
LEMMA NthTellsApart ==
  ASSUME NEW page, NEW i \in Nat, NEW j \in Nat, i < j, 1 <= i, page[i].tag = page[j].tag
  PROVE  Nth(page, i) # Nth(page, j)
<1> DEFINE Up(k) == {m \in 1..k : page[m].tag = page[k].tag}
<1>1. IsFiniteSet(Up(i)) /\ IsFiniteSet(Up(j))
  <2>1. IsFiniteSet(1..i) /\ IsFiniteSet(1..j)
    BY FS_Interval
  <2>2. Up(i) \in SUBSET (1..i) /\ Up(j) \in SUBSET (1..j)
    OBVIOUS
  <2> HIDE DEF Up
  <2>3. QED
    BY <2>1, <2>2, FS_Subset
<1>2. Up(i) \in SUBSET Up(j) /\ j \in Up(j) /\ j \notin Up(i)
  OBVIOUS
<1> HIDE DEF Up
<1>3. Cardinality(Up(i)) # Cardinality(Up(j))
  BY <1>1, <1>2, FS_Subset
<1>4. QED
  BY <1>3 DEF Nth, Up

(* What each kind of selector asks of an element. *)
LEMMA WhatMatches ==
  ASSUME NEW page, NEW j, NEW a, NEW b
  PROVE  /\ Matches(page, Selector("role", a, b), j) <=> RoleOf(page[j]) = a /\ AccessibleName(page[j]) = b
         /\ Matches(page, Selector("label", a, b), j) <=> LabelTextFor(page[j]) = a
         /\ Matches(page, Selector("placeholder", a, b), j) <=> page[j].placeholder = a
         /\ Matches(page, Selector("text", a, b), j) <=> page[j].text = a
         /\ Matches(page, Selector("testid", a, b), j) <=> page[j].testid = a
         /\ Matches(page, Selector("name", a, b), j) <=> page[j].name = a
         /\ Matches(page, Selector("id", a, b), j) <=> page[j].id = a
         /\ Matches(page, Selector("nameAndValue", a, b), j) <=>
              page[j].tag = "input" /\ page[j].name = a /\ page[j].value = b
<1>1. Matches(page, Selector("role", a, b), j) <=> RoleOf(page[j]) = a /\ AccessibleName(page[j]) = b
  BY DEF Matches, Selector
<1>2. Matches(page, Selector("label", a, b), j) <=> LabelTextFor(page[j]) = a
  BY DEF Matches, Selector
<1>3. Matches(page, Selector("placeholder", a, b), j) <=> page[j].placeholder = a
  BY DEF Matches, Selector
<1>4. Matches(page, Selector("text", a, b), j) <=> page[j].text = a
  BY DEF Matches, Selector
<1>5. Matches(page, Selector("testid", a, b), j) <=> page[j].testid = a
  BY DEF Matches, Selector
<1>6. Matches(page, Selector("name", a, b), j) <=> page[j].name = a
  BY DEF Matches, Selector
<1>7. Matches(page, Selector("id", a, b), j) <=> page[j].id = a
  BY DEF Matches, Selector
<1>8. Matches(page, Selector("nameAndValue", a, b), j) <=>
        page[j].tag = "input" /\ page[j].name = a /\ page[j].value = b
  BY DEF Matches, Selector
<1>9. QED
  BY <1>1, <1>2, <1>3, <1>4, <1>5, <1>6, <1>7, <1>8

(* And what a path asks.                                                     *)
LEMMA PathMatches ==
  ASSUME NEW page, NEW i, NEW j
  PROVE  Matches(page, ByPath(page, i), j) <=> page[j].tag = page[i].tag /\ Nth(page, j) = Nth(page, i)
BY DEF Matches, ByPath

(* What is said of an element is so of it. *)
LEMMA CandidateMatches ==
  ASSUME NEW page, NEW i, NEW k \in 1..9, BuildCandidates(page, i)[k].said
  PROVE  Matches(page, BuildCandidates(page, i)[k].selector, i)
<1>1. k \in {1, 2, 3, 4, 5, 6, 7, 8, 9}
  OBVIOUS
<1>2. CASE k = 1 BY <1>2, WhatMatches DEF BuildCandidates
<1>3. CASE k = 2 BY <1>3, WhatMatches DEF BuildCandidates
<1>4. CASE k = 3 BY <1>4, WhatMatches DEF BuildCandidates
<1>5. CASE k = 4 BY <1>5, WhatMatches DEF BuildCandidates
<1>6. CASE k = 5 BY <1>6, WhatMatches DEF BuildCandidates
<1>7. CASE k = 6 BY <1>7, WhatMatches DEF BuildCandidates
<1>8. CASE k = 7 BY <1>8, WhatMatches DEF BuildCandidates
<1>9. CASE k = 8 BY <1>9, WhatMatches DEF BuildCandidates, Grouped
<1>10. CASE k = 9 BY <1>10, PathMatches DEF BuildCandidates
<1>11. QED
  BY <1>1, <1>2, <1>3, <1>4, <1>5, <1>6, <1>7, <1>8, <1>9, <1>10

(* The flag and the selector of each candidate. *)
LEMMA CandidateShapes ==
  ASSUME NEW page, NEW i
  PROVE  /\ BuildCandidates(page, i)[1].flag = "role"
         /\ BuildCandidates(page, i)[1].selector = Selector("role", RoleOf(page[i]), AccessibleName(page[i]))
         /\ BuildCandidates(page, i)[2].flag = "label"
         /\ BuildCandidates(page, i)[2].selector = Selector("label", LabelTextFor(page[i]), None)
         /\ BuildCandidates(page, i)[3].flag = "placeholder"
         /\ BuildCandidates(page, i)[3].selector = Selector("placeholder", page[i].placeholder, None)
         /\ BuildCandidates(page, i)[4].flag = "text"
         /\ BuildCandidates(page, i)[4].selector = Selector("text", page[i].text, None)
         /\ BuildCandidates(page, i)[5].flag = "testid"
         /\ BuildCandidates(page, i)[5].selector = Selector("testid", page[i].testid, None)
         /\ BuildCandidates(page, i)[6].flag = "name"
         /\ BuildCandidates(page, i)[6].selector = Selector("name", page[i].name, None)
         /\ BuildCandidates(page, i)[7].flag = "id"
         /\ BuildCandidates(page, i)[7].selector = Selector("id", page[i].id, None)
         /\ BuildCandidates(page, i)[8].flag = "css"
         /\ BuildCandidates(page, i)[8].selector = Selector("nameAndValue", page[i].name, page[i].value)
         /\ BuildCandidates(page, i)[9].flag = "css"
         /\ BuildCandidates(page, i)[9].selector = ByPath(page, i)
BY DEF BuildCandidates

(* Of a selector that is neither miscounted nor a path, what made it unique  *)
(* is all that is found; a path finds one element whatever is counted.       *)
LEMMA UniqueIsFound ==
  ASSUME NEW page \in Seq(Elements), NEW i \in DOMAIN page, NEW k \in 1..9,
         Names(page, i, BuildCandidates(page, i)[k]),
         ~Miscounted(page, i, BuildCandidates(page, i)[k].selector)
  PROVE  Found(page, BuildCandidates(page, i)[k].selector) = {i}
<1> DEFINE selector == BuildCandidates(page, i)[k].selector
           flag == BuildCandidates(page, i)[k].flag
<1>0. DOMAIN page = 1..Len(page) /\ Len(page) \in Nat /\ i \in Nat /\ 1 <= i
  OBVIOUS
<1>1. i \in Found(page, selector)
  BY CandidateMatches DEF Names, Found
<1>2. k \in {1, 2, 3, 4, 5, 6, 7, 8, 9}
  OBVIOUS
<1>15. ~Miscounted(page, i, selector) /\ Unique(page, i)[flag]
  BY DEF Names
<1>16. SUFFICES Found(page, selector) = {i}
  OBVIOUS
<1> HIDE DEF selector, flag
<1>3. ASSUME NEW S, Cardinality(S) = 1, S \subseteq DOMAIN page, Found(page, selector) \subseteq S
      PROVE  Found(page, selector) = {i}
  <2>1. IsFiniteSet(S)
    <3>1. IsFiniteSet(DOMAIN page)
      BY <1>0, FS_Interval
    <3>2. S \in SUBSET (DOMAIN page)
      BY <1>3
    <3>3. QED
      BY <3>1, <3>2, FS_Subset
  <2>2. PICK x : S = {x}
    BY <1>3, <2>1, FS_Singleton
  <2>3. QED
    BY <1>1, <1>3, <2>2
<1>4. CASE k = 1
  <2> DEFINE S == {j \in DOMAIN page : RoleOf(page[j]) = RoleOf(page[i])
                                  /\ AccessibleName(page[j]) = AccessibleName(page[i])}
  <2>1. flag = "role" /\ selector = Selector("role", RoleOf(page[i]), AccessibleName(page[i]))
    BY <1>4, CandidateShapes DEF flag, selector
  <2>2. Cardinality(S) = 1
    BY <1>15, <2>1 DEF Unique
  <2>3. S \subseteq DOMAIN page
    OBVIOUS
  <2>4. \A j \in DOMAIN page : Matches(page, selector, j) => j \in S
    BY <2>1, WhatMatches
  <2> HIDE DEF S
  <2>5. Found(page, selector) \subseteq S
    BY <2>4 DEF Found
  <2>6. QED
    BY <1>3, <2>2, <2>3, <2>5
<1>5. CASE k = 2
  <2> DEFINE S == {j \in DOMAIN page : page[j].tag \in Controls /\ LabelTextFor(page[j]) = LabelTextFor(page[i])}
  <2>1. flag = "label" /\ selector = Selector("label", LabelTextFor(page[i]), None)
    BY <1>5, CandidateShapes DEF flag, selector
  <2>2. Cardinality(S) = 1
    BY <1>15, <2>1 DEF Unique
  <2>3. S \subseteq DOMAIN page
    OBVIOUS
  <2>4. \A j \in DOMAIN page : Matches(page, selector, j) => j \in S
    <3>1. selector.by = "label"
      BY <2>1 DEF Selector
    <3>2. \A j \in DOMAIN page : page[j].tag \in Controls
      BY <1>15, <3>1 DEF Miscounted
    <3>3. QED
      BY <2>1, <3>2, WhatMatches
  <2> HIDE DEF S
  <2>5. Found(page, selector) \subseteq S
    BY <2>4 DEF Found
  <2>6. QED
    BY <1>3, <2>2, <2>3, <2>5
<1>6. CASE k = 3
  <2> DEFINE S == {j \in DOMAIN page : page[j].placeholder = page[i].placeholder}
  <2>1. flag = "placeholder" /\ selector = Selector("placeholder", page[i].placeholder, None)
    BY <1>6, CandidateShapes DEF flag, selector
  <2>2. Cardinality(S) = 1
    BY <1>15, <2>1 DEF Unique
  <2>3. S \subseteq DOMAIN page
    OBVIOUS
  <2>4. \A j \in DOMAIN page : Matches(page, selector, j) => j \in S
    BY <2>1, WhatMatches
  <2> HIDE DEF S
  <2>5. Found(page, selector) \subseteq S
    BY <2>4 DEF Found
  <2>6. QED
    BY <1>3, <2>2, <2>3, <2>5
<1>7. CASE k = 4
  <2> DEFINE S == {j \in DOMAIN page : page[j].tag \in Worded /\ page[j].text = page[i].text}
  <2>1. flag = "text" /\ selector = Selector("text", page[i].text, None)
    BY <1>7, CandidateShapes DEF flag, selector
  <2>2. Cardinality(S) = 1
    BY <1>15, <2>1 DEF Unique
  <2>3. S \subseteq DOMAIN page
    OBVIOUS
  <2>4. \A j \in DOMAIN page : Matches(page, selector, j) => j \in S
    <3>1. selector.by = "text"
      BY <2>1 DEF Selector
    <3>2. \A j \in DOMAIN page : page[j].tag \in Worded
      BY <1>15, <3>1 DEF Miscounted
    <3>3. QED
      BY <2>1, <3>2, WhatMatches
  <2> HIDE DEF S
  <2>5. Found(page, selector) \subseteq S
    BY <2>4 DEF Found
  <2>6. QED
    BY <1>3, <2>2, <2>3, <2>5
<1>8. CASE k = 5
  <2> DEFINE S == {j \in DOMAIN page : page[j].testid = page[i].testid}
  <2>1. flag = "testid" /\ selector = Selector("testid", page[i].testid, None)
    BY <1>8, CandidateShapes DEF flag, selector
  <2>2. Cardinality(S) = 1
    BY <1>15, <2>1 DEF Unique
  <2>3. S \subseteq DOMAIN page
    OBVIOUS
  <2>4. \A j \in DOMAIN page : Matches(page, selector, j) => j \in S
    BY <2>1, WhatMatches
  <2> HIDE DEF S
  <2>5. Found(page, selector) \subseteq S
    BY <2>4 DEF Found
  <2>6. QED
    BY <1>3, <2>2, <2>3, <2>5
<1>9. CASE k = 6
  <2> DEFINE S == {j \in DOMAIN page : page[j].name = page[i].name}
  <2>1. flag = "name" /\ selector = Selector("name", page[i].name, None)
    BY <1>9, CandidateShapes DEF flag, selector
  <2>2. Cardinality(S) = 1
    BY <1>15, <2>1 DEF Unique
  <2>3. S \subseteq DOMAIN page
    OBVIOUS
  <2>4. \A j \in DOMAIN page : Matches(page, selector, j) => j \in S
    BY <2>1, WhatMatches
  <2> HIDE DEF S
  <2>5. Found(page, selector) \subseteq S
    BY <2>4 DEF Found
  <2>6. QED
    BY <1>3, <2>2, <2>3, <2>5
<1>10. CASE k = 7
  <2> DEFINE S == {j \in DOMAIN page : page[j].id = page[i].id}
  <2>1. flag = "id" /\ selector = Selector("id", page[i].id, None)
    BY <1>10, CandidateShapes DEF flag, selector
  <2>2. Cardinality(S) = 1
    BY <1>15, <2>1 DEF Unique
  <2>3. S \subseteq DOMAIN page
    OBVIOUS
  <2>4. \A j \in DOMAIN page : Matches(page, selector, j) => j \in S
    BY <2>1, WhatMatches
  <2> HIDE DEF S
  <2>5. Found(page, selector) \subseteq S
    BY <2>4 DEF Found
  <2>6. QED
    BY <1>3, <2>2, <2>3, <2>5
<1>11. CASE k = 8
  <2>1. selector = Selector("nameAndValue", page[i].name, page[i].value)
    BY <1>11, CandidateShapes DEF selector
  <2>2. QED
    BY <1>15, <2>1 DEF Miscounted, Selector
<1>12. CASE k = 9
  <2>1. selector = ByPath(page, i)
    BY <1>12, CandidateShapes DEF selector
  <2>2. ASSUME NEW j \in DOMAIN page, Matches(page, selector, j), j # i PROVE FALSE
    <3>1. page[j].tag = page[i].tag /\ Nth(page, j) = Nth(page, i)
      BY <2>1, <2>2, PathMatches
    <3>2. j \in Nat /\ 1 <= j /\ (i < j \/ j < i)
      BY <1>0, <2>2
    <3>3. QED
      BY <1>0, <3>1, <3>2, NthTellsApart
  <2>3. QED
    BY <1>1, <2>2 DEF Found
<1>13. QED
  BY <1>2, <1>4, <1>5, <1>6, <1>7, <1>8, <1>9, <1>10, <1>11, <1>12

(* An element keeps what can be said of it, other than where it sits, when   *)
(* the page grows.                                                           *)
LEMMA ElementKept ==
  ASSUME NEW page \in Seq(Elements), NEW i \in DOMAIN page, NEW el \in Elements,
         NEW at \in 1..Len(page) + 1
  PROVE  /\ InsertAt(page, at, el) \in Seq(Elements)
         /\ i + (IF at <= i THEN 1 ELSE 0) \in DOMAIN InsertAt(page, at, el)
         /\ InsertAt(page, at, el)[i + (IF at <= i THEN 1 ELSE 0)] = page[i]
<1> DEFINE left == SubSeq(page, 1, at - 1)
           right == SubSeq(page, at, Len(page))
<1>1. /\ Len(page) \in Nat /\ i \in 1..Len(page) /\ at \in Int
      /\ left \in Seq(Elements) /\ Len(left) = at - 1
      /\ \A k \in 1..at - 1 : left[k] = page[k]
  OBVIOUS
<1>2. /\ right \in Seq(Elements) /\ Len(right) = Len(page) - at + 1
      /\ \A k \in 1..Len(page) - at + 1 : right[k] = page[at + k - 1]
  OBVIOUS
<1>3. InsertAt(page, at, el) = (left \o <<el>>) \o right
  BY DEF InsertAt
<1> HIDE DEF left, right
<1>4. /\ left \o <<el>> \in Seq(Elements) /\ Len(left \o <<el>>) = at
      /\ \A k \in 1..at - 1 : (left \o <<el>>)[k] = page[k]
  BY <1>1
<1> DEFINE begin == left \o <<el>>
<1> HIDE DEF begin
<1>5. /\ begin \in Seq(Elements) /\ Len(begin) = at /\ \A k \in 1..at - 1 : begin[k] = page[k]
  BY <1>4 DEF begin
<1>6. /\ begin \o right \in Seq(Elements) /\ Len(begin \o right) = Len(page) + 1
      /\ \A k \in 1..at : (begin \o right)[k] = begin[k]
      /\ \A k \in at + 1..Len(page) + 1 : (begin \o right)[k] = right[k - at]
  <2>1. /\ begin \o right \in Seq(Elements) /\ Len(begin \o right) = Len(begin) + Len(right)
        /\ \A k \in 1..Len(begin) + Len(right) :
             (begin \o right)[k] = IF k <= Len(begin) THEN begin[k] ELSE right[k - Len(begin)]
    BY <1>2, <1>5, ConcatProperties
  <2>2. QED
    BY <1>1, <1>2, <1>5, <2>1
<1>7. InsertAt(page, at, el) = begin \o right
  BY <1>3 DEF begin
<1> HIDE DEF begin
<1> DEFINE grown == begin \o right
<1>11. DOMAIN grown = 1..Len(page) + 1
  BY <1>1, <1>6
<1>8. CASE at <= i
  <2>1. i + 1 \in at + 1..Len(page) + 1 /\ i + 1 - at \in 1..Len(page) - at + 1 /\ at + (i + 1 - at) - 1 = i
    BY <1>1, <1>8
  <2>2. grown[i + 1] = right[i + 1 - at]
    <3> DEFINE next == i + 1
    <3>1. next \in at + 1..Len(page) + 1
      BY <2>1
    <3> HIDE DEF next
    <3>2. (begin \o right)[next] = right[next - at]
      BY <1>6, <3>1
    <3>3. QED
      BY <3>2 DEF next
  <2>3. right[i + 1 - at] = page[at + (i + 1 - at) - 1]
    BY <1>2, <2>1
  <2>4. grown[i + 1] = page[i] /\ i + 1 \in DOMAIN grown
    BY <1>1, <1>11, <2>1, <2>2, <2>3
  <2> HIDE DEF grown
  <2>5. QED
    BY <1>6, <1>7, <1>8, <2>4 DEF grown
<1>9. CASE ~(at <= i)
  <2>1. i \in 1..at - 1 /\ i \in 1..at
    BY <1>1, <1>9
  <2>2. (begin \o right)[i] = page[i]
    BY <1>5, <1>6, <2>1
  <2>3. i \in DOMAIN grown /\ i + 0 = i
    BY <1>1, <1>11
  <2>4. QED
    BY <1>6, <1>7, <1>9, <2>2, <2>3
<1>10. QED
  BY <1>8, <1>9

(* A selector that is not a path matches the element on whatever page.       *)
LEMMA MatchKept ==
  ASSUME NEW page, NEW i, NEW other, NEW j, page[i] = other[j],
         NEW selector, ~IsPositional(selector), Matches(page, selector, i)
  PROVE  Matches(other, selector, j)
BY DEF Matches, IsPositional

(* A run acts on the only element the best selector matches, if it does.     *)
LEMMA OnlyMatchIsHit ==
  ASSUME NEW page \in Seq(Elements), NEW chosen, NEW i \in DOMAIN page, Matches(page, chosen.primary, i)
  PROVE  /\ ResolveUnique(page, chosen) \in {i, Nobody}
         /\ Found(page, chosen.primary) = {i} => ResolveUnique(page, chosen) = i
<1> DEFINE first == Found(page, chosen.primary)
<1>1. i \in first /\ first \in SUBSET (1..Len(page)) /\ Len(page) \in Nat
  BY DEF Found
<1>2. ResolveUnique(page, chosen) = IF Cardinality(first) = 1 THEN CHOOSE j \in first : TRUE ELSE Nobody
  BY <1>1 DEF ResolveUnique
<1> HIDE DEF first
<1>3. IsFiniteSet(first)
  <2>1. IsFiniteSet(1..Len(page))
    BY <1>1, FS_Interval
  <2>2. QED
    BY <1>1, <2>1, FS_Subset
<1>4. Cardinality(first) = 1 <=> first = {i}
  <2>1. Cardinality(first) = 1 <=> \E x : first = {x}
    BY <1>3, FS_Singleton
  <2>2. QED
    BY <1>1, <2>1
<1>5. ResolveUnique(page, chosen) = IF first = {i} THEN i ELSE Nobody
  BY <1>2, <1>4
<1>6. QED
  BY <1>5 DEF first

(* What becomes of an element that was named, before and after the page      *)
(* grows.                                                                    *)
NameInv ==
  /\ phase = "grown" => task = "name"
  /\ task = "name" => /\ input.page \in Seq(Elements) /\ input.target \in DOMAIN input.page
                      /\ phase \in {"done", "grown"} =>
                           output.hit = ResolveUnique(input.page, output.chosen)
  /\ Did("name") => output.chosen = ChooseSelector(input.page, input.target)
  /\ phase = "grown" /\ ~IsPositional(output.chosen.primary) =>
       Matches(input.page, output.chosen.primary, input.target)

(* What is chosen matches the element; and, not miscounted, only that one.   *)
LEMMA ChosenMatches ==
  ASSUME NEW page \in Seq(Elements), NEW i \in DOMAIN page
  PROVE  LET primary == ChooseSelector(page, i).primary
         IN /\ Matches(page, primary, i)
            /\ ~Miscounted(page, i, primary) => Found(page, primary) = {i}
<1>1. PICK k \in 1..9 : /\ Names(page, i, BuildCandidates(page, i)[k])
                        /\ BestCandidate(page, i) = BuildCandidates(page, i)[k].selector
  BY SomeCandidateNames
<1>2. ChooseSelector(page, i).primary = BuildCandidates(page, i)[k].selector
  BY <1>1 DEF ChooseSelector
<1>3. Matches(page, BuildCandidates(page, i)[k].selector, i)
  BY <1>1, CandidateMatches DEF Names
<1>4. ~Miscounted(page, i, BuildCandidates(page, i)[k].selector) =>
        Found(page, BuildCandidates(page, i)[k].selector) = {i}
  BY <1>1, UniqueIsFound
<1>5. QED
  BY <1>2, <1>3, <1>4

(* selector.ts 246-249, locator.ts 70-71: on the page it was recorded on the *)
(* element is found again, and on a page that has grown a run acts on it or  *)
(* stops, on pages of any elements.                                          *)
THEOREM ElementsAreFound == SchemaSpec => []FindsItsElement
<1>1. SchemaInit => NameInv
  <2> SUFFICES ASSUME SchemaInit PROVE NameInv
    OBVIOUS
  <2>1. phase = "given"
    BY Given, Zenon
  <2> SUFFICES ASSUME task = "name" PROVE NameInv
    BY <2>1 DEF NameInv, Did
  <2>2. PICK page \in BoundedSeq(Elements, MaxPage) : \E i \in DOMAIN page : input = [page |-> page, target |-> i]
    BY Given, Zenon
  <2>3. page \in Seq(Elements)
    BY DEF BoundedSeq, SeqOf
  <2>4. QED
    BY <2>1, <2>2, <2>3 DEF NameInv, Did
<1>2. NameInv /\ [SchemaNext]_schemaVars => NameInv'
  <2> SUFFICES ASSUME NameInv, [SchemaNext]_schemaVars PROVE NameInv'
    OBVIOUS
  <2>1. CASE Name
    BY <2>1 DEF Name, Begins, NameInv, Did
  <2>2. CASE Grow
    <3>1. /\ task = "name" /\ phase = "done" /\ phase' = "grown"
          /\ input.page \in Seq(Elements) /\ input.target \in DOMAIN input.page
          /\ output.chosen = ChooseSelector(input.page, input.target)
      BY <2>2 DEF Grow, NameInv, Did
    <3>2. PICK el \in Elements, at \in 1..Len(input.page) + 1 :
            /\ input' = [page |-> InsertAt(input.page, at, el),
                         target |-> input.target + (IF at <= input.target THEN 1 ELSE 0)]
            /\ output' = [output EXCEPT !.hit = ResolveUnique(InsertAt(input.page, at, el), output.chosen)]
      BY <2>2 DEF Grow
    <3>3. /\ input'.page \in Seq(Elements) /\ input'.target \in DOMAIN input'.page
          /\ input.page[input.target] = input'.page[input'.target]
      BY <3>1, <3>2, ElementKept
    <3>4. output'.chosen = output.chosen
      BY <3>2
    <3>5. Matches(input.page, output.chosen.primary, input.target)
      BY <3>1, ChosenMatches
    <3>6. ~IsPositional(output'.chosen.primary) => Matches(input'.page, output'.chosen.primary, input'.target)
      <4>1. ASSUME ~IsPositional(output.chosen.primary)
            PROVE  Matches(input'.page, output.chosen.primary, input'.target)
        <5>1. \A page, other, i, j, selector :
                page[i] = other[j] /\ ~IsPositional(selector) /\ Matches(page, selector, i) =>
                  Matches(other, selector, j)
          BY MatchKept
        <5>2. QED
          BY <3>3, <3>5, <4>1, <5>1
      <4>2. QED
        BY <3>4, <4>1
    <3>7. output'.hit = ResolveUnique(input'.page, output'.chosen)
      BY <3>1, <3>2, <3>4
    <3>8. task' = "name"
      BY <2>2 DEF Grow
    <3>9. QED
      BY <3>1, <3>3, <3>6, <3>7, <3>8 DEF NameInv, Did
  <2>3. CASE Convert \/ Repeat \/ Read
    BY <2>3 DEF Convert, Repeat, Read, Begins, NameInv, Did
  <2>4. CASE UNCHANGED schemaVars
    BY <2>4 DEF schemaVars, NameInv, Did
  <2>5. QED
    BY <2>1, <2>2, <2>3, <2>4 DEF SchemaNext
<1>3. NameInv => FindsItsElement
  <2> SUFFICES ASSUME NameInv PROVE FindsItsElement
    OBVIOUS
  <2>1. ASSUME Did("name"), ~Miscounted(input.page, input.target, output.chosen.primary)
        PROVE  output.hit = input.target
    <3>1. /\ input.page \in Seq(Elements) /\ input.target \in DOMAIN input.page
          /\ output.chosen = ChooseSelector(input.page, input.target)
          /\ output.hit = ResolveUnique(input.page, output.chosen)
      BY <2>1 DEF NameInv, Did
    <3>2. /\ Matches(input.page, output.chosen.primary, input.target)
          /\ Found(input.page, output.chosen.primary) = {input.target}
      BY <2>1, <3>1, ChosenMatches
    <3>3. QED
      BY <3>1, <3>2, OnlyMatchIsHit
  <2>2. ASSUME phase = "grown", ~IsPositional(output.chosen.primary)
        PROVE  output.hit \in {input.target, Nobody}
    BY <2>2, OnlyMatchIsHit DEF NameInv
  <2>3. QED
    BY <2>1, <2>2 DEF FindsItsElement
<1>4. QED
  BY <1>1, <1>2, <1>3, PTL DEF SchemaSpec

-----------------------------------------------------------------------------
(* Converting.                                                               *)

(* The loops are recursive functions; what each turn leaves, up to a turn.  *)
ConvertsUpTo(f, actions, n) ==
  f = [k \in 0..n |-> IF k = 0 THEN NothingYet ELSE Converted(f[k - 1], actions[k], k)]

PlaysUpTo(f, deeds, n) ==
  f = [k \in 0..n |-> IF k = 0 THEN Untouched ELSE Does(f[k - 1], deeds[k])]

(* There are such functions: the least number of turns for which there were  *)
(* none would be one more than a number for which there is one.              *)
LEMMA ConversionTurns ==
  ASSUME NEW actions, Len(actions) \in Nat
  PROVE  /\ Conversion(actions)[0] = NothingYet
         /\ \A n \in 1..Len(actions) :
              Conversion(actions)[n] = Converted(Conversion(actions)[n - 1], actions[n], n)
<1> DEFINE Bad == {n \in Nat : ~\E f : ConvertsUpTo(f, actions, n)}
<1>1. \E f : ConvertsUpTo(f, actions, 0)
  <2> DEFINE g == [k \in 0..0 |-> NothingYet]
  <2>1. g = [k \in 0..0 |-> IF k = 0 THEN NothingYet ELSE Converted(g[k - 1], actions[k], k)]
    OBVIOUS
  <2> HIDE DEF g
  <2> QED
    BY <2>1 DEF ConvertsUpTo
<1>2. ASSUME NEW n \in Nat, NEW f, ConvertsUpTo(f, actions, n)
      PROVE  \E g : ConvertsUpTo(g, actions, n + 1)
  <2> DEFINE g == [k \in 0..n + 1 |-> IF k = n + 1 THEN Converted(f[n], actions[n + 1], n + 1) ELSE f[k]]
  <2>1. \A k \in 0..n : f[k] = IF k = 0 THEN NothingYet ELSE Converted(f[k - 1], actions[k], k)
    BY <1>2 DEF ConvertsUpTo
  <2>2. \A k \in 0..n : g[k] = f[k]
    OBVIOUS
  <2>3. ASSUME NEW k \in 0..n + 1
        PROVE  (IF k = n + 1 THEN Converted(f[n], actions[n + 1], n + 1) ELSE f[k])
                 = IF k = 0 THEN NothingYet ELSE Converted(g[k - 1], actions[k], k)
    <3>1. CASE k = n + 1
      <4>1. g[n] = f[n] /\ k # 0 /\ k - 1 = n
        BY <2>2, <3>1
      <4> HIDE DEF g
      <4> QED
        BY <3>1, <4>1
    <3>2. CASE k # n + 1 /\ k # 0
      <4>1. k \in 0..n /\ k - 1 \in 0..n
        BY <3>2
      <4>2. g[k - 1] = f[k - 1]
        BY <2>2, <4>1
      <4> HIDE DEF g
      <4> QED
        BY <2>1, <3>2, <4>1, <4>2
    <3>3. CASE k = 0
      BY <2>1, <3>3
    <3> QED
      BY <3>1, <3>2, <3>3
  <2>4. g = [k \in 0..n + 1 |-> IF k = 0 THEN NothingYet ELSE Converted(g[k - 1], actions[k], k)]
    BY <2>3
  <2> HIDE DEF g
  <2> QED
    BY <2>4 DEF ConvertsUpTo
<1>3. Bad = {}
  <2> SUFFICES ASSUME Bad # {} PROVE FALSE
    OBVIOUS
  <2>1. PICK n \in Bad : \A m \in Bad : n <= m
    BY Least
  <2>2. n # 0 /\ n \in Nat /\ ~\E f : ConvertsUpTo(f, actions, n)
    BY <1>1, <2>1
  <2>3. n - 1 \in Nat /\ n - 1 \notin Bad /\ (n - 1) + 1 = n
    BY <2>1, <2>2
  <2>4. PICK f : ConvertsUpTo(f, actions, n - 1)
    BY <2>3
  <2>5. \E g : ConvertsUpTo(g, actions, (n - 1) + 1)
    BY <1>2, <2>3, <2>4
  <2> QED
    BY <2>2, <2>3, <2>5
<1>4. PICK f : ConvertsUpTo(f, actions, Len(actions))
  BY <1>3
<1> DEFINE so == Conversion(actions)
<1>5. so = CHOOSE g : ConvertsUpTo(g, actions, Len(actions))
  BY DEF Conversion, ConvertsUpTo
<1> HIDE DEF so
<1>6. ConvertsUpTo(so, actions, Len(actions))
  BY <1>4, <1>5
<1>7. \A k \in 0..Len(actions) :
        so[k] = IF k = 0 THEN NothingYet ELSE Converted(so[k - 1], actions[k], k)
  BY <1>6 DEF ConvertsUpTo
<1> QED
  BY <1>7 DEF so

LEMMA PlayTurns ==
  ASSUME NEW deeds, Len(deeds) \in Nat
  PROVE  /\ Worlds(deeds)[0] = Untouched
         /\ \A n \in 1..Len(deeds) : Worlds(deeds)[n] = Does(Worlds(deeds)[n - 1], deeds[n])
<1> DEFINE Bad == {n \in Nat : ~\E f : PlaysUpTo(f, deeds, n)}
<1>1. \E f : PlaysUpTo(f, deeds, 0)
  <2> DEFINE g == [k \in 0..0 |-> Untouched]
  <2>1. g = [k \in 0..0 |-> IF k = 0 THEN Untouched ELSE Does(g[k - 1], deeds[k])]
    OBVIOUS
  <2> HIDE DEF g
  <2> QED
    BY <2>1 DEF PlaysUpTo
<1>2. ASSUME NEW n \in Nat, NEW f, PlaysUpTo(f, deeds, n)
      PROVE  \E g : PlaysUpTo(g, deeds, n + 1)
  <2> DEFINE g == [k \in 0..n + 1 |-> IF k = n + 1 THEN Does(f[n], deeds[n + 1]) ELSE f[k]]
  <2>1. \A k \in 0..n : f[k] = IF k = 0 THEN Untouched ELSE Does(f[k - 1], deeds[k])
    BY <1>2 DEF PlaysUpTo
  <2>2. \A k \in 0..n : g[k] = f[k]
    OBVIOUS
  <2>3. ASSUME NEW k \in 0..n + 1
        PROVE  (IF k = n + 1 THEN Does(f[n], deeds[n + 1]) ELSE f[k])
                 = IF k = 0 THEN Untouched ELSE Does(g[k - 1], deeds[k])
    <3>1. CASE k = n + 1
      <4>1. g[n] = f[n] /\ k # 0 /\ k - 1 = n
        BY <2>2, <3>1
      <4> HIDE DEF g
      <4> QED
        BY <3>1, <4>1
    <3>2. CASE k # n + 1 /\ k # 0
      <4>1. k \in 0..n /\ k - 1 \in 0..n
        BY <3>2
      <4>2. g[k - 1] = f[k - 1]
        BY <2>2, <4>1
      <4> HIDE DEF g
      <4> QED
        BY <2>1, <3>2, <4>1, <4>2
    <3>3. CASE k = 0
      BY <2>1, <3>3
    <3> QED
      BY <3>1, <3>2, <3>3
  <2>4. g = [k \in 0..n + 1 |-> IF k = 0 THEN Untouched ELSE Does(g[k - 1], deeds[k])]
    BY <2>3
  <2> HIDE DEF g
  <2> QED
    BY <2>4 DEF PlaysUpTo
<1>3. Bad = {}
  <2> SUFFICES ASSUME Bad # {} PROVE FALSE
    OBVIOUS
  <2>1. PICK n \in Bad : \A m \in Bad : n <= m
    BY Least
  <2>2. n # 0 /\ n \in Nat /\ ~\E f : PlaysUpTo(f, deeds, n)
    BY <1>1, <2>1
  <2>3. n - 1 \in Nat /\ n - 1 \notin Bad /\ (n - 1) + 1 = n
    BY <2>1, <2>2
  <2>4. PICK f : PlaysUpTo(f, deeds, n - 1)
    BY <2>3
  <2>5. \E g : PlaysUpTo(g, deeds, (n - 1) + 1)
    BY <1>2, <2>3, <2>4
  <2> QED
    BY <2>2, <2>3, <2>5
<1>4. PICK f : PlaysUpTo(f, deeds, Len(deeds))
  BY <1>3
<1> DEFINE world == Worlds(deeds)
<1>5. world = CHOOSE g : PlaysUpTo(g, deeds, Len(deeds))
  BY DEF Worlds, PlaysUpTo
<1> HIDE DEF world
<1>6. PlaysUpTo(world, deeds, Len(deeds))
  BY <1>4, <1>5
<1>7. \A k \in 0..Len(deeds) :
        world[k] = IF k = 0 THEN Untouched ELSE Does(world[k - 1], deeds[k])
  BY <1>6 DEF PlaysUpTo
<1> QED
  BY <1>7 DEF world

(* What was done last does not change what was there before it.             *)
LEMMA PlayNext ==
  ASSUME NEW d, NEW e, Len(d) \in Nat, Len(e) \in Nat, Len(d) = Len(e) + 1,
         \A k \in 1..Len(e) : d[k] = e[k]
  PROVE  Play(d) = Does(Play(e), d[Len(d)])
<1> DEFINE Bad == {n \in Nat : n <= Len(e) /\ Worlds(d)[n] # Worlds(e)[n]}
<1>1. /\ Worlds(d)[0] = Untouched /\ Worlds(e)[0] = Untouched
      /\ \A n \in 1..Len(d) : Worlds(d)[n] = Does(Worlds(d)[n - 1], d[n])
      /\ \A n \in 1..Len(e) : Worlds(e)[n] = Does(Worlds(e)[n - 1], e[n])
  BY PlayTurns
<1>2. Bad = {}
  <2> SUFFICES ASSUME Bad # {} PROVE FALSE
    OBVIOUS
  <2>1. PICK n \in Bad : \A m \in Bad : n <= m
    BY Least
  <2>2. n \in Nat /\ n <= Len(e) /\ Worlds(d)[n] # Worlds(e)[n] /\ n # 0
    BY <1>1, <2>1
  <2>3. n - 1 \in Nat /\ n - 1 <= Len(e) /\ n - 1 \notin Bad
    BY <2>1, <2>2
  <2>4. Worlds(d)[n - 1] = Worlds(e)[n - 1]
    BY <2>3
  <2>5. n \in 1..Len(e) /\ n \in 1..Len(d)
    BY <2>2
  <2> QED
    BY <1>1, <2>2, <2>4, <2>5
<1>3. Worlds(d)[Len(e)] = Worlds(e)[Len(e)]
  BY <1>2
<1>4. Len(d) \in 1..Len(d) /\ Len(d) - 1 = Len(e)
  OBVIOUS
<1> QED
  BY <1>1, <1>3, <1>4 DEF Play

(* A refill leaves what the second filling leaves, and going twice to one    *)
(* address what going there leaves.                                          *)
LEMMA DoneAgain ==
  ASSUME NEW world, NEW d, NEW e, d.type = e.type, d.page = e.page
  PROVE  /\ d.type = "fill" /\ d.frame = e.frame /\ d.selector = e.selector =>
              Does(Does(world, d), e) = Does(world, e)
         /\ d.type = "goto" /\ d.text = e.text => Does(Does(world, d), e) = Does(world, d)
<1>1. ASSUME d.type = "fill", d.frame = e.frame, d.selector = e.selector
      PROVE  Does(Does(world, d), e) = Does(world, e)
  <2> DEFINE place == <<d.page, d.frame, d.selector>>
             rest == {f \in world.fields : f.place # place}
             first == rest \cup {[place |-> place, value |-> d.text]}
  <2>1. Does(world, d) = [fields |-> first, log |-> world.log]
    BY <1>1 DEF Does, Put
  <2>2. {f \in first : f.place # place} = rest
    OBVIOUS
  <2>3. /\ Does(world, e) = [fields |-> rest \cup {[place |-> place, value |-> e.text]}, log |-> world.log]
        /\ Does(Does(world, d), e) =
             [fields |-> {f \in first : f.place # place} \cup {[place |-> place, value |-> e.text]},
              log |-> world.log]
    BY <1>1, <2>1 DEF Does, Put
  <2> QED
    BY <2>2, <2>3
<1>2. ASSUME d.type = "goto", d.text = e.text
      PROVE  Does(Does(world, d), e) = Does(world, d)
  <2> DEFINE place == <<d.page, "", "address">>
             there == [place |-> place, value |-> d.text]
             rest == {f \in {g \in world.fields : g.place[1] # d.page} : f.place # place}
             went == Does(world, d)
  <2>1. went = [fields |-> rest \cup {there}, log |-> world.log]
    BY <1>2 DEF Does, Put, Left
  <2>2. {f \in {g \in rest \cup {there} : g.place[1] # d.page} : f.place # place} = rest
    <3>1. there.place[1] = d.page
      OBVIOUS
    <3> QED
      BY <3>1
  <2>3. went.fields = rest \cup {there} /\ went.log = world.log
    <3> HIDE DEF went, rest, there
    <3> QED
      BY <2>1
  <2> HIDE DEF went
  <2>4. Does(went, e) =
          [fields |-> {f \in {g \in went.fields : g.place[1] # d.page} : f.place # place} \cup {there},
           log |-> went.log]
    BY <1>2 DEF Does, Put, Left
  <2>5. Does(went, e) = went
    BY <2>1, <2>2, <2>3, <2>4
  <2> QED
    BY <2>5 DEF went
<1> QED
  BY <1>1, <1>2

(* A name that no read has yet: of one more number than there are steps, one *)
(* is free.                                                                  *)
LEMMA FreeName ==
  ASSUME NEW steps, Len(steps) \in Nat, DOMAIN steps = 1..Len(steps), NEW name, NEW taken,
         taken = {steps[i].outputName : i \in {j \in DOMAIN steps : steps[j].type = "read"}}
  PROVE  \E n \in 1..Len(steps) + 1 :
           <<name, n>> \notin taken /\ \A m \in 1..n - 1 : <<name, m>> \in taken
<1> DEFINE L == Len(steps)
           Free == {n \in 1..L + 1 : <<name, n>> \notin taken}
<1>1. Free # {}
  <2> SUFFICES ASSUME Free = {} PROVE FALSE
    OBVIOUS
  <2> DEFINE f == [n \in 1..L + 1 |-> CHOOSE i \in 1..L : steps[i].outputName = <<name, n>>]
  <2>1. \A n \in 1..L + 1 : \E i \in 1..L : steps[i].outputName = <<name, n>>
    BY Zenon
  <2>2. \A n \in 1..L + 1 : f[n] \in 1..L /\ steps[f[n]].outputName = <<name, n>>
    BY <2>1
  <2>3. f \in [1..L + 1 -> 1..L]
    BY <2>2
  <2>4. IsFiniteSet(1..L) /\ IsFiniteSet(1..L + 1) /\ Cardinality(1..L) < Cardinality(1..L + 1)
    <3>1. 1 \in Int /\ L \in Int /\ L + 1 \in Int /\ L >= 0
      OBVIOUS
    <3>2. /\ IsFiniteSet(1..L) /\ Cardinality(1..L) = IF 1 > L THEN 0 ELSE L - 1 + 1
          /\ IsFiniteSet(1..L + 1) /\ Cardinality(1..L + 1) = IF 1 > L + 1 THEN 0 ELSE L + 1 - 1 + 1
      BY <3>1, FS_Interval
    <3> QED
      BY <3>1, <3>2
  <2>5. PICK x, y \in 1..L + 1 : x # y /\ f[x] = f[y]
    <3> DEFINE more == 1..L + 1
               fewer == 1..L
    <3>1. f \in [more -> fewer] /\ IsFiniteSet(more) /\ IsFiniteSet(fewer) /\ Cardinality(fewer) < Cardinality(more)
      BY <2>3, <2>4
    <3> HIDE DEF more, fewer, f
    <3>2. \E x, y \in more : x # y /\ f[x] = f[y]
      BY <3>1, FS_PigeonHole
    <3> QED
      BY <3>2 DEF more
  <2> HIDE DEF f
  <2>6. <<name, x>> = <<name, y>>
    BY <2>2, <2>5
  <2> QED
    BY <2>5, <2>6
<1>2. PICK n \in Free : \A m \in Free : n <= m
  <2>1. Free \subseteq Nat
    OBVIOUS
  <2> HIDE DEF Free
  <2> QED
    BY <1>1, <2>1, Least
<1>3. n \in 1..L + 1 /\ <<name, n>> \notin taken
  BY <1>2
<1>4. ASSUME NEW m \in 1..n - 1 PROVE <<name, m>> \in taken
  <2>1. m \in 1..L + 1 /\ ~(n <= m)
    BY <1>3
  <2>2. m \notin Free
    BY <1>2, <2>1
  <2> QED
    BY <2>1, <2>2
<1> QED
  BY <1>3, <1>4

(* A literal is a string, which the provers are not told. *)
Words == STRING \cup {""}
SecretNames == Words \X Words
Values == [secret : BOOLEAN, of : SecretNames]
Shapes ==
  [type : Kinds \cup {"goto"}, value : Values, pageId : STRING, selector : STRING, frame : STRING,
   outputName : Words \X Nat, isFinal : BOOLEAN]
Secrets == [name : SecretNames, value : STRING]
Conversions ==
  [steps : Seq(Shapes), source : Seq(Nat), credentials : SUBSET Secrets, skipped : Seq(Nat)]

LEMMA SecretsApart ==
  ASSUME NEW a \in RecordedActions, Converts(a)
  PROVE  /\ Value(a) \in Values
         /\ Value(a).secret <=> a.kind = "fill" /\ a.isPassword
         /\ Value(a).secret => Value(a).of = CredentialName(a)
         /\ ~Value(a).secret /\ a.kind \in {"fill", "navigate"} => Value(a).of[1] = a.value
<1>1. /\ a.kind \in Kinds /\ a.value \in STRING /\ a.isPassword \in BOOLEAN /\ a.site \in STRING
      /\ a.element.name \in Words /\ a.value \in Words /\ a.site \in Words /\ "" \in Words
  BY DEF RecordedActions, Words
<1>2. \A t, u \in Words : Literal(t) \in Values /\ SecretOf(<<t, u>>) \in Values
  BY DEF Literal, SecretOf, Values, SecretNames, Words
<1>3. \A t : ~Literal(t).secret /\ Literal(t).of = <<t, "">>
  BY DEF Literal
<1>4. \A n : SecretOf(n).secret /\ SecretOf(n).of = n
  BY DEF SecretOf
<1>5. CredentialName(a) = <<a.element.name, a.site>>
  BY DEF CredentialName
<1>6. /\ a.kind = "navigate" => Value(a) = Literal(a.value)
      /\ a.kind = "fill" /\ a.isPassword => Value(a) = SecretOf(CredentialName(a))
      /\ a.kind = "fill" /\ ~a.isPassword => Value(a) = Literal(a.value)
      /\ a.kind \notin {"fill", "navigate"} => Value(a) = Literal("")
  BY DEF Value, NoValue
<1>7. CASE a.kind = "fill" /\ a.isPassword
  BY <1>1, <1>2, <1>4, <1>5, <1>6, <1>7
<1>8. CASE a.kind \in {"fill", "navigate"} /\ ~(a.kind = "fill" /\ a.isPassword)
  <2>1. Value(a) = Literal(a.value)
    BY <1>6, <1>8
  <2>2. Value(a) \in Values /\ ~Value(a).secret /\ Value(a).of = <<a.value, "">>
    BY <1>1, <1>2, <1>3, <2>1
  <2>3. Value(a).of[1] = a.value
    <3>1. <<a.value, "">>[1] = a.value
      OBVIOUS
    <3> QED
      BY <2>2, <3>1, Zenon
  <2>4. ~(a.kind = "fill" /\ a.isPassword)
    BY <1>8
  <2> QED
    BY <2>2, <2>3, <2>4, Zenon
<1>9. CASE a.kind \notin {"fill", "navigate"}
  <2>1. Value(a) = Literal("")
    BY <1>6, <1>9
  <2>2. Value(a) \in Values /\ ~Value(a).secret
    BY <1>1, <1>2, <1>3, <2>1
  <2> QED
    BY <1>9, <2>2
<1> QED
  BY <1>7, <1>8, <1>9

(* The step an action becomes, given the steps before it.                   *)
LEMMA StepMade ==
  ASSUME NEW a \in RecordedActions, Converts(a), NEW steps \in Seq(Shapes)
  PROVE  LET step == Renamed(ActionToStep(a), steps)
         IN /\ step \in Shapes
            /\ step.type = TypeOf(a.kind) /\ step.value = Value(a) /\ step.pageId = a.pageId
            /\ step.selector = a.element.selector /\ step.frame = a.element.frame
            /\ step.isFinal = a.isFinal
            /\ step.type = "read" =>
                 \A i \in DOMAIN steps : steps[i].type = "read" => steps[i].outputName # step.outputName
<1> DEFINE made == ActionToStep(a)
           taken == {steps[i].outputName : i \in {j \in DOMAIN steps : steps[j].type = "read"}}
           Free(n) == /\ <<made.outputName[1], n>> \notin taken
                      /\ \A m \in 1..n - 1 : <<made.outputName[1], m>> \in taken
           free == CHOOSE n \in 1..Len(steps) + 1 : Free(n)
<1>1. /\ a.kind \in Kinds /\ a.pageId \in STRING /\ a.isFinal \in BOOLEAN
      /\ a.element.name \in STRING /\ a.element.selector \in STRING /\ a.element.frame \in STRING
  BY DEF RecordedActions
<1>2. /\ made \in Shapes
      /\ made.type = TypeOf(a.kind) /\ made.value = Value(a) /\ made.pageId = a.pageId
      /\ made.selector = a.element.selector /\ made.frame = a.element.frame
      /\ made.isFinal = a.isFinal
  <2>1. TypeOf(a.kind) \in Kinds \cup {"goto"} /\ Value(a) \in Values
    BY <1>1, SecretsApart DEF TypeOf, Kinds
  <2>2. (IF a.kind = "read" THEN <<a.element.name, 1>> ELSE <<"", 0>>) \in Words \X Nat
    BY <1>1 DEF Words
  <2> QED
    BY <1>1, <2>1, <2>2 DEF ActionToStep, Shapes
<1>3. Renamed(made, steps) =
        IF made.type = "read" THEN [made EXCEPT !.outputName = <<@[1], free>>] ELSE made
  BY DEF Renamed
<1> HIDE DEF made
<1>4. free \in 1..Len(steps) + 1 /\ <<made.outputName[1], free>> \notin taken
  <2>1. Len(steps) \in Nat /\ DOMAIN steps = 1..Len(steps)
    OBVIOUS
  <2> HIDE DEF taken
  <2>2. \E n \in 1..Len(steps) + 1 : Free(n)
    BY <2>1, FreeName DEF taken
  <2> QED
    BY <2>2
<1> HIDE DEF free
<1>5. CASE made.type = "read"
  <2> DEFINE step == [made EXCEPT !.outputName = <<@[1], free>>]
  <2>1. step \in Shapes
    <3>1. made.outputName[1] \in Words /\ free \in Nat
      BY <1>2, <1>4 DEF Shapes
    <3> QED
      BY <1>2, <3>1 DEF Shapes
  <2>2. /\ step.type = made.type /\ step.value = made.value /\ step.pageId = made.pageId
        /\ step.selector = made.selector /\ step.frame = made.frame /\ step.isFinal = made.isFinal
        /\ step.outputName = <<made.outputName[1], free>>
    BY <1>2 DEF Shapes
  <2>3. Renamed(made, steps) = step
    BY <1>3, <1>5
  <2>4. \A i \in DOMAIN steps : steps[i].type = "read" => steps[i].outputName # step.outputName
    BY <1>4, <2>2
  <2> HIDE DEF step
  <2>5. QED
    BY <1>2, <2>1, <2>2, <2>3, <2>4 DEF made
<1>6. CASE made.type # "read"
  BY <1>2, <1>3, <1>6 DEF made
<1> QED
  BY <1>5, <1>6

(* What a turn does to the steps: the action is skipped, repeats the last    *)
(* navigation, refills the last field, or becomes a step.                    *)
Skipped(so, a, next) ==
  ~Converts(a) /\ next.steps = so.steps /\ next.source = so.source /\ next.credentials = so.credentials

Repeated(so, a, next) ==
  LET last == so.steps[Len(so.steps)]
  IN /\ Converts(a) /\ a.kind = "navigate"
     /\ Len(so.steps) > 0 /\ last.type = "goto" /\ last.value = Value(a)
     /\ next.steps = so.steps /\ next.source = so.source /\ next.credentials = so.credentials

Refilled(so, a, n, next) ==
  LET last == so.steps[Len(so.steps)]
  IN /\ Converts(a) /\ a.kind = "fill"
     /\ Len(so.steps) > 0 /\ last.type = "fill"
     /\ last.selector = a.element.selector /\ last.pageId = a.pageId
     /\ next.steps = [so.steps EXCEPT ![Len(so.steps)] = [last EXCEPT !.value = Value(a)]]
     /\ next.source = [so.source EXCEPT ![Len(so.steps)] = n]
     /\ next.credentials = Stored(so.credentials, a)

Added(so, a, n, next) ==
  /\ Converts(a)
  /\ next.steps = Append(so.steps, Renamed(ActionToStep(a), so.steps))
  /\ next.source = Append(so.source, n)
  /\ next.credentials = Stored(so.credentials, a)

Whole(so) ==
  /\ so = [steps |-> so.steps, source |-> so.source, credentials |-> so.credentials, skipped |-> so.skipped]
  /\ so.skipped \in Seq(Nat)

LEMMA Turn ==
  ASSUME NEW so \in Conversions, NEW a \in RecordedActions, NEW n \in Nat
  PROVE  LET next == Converted(so, a, n)
         IN /\ Whole(next)
            /\ Skipped(so, a, next) \/ Repeated(so, a, next) \/ Refilled(so, a, n, next) \/ Added(so, a, n, next)
<1> DEFINE next == Converted(so, a, n)
           step == Renamed(ActionToStep(a), so.steps)
           last == Len(so.steps)
           previous == so.steps[last]
           collapses == last > 0 /\ step.type = "fill" /\ previous.type = "fill" /\ SameTarget(previous, step)
           repeats == last > 0 /\ step.type = "goto" /\ previous.type = "goto" /\ previous.value = step.value
           stored == Stored(so.credentials, a)
<1>1. next = CASE ~Converts(a) -> [so EXCEPT !.skipped = Append(@, n)]
               [] Converts(a) /\ collapses ->
                    [so EXCEPT !.steps[last] = [previous EXCEPT !.value = step.value],
                               !.source[last] = n, !.credentials = stored]
               [] Converts(a) /\ repeats -> [so EXCEPT !.credentials = stored]
               [] OTHER -> [so EXCEPT !.steps = Append(@, step), !.source = Append(@, n),
                                      !.credentials = stored]
  BY DEF Converted
<1> HIDE DEF next
<1>2. /\ so = [steps |-> so.steps, source |-> so.source, credentials |-> so.credentials, skipped |-> so.skipped]
      /\ so.steps \in Seq(Shapes) /\ a.kind \in Kinds /\ so.skipped \in Seq(Nat)
  BY DEF Conversions, RecordedActions
<1>3. CASE ~Converts(a)
  <2>1. next = [so EXCEPT !.skipped = Append(@, n)]
    BY <1>1, <1>3
  <2>2. Skipped(so, a, next)
    BY <1>2, <1>3, <2>1 DEF Skipped
  <2>3. Whole(next)
    <3>1. Append(so.skipped, n) \in Seq(Nat)
      BY <1>2
    <3> QED
      BY <1>2, <2>1, <3>1 DEF Whole
  <2> QED
    BY <2>2, <2>3 DEF next
<1>4. CASE Converts(a)
  <2>1. /\ step.type = TypeOf(a.kind) /\ step.value = Value(a) /\ step.pageId = a.pageId
        /\ step.selector = a.element.selector
    BY <1>2, <1>4, StepMade
  <2>2. (step.type = "fill" <=> a.kind = "fill") /\ (step.type = "goto" <=> a.kind = "navigate")
    BY <1>2, <2>1 DEF TypeOf, Kinds
  <2>3. CASE collapses
    <3> HIDE DEF step, stored
    <3>1. next = [so EXCEPT !.steps[last] = [previous EXCEPT !.value = step.value],
                            !.source[last] = n, !.credentials = stored]
      BY <1>1, <1>4, <2>3
    <3>2. /\ next.steps = [so.steps EXCEPT ![last] = [previous EXCEPT !.value = step.value]]
          /\ next.source = [so.source EXCEPT ![last] = n] /\ next.credentials = stored
      <4> HIDE DEF last, previous
      <4> QED
        BY <1>2, <3>1
    <3>3. last > 0 /\ previous.type = "fill" /\ previous.selector = step.selector /\ previous.pageId = step.pageId
      BY <2>3 DEF SameTarget
    <3>4. Refilled(so, a, n, next)
      BY <1>4, <2>1, <2>2, <2>3, <3>2, <3>3 DEF Refilled, stored
    <3>9. Whole(next)
      <4> HIDE DEF last, previous
      <4> QED
        BY <1>2, <3>1 DEF Whole
    <3> QED
      BY <3>4, <3>9 DEF next
  <2>4. CASE ~collapses /\ repeats
    <3>1. stored = so.credentials
      BY <2>2, <2>4 DEF Stored
    <3> HIDE DEF step, stored
    <3>2. next = [so EXCEPT !.credentials = stored]
      BY <1>1, <1>4, <2>4
    <3>3. next.steps = so.steps /\ next.source = so.source /\ next.credentials = so.credentials
      BY <1>2, <3>1, <3>2
    <3>4. Repeated(so, a, next)
      BY <1>4, <2>1, <2>2, <2>4, <3>3 DEF Repeated
    <3>9. Whole(next)
      <4> HIDE DEF last, previous
      <4> QED
        BY <1>2, <3>2 DEF Whole
    <3> QED
      BY <3>4, <3>9 DEF next
  <2>5. CASE ~collapses /\ ~repeats
    <3> HIDE DEF step, stored
    <3>1. next = [so EXCEPT !.steps = Append(@, step), !.source = Append(@, n), !.credentials = stored]
      <4> HIDE DEF collapses, repeats
      <4> QED
        BY <1>1, <1>4, <2>5
    <3>2. /\ next.steps = Append(so.steps, step) /\ next.source = Append(so.source, n)
          /\ next.credentials = stored
      BY <1>2, <3>1
    <3>3. Added(so, a, n, next)
      BY <1>4, <3>2 DEF Added, step, stored
    <3>9. Whole(next)
      <4> HIDE DEF last, previous
      <4> QED
        BY <1>2, <3>1 DEF Whole
    <3> QED
      BY <3>3, <3>9 DEF next
  <2> QED
    BY <2>3, <2>4, <2>5
<1> QED
  BY <1>3, <1>4

LEMMA SecretsStored ==
  ASSUME NEW credentials \in SUBSET Secrets, NEW a \in RecordedActions
  PROVE  /\ Stored(credentials, a) \in SUBSET Secrets
         /\ \A c \in Stored(credentials, a) :
              \/ c \in credentials
              \/ a.kind = "fill" /\ a.isPassword /\ c.name = CredentialName(a) /\ c.value = a.value
         /\ \A c \in credentials : \E d \in Stored(credentials, a) : d.name = c.name
         /\ a.kind = "fill" /\ a.isPassword => \E c \in Stored(credentials, a) : c.name = CredentialName(a)
<1> DEFINE new == [name |-> CredentialName(a), value |-> a.value]
<1>1. new \in Secrets /\ new.name = CredentialName(a) /\ new.value = a.value
  BY DEF RecordedActions, CredentialName, Secrets, SecretNames, Words
<1>2. CASE a.kind = "fill" /\ a.isPassword
  <2>1. Stored(credentials, a) = {c \in credentials : c.name # CredentialName(a)} \cup {new}
    BY <1>2 DEF Stored
  <2> HIDE DEF new
  <2> QED
    BY <1>1, <1>2, <2>1
<1>3. CASE ~(a.kind = "fill" /\ a.isPassword)
  BY <1>3 DEF Stored
<1> QED
  BY <1>2, <1>3

(* What the loop keeps, after n turns.  Each step is lined up with the last  *)
(* action it was made of.                                                    *)
Aligned(actions, n, step, at) ==
  /\ at \in 1..n /\ Converts(actions[at])
  /\ step.type = TypeOf(actions[at].kind) /\ step.value = Value(actions[at])
  /\ step.selector = actions[at].element.selector /\ step.pageId = actions[at].pageId
  /\ Twins(actions) \/ step.frame = actions[at].element.frame
  /\ step.isFinal => at = Len(actions)

StepsAligned(actions, n, so) ==
  /\ \A i \in 1..Len(so.steps) : Aligned(actions, n, so.steps[i], so.source[i])
  /\ \A i, j \in 1..Len(so.steps) : i < j => so.source[i] < so.source[j]

ReadsApart(steps) ==
  \A i, j \in 1..Len(steps) :
    steps[i].type = "read" /\ steps[j].type = "read" /\ steps[i].outputName = steps[j].outputName => i = j

SecretsKept(actions, n, so) ==
  /\ \A c \in so.credentials : \E k \in 1..n :
       /\ actions[k].kind = "fill" /\ actions[k].isPassword
       /\ c.name = CredentialName(actions[k]) /\ c.value = actions[k].value
  /\ \A i \in 1..Len(so.steps) :
       so.steps[i].value.secret => \E c \in so.credentials : c.name = so.steps[i].value.of

(* What becomes a step. *)
Counted(a) ==
  [type |-> IF Converts(a) THEN TypeOf(a.kind) ELSE "nothing", page |-> a.pageId,
   frame |-> a.element.frame, selector |-> a.element.selector, text |-> a.value]

Deeds(actions, source) == [i \in 1..Len(source) |-> Counted(actions[source[i]])]
FirstDeeds(actions, n) == [i \in 1..n |-> Counted(actions[i])]

ConvInv(actions, n, so) ==
  /\ so \in Conversions /\ Len(so.source) = Len(so.steps)
  /\ StepsAligned(actions, n, so)
  /\ ReadsApart(so.steps)
  /\ SecretsKept(actions, n, so)
  /\ Twins(actions) \/ Play(Deeds(actions, so.source)) = Play(FirstDeeds(actions, n))

LEMMA DeedsAre ==
  /\ \A actions, source : Len(source) \in Nat =>
       /\ Len(Deeds(actions, source)) = Len(source)
       /\ \A i \in 1..Len(source) : Deeds(actions, source)[i] = Counted(actions[source[i]])
  /\ \A actions : \A n \in Nat :
       /\ Len(FirstDeeds(actions, n)) = n
       /\ \A i \in 1..n : FirstDeeds(actions, n)[i] = Counted(actions[i])
<1>1. ASSUME NEW actions, NEW source, Len(source) \in Nat
      PROVE  /\ Len(Deeds(actions, source)) = Len(source)
             /\ \A i \in 1..Len(source) : Deeds(actions, source)[i] = Counted(actions[source[i]])
  <2> DEFINE f == Deeds(actions, source)
  <2>1. f = [i \in 1..Len(source) |-> Counted(actions[source[i]])]
    BY DEF Deeds
  <2> HIDE DEF f
  <2>2. DOMAIN f = 1..Len(source) /\ \A i \in 1..Len(source) : f[i] = Counted(actions[source[i]])
    BY <2>1
  <2>3. Len(f) = Len(source)
    BY <1>1, <2>1
  <2> QED
    BY <2>2, <2>3 DEF f
<1>2. ASSUME NEW actions, NEW n \in Nat
      PROVE  /\ Len(FirstDeeds(actions, n)) = n
             /\ \A i \in 1..n : FirstDeeds(actions, n)[i] = Counted(actions[i])
  BY DEF FirstDeeds
<1> QED
  BY <1>1, <1>2

(* What a fill and a navigation do are told by their steps.                  *)
LEMMA DeedTypes ==
  ASSUME NEW a \in RecordedActions, Converts(a)
  PROVE  LET d == Counted(a)
         IN /\ d.type = TypeOf(a.kind) /\ d.page = a.pageId /\ d.frame = a.element.frame
            /\ d.selector = a.element.selector /\ d.text = a.value
            /\ d.type = "fill" <=> a.kind = "fill"
            /\ d.type = "goto" <=> a.kind = "navigate"
BY DEF Counted, TypeOf, RecordedActions, Kinds

(* The deeds of one more turn. *)
LEMMA OneMoreTurn ==
  ASSUME NEW actions, NEW n \in Nat \ {0}
  PROVE  Play(FirstDeeds(actions, n)) = Does(Play(FirstDeeds(actions, n - 1)), Counted(actions[n]))
<1> DEFINE d == FirstDeeds(actions, n)
           e == FirstDeeds(actions, n - 1)
<1>1. /\ Len(d) = n /\ Len(e) = n - 1 /\ d[n] = Counted(actions[n])
      /\ \A k \in 1..n - 1 : d[k] = e[k]
  BY DeedsAre
<1> HIDE DEF d, e
<1>2. Play(d) = Does(Play(e), d[Len(d)])
  BY <1>1, PlayNext
<1> QED
  BY <1>1, <1>2 DEF d, e

LEMMA OneMoreStep ==
  ASSUME NEW actions, NEW source, NEW older, Len(source) \in Nat, Len(older) \in Nat,
         Len(source) = Len(older) + 1, \A i \in 1..Len(older) : source[i] = older[i]
  PROVE  Play(Deeds(actions, source)) =
           Does(Play(Deeds(actions, older)), Counted(actions[source[Len(source)]]))
<1> DEFINE d == Deeds(actions, source)
           e == Deeds(actions, older)
<1>1. /\ Len(d) = Len(source) /\ Len(e) = Len(older)
      /\ d[Len(source)] = Counted(actions[source[Len(source)]])
      /\ \A k \in 1..Len(older) : d[k] = e[k]
  <2>1. Len(source) \in 1..Len(source)
    OBVIOUS
  <2> QED
    BY <2>1, DeedsAre
<1> HIDE DEF d, e
<1>2. Play(d) = Does(Play(e), d[Len(d)])
  BY <1>1, PlayNext
<1> QED
  BY <1>1, <1>2 DEF d, e

(* All of a list but its last. *)
LEMMA AllButLast ==
  ASSUME NEW S, NEW s \in Seq(S), Len(s) > 0
  PROVE  \E older : Len(older) = Len(s) - 1 /\ \A i \in 1..Len(s) - 1 : older[i] = s[i]
<1>1. Len(s) - 1 \in Nat
  OBVIOUS
<1> DEFINE older == [i \in 1..Len(s) - 1 |-> s[i]]
<1>2. Len(older) = Len(s) - 1 /\ \A i \in 1..Len(s) - 1 : older[i] = s[i]
  BY <1>1
<1> QED
  BY <1>2

OneFinal(actions) == \A i \in 1..Len(actions) : actions[i].isFinal => i = Len(actions)

(* A turn that leaves the steps as they are. *)
LEMMA StepsStay ==
  ASSUME NEW actions, NEW n \in Nat \ {0}, NEW so, ConvInv(actions, n - 1, so), NEW next, Whole(next),
         next.steps = so.steps, next.source = so.source, next.credentials = so.credentials,
         Twins(actions) \/ Does(Play(FirstDeeds(actions, n - 1)), Counted(actions[n]))
                             = Play(FirstDeeds(actions, n - 1))
  PROVE  ConvInv(actions, n, next)
<1>1. next \in Conversions /\ Len(next.source) = Len(next.steps)
  BY DEF ConvInv, Conversions, Whole
<1>2. 1..n - 1 \subseteq 1..n
  OBVIOUS
<1>3. StepsAligned(actions, n, next)
  BY <1>2 DEF ConvInv, StepsAligned, Aligned
<1>4. ReadsApart(next.steps)
  BY DEF ConvInv
<1>5. SecretsKept(actions, n, next)
  BY <1>2 DEF ConvInv, SecretsKept
<1>6. Twins(actions) \/ Play(Deeds(actions, next.source)) = Play(FirstDeeds(actions, n))
  BY OneMoreTurn DEF ConvInv
<1> QED
  BY <1>1, <1>3, <1>4, <1>5, <1>6 DEF ConvInv

LEMMA SkippedKeeps ==
  ASSUME NEW actions, NEW n \in Nat \ {0}, NEW so, ConvInv(actions, n - 1, so),
         NEW next, Whole(next), Skipped(so, actions[n], next)
  PROVE  ConvInv(actions, n, next)
<1>1. Counted(actions[n]).type = "nothing"
  BY DEF Skipped, Counted
<1>2. Does(Play(FirstDeeds(actions, n - 1)), Counted(actions[n])) = Play(FirstDeeds(actions, n - 1))
  BY <1>1 DEF Does
<1> QED
  BY <1>2, StepsStay DEF Skipped

(* The last step, and the deeds before it. *)
LEMMA LastStep ==
  ASSUME NEW actions, NEW n \in Nat, NEW so, ConvInv(actions, n, so), Len(so.steps) > 0
  PROVE  \E older :
           /\ Len(older) = Len(so.steps) - 1
           /\ \A i \in 1..Len(so.steps) - 1 : older[i] = so.source[i]
           /\ Play(Deeds(actions, so.source)) =
                Does(Play(Deeds(actions, older)), Counted(actions[so.source[Len(so.steps)]]))
<1>1. so.source \in Seq(Nat) /\ Len(so.source) = Len(so.steps) /\ Len(so.source) \in Nat
  BY DEF ConvInv, Conversions
<1>2. PICK older : Len(older) = Len(so.source) - 1 /\ \A i \in 1..Len(so.source) - 1 : older[i] = so.source[i]
  BY <1>1, AllButLast
<1>3. Play(Deeds(actions, so.source)) =
        Does(Play(Deeds(actions, older)), Counted(actions[so.source[Len(so.source)]]))
  <2> DEFINE source == so.source
  <2>1. /\ Len(source) \in Nat /\ Len(older) \in Nat /\ Len(source) = Len(older) + 1
        /\ \A i \in 1..Len(older) : source[i] = older[i]
    BY <1>1, <1>2
  <2> HIDE DEF source
  <2>2. Play(Deeds(actions, source)) =
          Does(Play(Deeds(actions, older)), Counted(actions[source[Len(source)]]))
    BY <2>1, OneMoreStep
  <2> QED
    BY <2>2 DEF source
<1> QED
  BY <1>1, <1>2, <1>3

LEMMA RepeatedKeeps ==
  ASSUME NEW actions \in Seq(RecordedActions), NEW n \in 1..Len(actions), NEW so, ConvInv(actions, n - 1, so),
         NEW next, Whole(next), Repeated(so, actions[n], next)
  PROVE  ConvInv(actions, n, next)
<1> DEFINE L == Len(so.steps)
           at == so.source[L]
           d == Counted(actions[at])
           e == Counted(actions[n])
<1>1. /\ L \in 1..L /\ n \in Nat \ {0} /\ n - 1 \in Nat /\ so.steps[L].type = "goto"
      /\ so.steps[L].value = Value(actions[n]) /\ Converts(actions[n]) /\ actions[n].kind = "navigate"
  BY DEF Repeated, ConvInv, Conversions
<1>2. Aligned(actions, n - 1, so.steps[L], at)
  BY <1>1 DEF ConvInv, StepsAligned
<1>3. /\ at \in 1..n - 1 /\ Converts(actions[at]) /\ at \in DOMAIN actions /\ n \in DOMAIN actions /\ at < n
      /\ actions[at] \in RecordedActions /\ actions[n] \in RecordedActions
      /\ TypeOf(actions[at].kind) = "goto" /\ Value(actions[at]) = Value(actions[n])
  BY <1>1, <1>2 DEF Aligned
<1>4. actions[at].kind = "navigate"
  BY <1>3 DEF TypeOf, RecordedActions, Kinds
<1>5. actions[at].value = actions[n].value
  BY <1>1, <1>3, <1>4, SecretsApart
<1>6. Twins(actions) \/ actions[at].pageId = actions[n].pageId
  BY <1>1, <1>3, <1>4, <1>5 DEF Twins
<1>7. d.type = "goto" /\ e.type = "goto" /\ d.text = e.text /\ (Twins(actions) \/ d.page = e.page)
  BY <1>1, <1>3, <1>4, <1>5, <1>6, DeedTypes
<1>8. Twins(actions) \/ Does(Play(FirstDeeds(actions, n - 1)), e) = Play(FirstDeeds(actions, n - 1))
  <2> SUFFICES ASSUME ~Twins(actions)
               PROVE  Does(Play(FirstDeeds(actions, n - 1)), e) = Play(FirstDeeds(actions, n - 1))
    OBVIOUS
  <2>1. PICK older : Play(Deeds(actions, so.source)) = Does(Play(Deeds(actions, older)), d)
    BY <1>1, LastStep
  <2>2. Play(FirstDeeds(actions, n - 1)) = Does(Play(Deeds(actions, older)), d)
    BY <2>1 DEF ConvInv
  <2>3. PICK world : world = Play(Deeds(actions, older))
    OBVIOUS
  <2> HIDE DEF d, e
  <2>4. Does(Does(world, d), e) = Does(world, d)
    BY <1>7, DoneAgain
  <2> QED
    BY <2>2, <2>3, <2>4
<1> HIDE DEF e
<1>9. /\ next.steps = so.steps /\ next.source = so.source /\ next.credentials = so.credentials
  BY DEF Repeated
<1> QED
  BY <1>1, <1>8, <1>9, StepsStay DEF e

(* The secrets after a turn, when the steps are those before and one more,   *)
(* or one of them with the value of the action.                              *)
LEMMA SecretsStayKept ==
  ASSUME NEW actions \in Seq(RecordedActions), NEW n \in 1..Len(actions), NEW so, ConvInv(actions, n - 1, so),
         NEW next, next.credentials = Stored(so.credentials, actions[n]), Converts(actions[n]),
         \A i \in 1..Len(next.steps) :
           \/ next.steps[i].value = Value(actions[n])
           \/ i \in 1..Len(so.steps) /\ next.steps[i].value = so.steps[i].value
  PROVE  SecretsKept(actions, n, next) /\ next.credentials \in SUBSET Secrets
<1>1. /\ actions[n] \in RecordedActions /\ so.credentials \in SUBSET Secrets /\ n \in 1..n /\ 1..n - 1 \subseteq 1..n
      /\ SecretsKept(actions, n - 1, so)
  BY DEF ConvInv, Conversions
<1>2. /\ next.credentials \in SUBSET Secrets
      /\ \A c \in next.credentials :
           \/ c \in so.credentials
           \/ /\ actions[n].kind = "fill" /\ actions[n].isPassword
              /\ c.name = CredentialName(actions[n]) /\ c.value = actions[n].value
      /\ \A c \in so.credentials : \E d \in next.credentials : d.name = c.name
      /\ actions[n].kind = "fill" /\ actions[n].isPassword =>
           \E c \in next.credentials : c.name = CredentialName(actions[n])
  <2> PICK before, a : before = so.credentials /\ a = actions[n]
    OBVIOUS
  <2>1. /\ Stored(before, a) \in SUBSET Secrets
        /\ \A c \in Stored(before, a) :
             \/ c \in before
             \/ a.kind = "fill" /\ a.isPassword /\ c.name = CredentialName(a) /\ c.value = a.value
        /\ \A c \in before : \E d \in Stored(before, a) : d.name = c.name
        /\ a.kind = "fill" /\ a.isPassword => \E c \in Stored(before, a) : c.name = CredentialName(a)
    <3>1. before \in SUBSET Secrets /\ a \in RecordedActions
      BY <1>1
    <3> QED
      BY <3>1, SecretsStored
  <2> QED
    BY <2>1, Zenon
<1>3. \A c \in next.credentials : \E k \in 1..n :
        /\ actions[k].kind = "fill" /\ actions[k].isPassword
        /\ c.name = CredentialName(actions[k]) /\ c.value = actions[k].value
  BY <1>1, <1>2 DEF SecretsKept
<1>4. ASSUME NEW i \in 1..Len(next.steps), next.steps[i].value.secret
      PROVE  \E c \in next.credentials : c.name = next.steps[i].value.of
  <2>1. CASE next.steps[i].value = Value(actions[n])
    <3>1. Value(actions[n]).secret
      BY <1>4, <2>1
    <3>2. actions[n].kind = "fill" /\ actions[n].isPassword /\ Value(actions[n]).of = CredentialName(actions[n])
      BY <1>1, <3>1, SecretsApart
    <3> QED
      BY <1>2, <2>1, <3>2
  <2>2. CASE i \in 1..Len(so.steps) /\ next.steps[i].value = so.steps[i].value
    <3>1. so.steps[i].value.secret
      BY <1>4, <2>2
    <3>2. PICK c \in so.credentials : c.name = so.steps[i].value.of
      BY <1>1, <2>2, <3>1 DEF SecretsKept
    <3>3. PICK d \in next.credentials : d.name = c.name
      BY <1>2
    <3> QED
      BY <2>2, <3>2, <3>3
  <2> QED
    BY <1>4, <2>1, <2>2
<1> QED
  BY <1>2, <1>3, <1>4 DEF SecretsKept

LEMMA RefilledKeeps ==
  ASSUME NEW actions \in Seq(RecordedActions), OneFinal(actions), NEW n \in 1..Len(actions),
         NEW so, ConvInv(actions, n - 1, so), NEW next, Whole(next), Refilled(so, actions[n], n, next)
  PROVE  ConvInv(actions, n, next)
<1> DEFINE L == Len(so.steps)
           last == so.steps[L]
           again == [last EXCEPT !.value = Value(actions[n])]
           at == so.source[L]
           d == Counted(actions[at])
           e == Counted(actions[n])
<1>1. /\ so.steps \in Seq(Shapes) /\ so.source \in Seq(Nat) /\ Len(so.source) = L
      /\ L \in Nat /\ L \in 1..L /\ n \in Nat \ {0} /\ n - 1 \in Nat /\ n \in 1..n
      /\ last \in Shapes /\ actions[n] \in RecordedActions
  BY DEF Refilled, ConvInv, Conversions
<1>2. /\ Converts(actions[n]) /\ actions[n].kind = "fill" /\ last.type = "fill"
      /\ last.selector = actions[n].element.selector /\ last.pageId = actions[n].pageId
      /\ next.steps = [so.steps EXCEPT ![L] = again] /\ next.source = [so.source EXCEPT ![L] = n]
      /\ next.credentials = Stored(so.credentials, actions[n])
  BY DEF Refilled
<1>3. /\ again \in Shapes /\ again.value = Value(actions[n]) /\ again.type = last.type
      /\ again.selector = last.selector /\ again.pageId = last.pageId /\ again.frame = last.frame
      /\ again.isFinal = last.isFinal /\ again.outputName = last.outputName
  <2>1. Value(actions[n]) \in Values
    BY <1>1, <1>2, SecretsApart
  <2> HIDE DEF last
  <2> QED
    BY <1>1, <2>1 DEF Shapes
<1> HIDE DEF again
<1>4. /\ next.steps \in Seq(Shapes) /\ Len(next.steps) = L
      /\ next.steps[L] = again /\ \A i \in 1..L : i # L => next.steps[i] = so.steps[i]
      /\ next.source \in Seq(Nat) /\ Len(next.source) = L
      /\ next.source[L] = n /\ \A i \in 1..L : i # L => next.source[i] = so.source[i]
  BY <1>1, <1>2, <1>3
<1>5. Aligned(actions, n - 1, last, at)
  BY <1>1 DEF ConvInv, StepsAligned
<1>6. /\ at \in 1..n - 1 /\ Converts(actions[at]) /\ at \in DOMAIN actions /\ n \in DOMAIN actions /\ at < n
      /\ actions[at] \in RecordedActions /\ TypeOf(actions[at].kind) = "fill"
      /\ actions[at].element.selector = actions[n].element.selector /\ actions[at].pageId = actions[n].pageId
      /\ (Twins(actions) \/ last.frame = actions[at].element.frame)
      /\ ~last.isFinal
  BY <1>1, <1>2, <1>5 DEF Aligned
<1>7. actions[at].kind = "fill"
  BY <1>6 DEF TypeOf, RecordedActions, Kinds
<1>8. Twins(actions) \/ actions[at].element.frame = actions[n].element.frame
  BY <1>2, <1>6, <1>7 DEF Twins
<1>9. Aligned(actions, n, again, n)
  <2>1. TypeOf("fill") = "fill"
    BY DEF TypeOf
  <2> HIDE DEF last
  <2> QED
    BY <1>1, <1>2, <1>3, <1>6, <1>8, <2>1 DEF Aligned
<1>10. StepsAligned(actions, n, next)
  <2>1. \A i \in 1..L : i # L => Aligned(actions, n - 1, so.steps[i], so.source[i])
    BY DEF ConvInv, StepsAligned
  <2>2. \A i \in 1..L : i # L => Aligned(actions, n, so.steps[i], so.source[i])
    BY <1>1, <2>1 DEF Aligned
  <2>3. \A i \in 1..L : Aligned(actions, n, next.steps[i], next.source[i])
    BY <1>4, <1>9, <2>2
  <2>4. \A i \in 1..L : i # L => so.source[i] < n /\ so.source[i] \in Nat
    BY <1>1, <2>1 DEF Aligned
  <2>5. \A i, j \in 1..L : i < j => so.source[i] < so.source[j]
    BY DEF ConvInv, StepsAligned
  <2>6. \A i, j \in 1..L : i < j => next.source[i] < next.source[j]
    <3> SUFFICES ASSUME NEW i \in 1..L, NEW j \in 1..L, i < j PROVE next.source[i] < next.source[j]
      OBVIOUS
    <3>1. L \in Nat /\ i \in Nat /\ j \in Nat /\ i # L
      BY <1>1
    <3>2. next.source[i] = so.source[i] /\ so.source[i] < n
      BY <1>4, <2>4, <3>1
    <3>3. CASE j = L
      BY <1>4, <3>2, <3>3
    <3>4. CASE j # L
      BY <1>4, <2>5, <3>2, <3>4
    <3> QED
      BY <3>3, <3>4
  <2> QED
    BY <1>4, <2>3, <2>6 DEF StepsAligned
<1>11. ReadsApart(next.steps)
  <2>1. again.type # "read"
    BY <1>2, <1>3
  <2>2. ReadsApart(so.steps)
    BY DEF ConvInv
  <2> QED
    BY <1>4, <2>1, <2>2 DEF ReadsApart
<1>12. SecretsKept(actions, n, next) /\ next.credentials \in SUBSET Secrets
  <2>1. \A i \in 1..Len(next.steps) :
           \/ next.steps[i].value = Value(actions[n])
           \/ i \in 1..Len(so.steps) /\ next.steps[i].value = so.steps[i].value
    BY <1>3, <1>4
  <2> QED
    BY <1>2, <2>1, SecretsStayKept
<1>13. ASSUME ~Twins(actions)
       PROVE  Play(Deeds(actions, next.source)) = Play(FirstDeeds(actions, n))
  <2>1. PICK older : /\ Len(older) = L - 1
                     /\ \A i \in 1..L - 1 : older[i] = so.source[i]
                     /\ Play(Deeds(actions, so.source)) = Does(Play(Deeds(actions, older)), d)
    BY <1>1, LastStep
  <2>2. Play(Deeds(actions, next.source)) = Does(Play(Deeds(actions, older)), e)
    <3> DEFINE source == next.source
    <3>1. /\ Len(source) \in Nat /\ Len(older) \in Nat /\ Len(source) = Len(older) + 1
          /\ \A i \in 1..Len(older) : source[i] = older[i]
          /\ source[Len(source)] = n
      BY <1>1, <1>4, <2>1
    <3> HIDE DEF source, e
    <3>2. Play(Deeds(actions, source)) =
            Does(Play(Deeds(actions, older)), Counted(actions[source[Len(source)]]))
      BY <3>1, OneMoreStep
    <3> QED
      BY <3>1, <3>2 DEF source, e
  <2>3. Play(FirstDeeds(actions, n)) = Does(Does(Play(Deeds(actions, older)), d), e)
    <3>1. Play(FirstDeeds(actions, n - 1)) = Does(Play(Deeds(actions, older)), d)
      BY <1>13, <2>1 DEF ConvInv
    <3>2. Play(FirstDeeds(actions, n)) = Does(Play(FirstDeeds(actions, n - 1)), e)
      BY <1>1, OneMoreTurn
    <3> QED
      BY <3>1, <3>2
  <2>4. /\ d.type = "fill" /\ e.type = "fill" /\ d.page = e.page /\ d.frame = e.frame /\ d.selector = e.selector
    BY <1>1, <1>2, <1>6, <1>7, <1>8, <1>13, DeedTypes
  <2>5. PICK world : world = Play(Deeds(actions, older))
    OBVIOUS
  <2> HIDE DEF d, e
  <2>6. Does(Does(world, d), e) = Does(world, e)
    BY <2>4, DoneAgain
  <2> QED
    BY <2>2, <2>3, <2>5, <2>6
<1>14. next \in Conversions /\ Len(next.source) = Len(next.steps)
  BY <1>4, <1>12 DEF Conversions, Whole
<1> QED
  BY <1>10, <1>11, <1>12, <1>13, <1>14 DEF ConvInv

LEMMA AddedKeeps ==
  ASSUME NEW actions \in Seq(RecordedActions), OneFinal(actions), NEW n \in 1..Len(actions),
         NEW so, ConvInv(actions, n - 1, so), NEW next, Whole(next), Added(so, actions[n], n, next)
  PROVE  ConvInv(actions, n, next)
<1> DEFINE L == Len(so.steps)
           step == Renamed(ActionToStep(actions[n]), so.steps)
<1>1. /\ so.steps \in Seq(Shapes) /\ so.source \in Seq(Nat) /\ Len(so.source) = L /\ L \in Nat
      /\ n \in Nat \ {0} /\ n - 1 \in Nat /\ n \in 1..n /\ actions[n] \in RecordedActions
      /\ DOMAIN so.steps = 1..L
  BY DEF ConvInv, Conversions
<1>2. /\ Converts(actions[n])
      /\ next.steps = Append(so.steps, step) /\ next.source = Append(so.source, n)
      /\ next.credentials = Stored(so.credentials, actions[n])
  BY DEF Added
<1>3. /\ step \in Shapes
      /\ step.type = TypeOf(actions[n].kind) /\ step.value = Value(actions[n])
      /\ step.pageId = actions[n].pageId /\ step.selector = actions[n].element.selector
      /\ step.frame = actions[n].element.frame /\ step.isFinal = actions[n].isFinal
      /\ step.type = "read" =>
           \A i \in 1..L : so.steps[i].type = "read" => so.steps[i].outputName # step.outputName
  BY <1>1, <1>2, StepMade
<1> HIDE DEF step
<1>4. /\ next.steps \in Seq(Shapes) /\ Len(next.steps) = L + 1
      /\ next.steps[L + 1] = step /\ \A i \in 1..L : next.steps[i] = so.steps[i]
      /\ next.source \in Seq(Nat) /\ Len(next.source) = L + 1
      /\ next.source[L + 1] = n /\ \A i \in 1..L : next.source[i] = so.source[i]
  BY <1>1, <1>2, <1>3
<1>5. \A i \in 1..L + 1 : i = L + 1 \/ i \in 1..L
  <2>1. L \in Nat
    BY <1>1
  <2> HIDE DEF L
  <2> QED
    BY <2>1
<1>9. Aligned(actions, n, step, n)
  <2>1. step.isFinal => n = Len(actions)
    BY <1>3 DEF OneFinal
  <2> QED
    BY <1>1, <1>2, <1>3, <2>1 DEF Aligned
<1>10. StepsAligned(actions, n, next)
  <2>1. \A i \in 1..L : Aligned(actions, n - 1, so.steps[i], so.source[i])
    BY DEF ConvInv, StepsAligned
  <2>2. \A i \in 1..L : Aligned(actions, n, so.steps[i], so.source[i])
    BY <1>1, <2>1 DEF Aligned
  <2>3. \A i \in 1..L + 1 : Aligned(actions, n, next.steps[i], next.source[i])
    BY <1>4, <1>5, <1>9, <2>2
  <2>4. \A i \in 1..L : so.source[i] < n /\ so.source[i] \in Nat
    BY <1>1, <2>1 DEF Aligned
  <2>5. \A i, j \in 1..L : i < j => so.source[i] < so.source[j]
    BY DEF ConvInv, StepsAligned
  <2>6. \A i, j \in 1..L + 1 : i < j => next.source[i] < next.source[j]
    <3> SUFFICES ASSUME NEW i \in 1..L + 1, NEW j \in 1..L + 1, i < j PROVE next.source[i] < next.source[j]
      OBVIOUS
    <3>1. L \in Nat /\ i \in 1..L
      <4>1. L \in Nat
        BY <1>1
      <4> HIDE DEF L
      <4> QED
        BY <4>1
    <3>2. next.source[i] = so.source[i] /\ so.source[i] < n
      BY <1>4, <2>4, <3>1
    <3>3. CASE j = L + 1
      BY <1>4, <3>2, <3>3
    <3>4. CASE j \in 1..L
      BY <1>4, <2>5, <3>1, <3>2, <3>4
    <3> QED
      BY <1>5, <3>3, <3>4
  <2> QED
    BY <1>4, <2>3, <2>6 DEF StepsAligned
<1>11. ReadsApart(next.steps)
  <2>2. ReadsApart(so.steps)
    BY DEF ConvInv
  <2> SUFFICES ASSUME NEW i \in 1..L + 1, NEW j \in 1..L + 1,
                      next.steps[i].type = "read", next.steps[j].type = "read",
                      next.steps[i].outputName = next.steps[j].outputName
               PROVE  i = j
    BY <1>4 DEF ReadsApart
  <2>3. CASE i \in 1..L /\ j \in 1..L
    BY <1>4, <2>2, <2>3 DEF ReadsApart
  <2>4. CASE i = L + 1 /\ j \in 1..L
    BY <1>3, <1>4, <2>4
  <2>5. CASE i \in 1..L /\ j = L + 1
    BY <1>3, <1>4, <2>5
  <2> QED
    BY <1>5, <2>3, <2>4, <2>5
<1>12. SecretsKept(actions, n, next) /\ next.credentials \in SUBSET Secrets
  <2>1. \A i \in 1..Len(next.steps) :
           \/ next.steps[i].value = Value(actions[n])
           \/ i \in 1..Len(so.steps) /\ next.steps[i].value = so.steps[i].value
    BY <1>3, <1>4, <1>5
  <2> QED
    BY <1>2, <2>1, SecretsStayKept
<1>13. ASSUME ~Twins(actions)
       PROVE  Play(Deeds(actions, next.source)) = Play(FirstDeeds(actions, n))
  <2> DEFINE source == next.source
             older == so.source
  <2>1. /\ Len(source) \in Nat /\ Len(older) \in Nat /\ Len(source) = Len(older) + 1
        /\ \A i \in 1..Len(older) : source[i] = older[i]
        /\ source[Len(source)] = n
    <3>1. Len(source) = L + 1 /\ Len(older) = L /\ L \in Nat
      BY <1>1, <1>4
    <3> HIDE DEF L
    <3> QED
      BY <1>4, <3>1
  <2>2. Play(Deeds(actions, older)) = Play(FirstDeeds(actions, n - 1))
    BY <1>13 DEF ConvInv
  <2> HIDE DEF source, older
  <2>3. Play(Deeds(actions, source)) =
          Does(Play(Deeds(actions, older)), Counted(actions[source[Len(source)]]))
    BY <2>1, OneMoreStep
  <2>4. Play(FirstDeeds(actions, n)) = Does(Play(FirstDeeds(actions, n - 1)), Counted(actions[n]))
    BY <1>1, OneMoreTurn
  <2> QED
    BY <2>1, <2>2, <2>3, <2>4 DEF source
<1>14. next \in Conversions /\ Len(next.source) = Len(next.steps)
  BY <1>4, <1>12 DEF Conversions, Whole
<1> QED
  BY <1>10, <1>11, <1>12, <1>13, <1>14 DEF ConvInv

LEMMA NothingYetKeeps ==
  ASSUME NEW actions
  PROVE  ConvInv(actions, 0, NothingYet)
<1>1. /\ NothingYet \in Conversions /\ Len(NothingYet.source) = 0 /\ Len(NothingYet.steps) = 0
      /\ NothingYet.credentials = {} /\ 1..0 = {}
  BY DEF NothingYet, Conversions
<1>2. StepsAligned(actions, 0, NothingYet) /\ ReadsApart(NothingYet.steps) /\ SecretsKept(actions, 0, NothingYet)
  BY <1>1 DEF StepsAligned, ReadsApart, SecretsKept
<1>3. \A d : Len(d) = 0 => Play(d) = Untouched
  BY PlayTurns DEF Play
<1>4. Play(Deeds(actions, NothingYet.source)) = Play(FirstDeeds(actions, 0))
  BY <1>1, <1>3, DeedsAre
<1> QED
  BY <1>1, <1>2, <1>4 DEF ConvInv

LEMMA TurnKeeps ==
  ASSUME NEW actions \in Seq(RecordedActions), OneFinal(actions), NEW n \in 1..Len(actions),
         NEW so, ConvInv(actions, n - 1, so)
  PROVE  ConvInv(actions, n, Converted(so, actions[n], n))
<1> DEFINE next == Converted(so, actions[n], n)
<1>1. so \in Conversions /\ actions[n] \in RecordedActions /\ n \in Nat /\ n \in Nat \ {0}
  BY DEF ConvInv
<1>2. /\ Whole(next)
      /\ \/ Skipped(so, actions[n], next) \/ Repeated(so, actions[n], next)
         \/ Refilled(so, actions[n], n, next) \/ Added(so, actions[n], n, next)
  BY <1>1, Turn
<1> HIDE DEF next
<1>3. CASE Skipped(so, actions[n], next)
  BY <1>1, <1>2, <1>3, SkippedKeeps DEF next
<1>4. CASE Repeated(so, actions[n], next)
  BY <1>2, <1>4, RepeatedKeeps DEF next
<1>5. CASE Refilled(so, actions[n], n, next)
  BY <1>2, <1>5, RefilledKeeps DEF next
<1>6. CASE Added(so, actions[n], n, next)
  BY <1>2, <1>6, AddedKeeps DEF next
<1> QED
  BY <1>2, <1>3, <1>4, <1>5, <1>6

(* So it is kept to the end of the list: a first turn that broke it would    *)
(* come after one that kept it.                                              *)
LEMMA ConversionKeeps ==
  ASSUME NEW actions \in Seq(RecordedActions), OneFinal(actions)
  PROVE  ConvInv(actions, Len(actions), ActionsToSteps(actions))
<1> DEFINE L == Len(actions)
           Bad == {n \in 0..L : ~ConvInv(actions, n, Conversion(actions)[n])}
<1>1. /\ L \in Nat /\ Conversion(actions)[0] = NothingYet
      /\ \A n \in 1..L : Conversion(actions)[n] = Converted(Conversion(actions)[n - 1], actions[n], n)
  BY ConversionTurns
<1>2. Bad = {}
  <2> SUFFICES ASSUME Bad # {} PROVE FALSE
    OBVIOUS
  <2>1. PICK n \in Bad : \A m \in Bad : n <= m
    <3>1. Bad \subseteq Nat
      OBVIOUS
    <3> HIDE DEF Bad
    <3> QED
      BY <3>1, Least
  <2>2. n \in 0..L /\ ~ConvInv(actions, n, Conversion(actions)[n])
    BY <2>1
  <2>3. n # 0
    BY <1>1, <2>2, NothingYetKeeps
  <2>4. n \in 1..L /\ n - 1 \in 0..L /\ ~(n <= n - 1)
    <3>1. L \in Nat /\ n \in 0..L
      BY <1>1, <2>2
    <3> HIDE DEF L
    <3> QED
      BY <2>3, <3>1
  <2>5. ConvInv(actions, n - 1, Conversion(actions)[n - 1])
    BY <2>1, <2>4
  <2>6. ConvInv(actions, n, Converted(Conversion(actions)[n - 1], actions[n], n))
    BY <2>4, <2>5, TurnKeeps
  <2> QED
    BY <1>1, <2>2, <2>4, <2>6
<1>3. L \in 0..L
  BY <1>1
<1> QED
  BY <1>2, <1>3 DEF ActionsToSteps

(* Lists of deeds that do the same, one by one.                              *)
LEMMA SameDone ==
  ASSUME NEW d, NEW e, Len(d) \in Nat, Len(e) = Len(d),
         \A k \in 1..Len(d) : \A world : Does(world, d[k]) = Does(world, e[k])
  PROVE  Play(d) = Play(e)
<1> DEFINE Bad == {n \in Nat : n <= Len(d) /\ Worlds(d)[n] # Worlds(e)[n]}
<1>1. /\ Worlds(d)[0] = Untouched /\ Worlds(e)[0] = Untouched
      /\ \A n \in 1..Len(d) : Worlds(d)[n] = Does(Worlds(d)[n - 1], d[n])
      /\ \A n \in 1..Len(d) : Worlds(e)[n] = Does(Worlds(e)[n - 1], e[n])
  BY PlayTurns
<1>2. Bad = {}
  <2> SUFFICES ASSUME Bad # {} PROVE FALSE
    OBVIOUS
  <2>1. PICK n \in Bad : \A m \in Bad : n <= m
    BY Least
  <2>2. n \in Nat /\ n <= Len(d) /\ Worlds(d)[n] # Worlds(e)[n] /\ n # 0
    BY <1>1, <2>1
  <2>3. n - 1 \in Nat /\ n - 1 <= Len(d) /\ n - 1 \notin Bad
    BY <2>1, <2>2
  <2>4. Worlds(d)[n - 1] = Worlds(e)[n - 1]
    BY <2>3
  <2>5. n \in 1..Len(d)
    BY <2>2
  <2> QED
    BY <1>1, <2>2, <2>4, <2>5
<1>3. Worlds(d)[Len(d)] = Worlds(e)[Len(d)]
  BY <1>2
<1> QED
  BY <1>3 DEF Play

(* A step, with the secrets that were handed over, does what the action does *)
(* that it is lined up with.                                                 *)
LEMMA StepDoesTheAction ==
  ASSUME NEW actions \in Seq(RecordedActions), ~Twins(actions), NEW so, NEW i \in 1..Len(so.steps),
         ConvInv(actions, Len(actions), so), NEW world
  PROVE  Does(world, Replaying(so.steps[i], so.credentials)) = Does(world, Counted(actions[so.source[i]]))
<1> DEFINE step == so.steps[i]
           at == so.source[i]
           a == actions[at]
           r == Replaying(step, so.credentials)
           d == Counted(a)
<1>1. Aligned(actions, Len(actions), step, at)
  BY DEF ConvInv, StepsAligned
<1>2. /\ at \in 1..Len(actions) /\ at \in DOMAIN actions /\ Converts(a) /\ a \in RecordedActions
      /\ step.type = TypeOf(a.kind) /\ step.value = Value(a) /\ step.selector = a.element.selector
      /\ step.pageId = a.pageId /\ step.frame = a.element.frame
  BY <1>1 DEF Aligned
<1>3. /\ r.type = d.type /\ r.page = d.page /\ r.frame = d.frame /\ r.selector = d.selector
      /\ r.text = Typed(Value(a), so.credentials)
  BY <1>2 DEF Replaying, Counted
<1>4. d.text = a.value /\ (d.type = "fill" <=> a.kind = "fill") /\ (d.type = "goto" <=> a.kind = "navigate")
  BY <1>2, DeedTypes
<1>5. d.type \in {"fill", "goto"} => r.text = d.text
  <2>1. CASE a.kind = "fill" /\ a.isPassword
    <3>1. Value(a).secret /\ Value(a).of = CredentialName(a)
      BY <1>2, <2>1, SecretsApart
    <3>2. \E c \in so.credentials : c.name = Value(a).of
      BY <1>2, <3>1 DEF ConvInv, SecretsKept
    <3>3. PICK c \in so.credentials : /\ c.name = Value(a).of
                                      /\ Typed(Value(a), so.credentials) = c.value
      BY <3>1, <3>2 DEF Typed
    <3>4. PICK k \in 1..Len(actions) :
            /\ actions[k].kind = "fill" /\ actions[k].isPassword
            /\ c.name = CredentialName(actions[k]) /\ c.value = actions[k].value
      BY DEF ConvInv, SecretsKept
    <3>5. CredentialName(actions[k]) = CredentialName(a) /\ k \in DOMAIN actions
      BY <3>1, <3>3, <3>4
    <3>6. actions[k].value = a.value
      <4>1. \A x, y \in DOMAIN actions :
              x < y /\ actions[x].kind = "fill" /\ actions[y].kind = "fill"
                    /\ actions[x].isPassword /\ actions[y].isPassword
                    /\ CredentialName(actions[x]) = CredentialName(actions[y])
                => actions[x].value = actions[y].value
        BY DEF Twins
      <4>2. k < at \/ k = at \/ at < k
        BY <1>2
      <4> QED
        BY <1>2, <2>1, <3>4, <3>5, <4>1, <4>2
    <3> QED
      BY <1>3, <1>4, <3>3, <3>4, <3>6
  <2>2. CASE a.kind \in {"fill", "navigate"} /\ ~(a.kind = "fill" /\ a.isPassword)
    <3>1. ~Value(a).secret /\ Value(a).of[1] = a.value
      BY <1>2, <2>2, SecretsApart
    <3> QED
      BY <1>3, <1>4, <3>1 DEF Typed
  <2>3. CASE a.kind \notin {"fill", "navigate"}
    BY <1>4, <2>3
  <2> QED
    BY <2>1, <2>2, <2>3
<1> HIDE DEF r, d
<1>6. Does(world, r) = Does(world, d)
  BY <1>3, <1>5 DEF Does
<1> QED
  BY <1>6 DEF r, d

(* A fill of the field that was emptied is one that was done to the page.    *)
LEMMA RefillsAreFills ==
  ASSUME NEW b \in RecordedActions, b.kind = "fill", b.element.selector # ""
  PROVE  Converts(b) \/ Emptied(b)
<1>1. CASE b.isPassword
  <2>1. Value(b).secret /\ ~NoValue.secret
    BY <1>1 DEF Value, SecretOf, NoValue, Literal
  <2> QED
    BY <2>1 DEF Converts
<1>2. CASE ~b.isPassword /\ b.value # ""
  <2>1. Value(b).of[1] = b.value /\ NoValue.of[1] = ""
    BY <1>2 DEF Value, NoValue, Literal
  <2> QED
    BY <1>2, <2>1 DEF Converts
<1>3. CASE ~b.isPassword /\ b.value = ""
  BY <1>3 DEF Emptied
<1> QED
  BY <1>1, <1>2, <1>3

LEMMA FillsAreDone ==
  ASSUME NEW a, a.kind = "fill", Converts(a) \/ Emptied(a)
  PROVE  /\ Performing(a).type = "fill" /\ Performing(a).page = a.pageId
         /\ Performing(a).frame = a.element.frame /\ Performing(a).selector = a.element.selector
BY DEF Performing, TypeOf

LEMMA EmptiedIsNoStep ==
  ASSUME NEW a, Emptied(a)
  PROVE  ~Converts(a)
<1>1. a.kind = "fill" /\ ~a.isPassword /\ a.value = ""
  BY DEF Emptied
<1>2. Value(a) = NoValue
  BY <1>1 DEF Value, NoValue
<1>3. TypeOf(a.kind) \in NeedsValue
  BY <1>1 DEF TypeOf, NeedsValue
<1> QED
  BY <1>2, <1>3 DEF Converts

(* A field that is emptied and filled again at once is as it would be        *)
(* without the emptying.                                                     *)
LEMMA EmptiedIsRefilled ==
  ASSUME NEW actions \in Seq(RecordedActions), ~LeftEmpty(actions)
  PROVE  Performed(actions) = Play(FirstDeeds(actions, Len(actions)))
<1> DEFINE L == Len(actions)
           p == [i \in DOMAIN actions |-> Performing(actions[i])]
           k == FirstDeeds(actions, L)
           Alike(n) == Worlds(p)[n] = IF n > 0 /\ Emptied(actions[n])
                                      THEN Does(Worlds(k)[n], p[n]) ELSE Worlds(k)[n]
           Bad == {n \in 0..L : ~Alike(n)}
<1>1. /\ L \in Nat /\ DOMAIN actions = 1..L
      /\ Len(p) = L /\ \A n \in 1..L : p[n] = Performing(actions[n])
      /\ Len(k) = L /\ \A n \in 1..L : k[n] = Counted(actions[n])
      /\ \A n \in 1..L : actions[n] \in RecordedActions
  BY DeedsAre
<1> HIDE DEF p, k, L
<1>2. /\ Worlds(p)[0] = Untouched /\ Worlds(k)[0] = Untouched
      /\ \A n \in 1..L : Worlds(p)[n] = Does(Worlds(p)[n - 1], p[n])
      /\ \A n \in 1..L : Worlds(k)[n] = Does(Worlds(k)[n - 1], k[n])
  BY <1>1, PlayTurns
<1>3. ASSUME NEW n \in 1..L, Alike(n - 1)
      PROVE  Alike(n)
  <2> DEFINE m == n - 1
  <2>1. n \in Nat /\ m \in 0..L /\ n = m + 1 /\ (m > 0 => m \in 1..L)
    BY <1>1
  <2>2. Worlds(p)[n] = Does(Worlds(k)[m], p[n])
    <3>1. CASE m > 0 /\ Emptied(actions[m])
      <4>1. Refills(actions[n], actions[m])
        <5> HIDE DEF m
        <5> QED
          BY <1>1, <2>1, <3>1 DEF LeftEmpty
      <4>2. actions[n].kind = "fill" /\ actions[n].element.selector # "" /\ actions[m].kind = "fill"
        BY <3>1, <4>1 DEF Refills, Emptied
      <4>3. Converts(actions[n]) \/ Emptied(actions[n])
        BY <1>1, <4>2, RefillsAreFills
      <4>4. /\ p[m].type = "fill" /\ p[n].type = "fill" /\ p[m].page = p[n].page
            /\ p[m].frame = p[n].frame /\ p[m].selector = p[n].selector
        <5>1. p[m] = Performing(actions[m]) /\ p[n] = Performing(actions[n])
          BY <1>1, <2>1, <3>1
        <5>2. PICK a, b : a = actions[m] /\ b = actions[n]
          OBVIOUS
        <5>3. /\ Performing(a).type = "fill" /\ Performing(a).page = a.pageId
              /\ Performing(a).frame = a.element.frame /\ Performing(a).selector = a.element.selector
          BY <3>1, <4>2, <5>2, FillsAreDone
        <5>4. /\ Performing(b).type = "fill" /\ Performing(b).page = b.pageId
              /\ Performing(b).frame = b.element.frame /\ Performing(b).selector = b.element.selector
          BY <4>2, <4>3, <5>2, FillsAreDone
        <5> QED
          BY <4>1, <5>1, <5>2, <5>3, <5>4 DEF Refills
      <4>5. PICK world, d, e : world = Worlds(k)[m] /\ d = p[m] /\ e = p[n]
        OBVIOUS
      <4>6. Does(Does(world, d), e) = Does(world, e)
        BY <4>4, <4>5, DoneAgain
      <4>7. Worlds(p)[m] = Does(world, d)
        BY <1>3, <3>1, <4>5
      <4> QED
        BY <1>2, <4>5, <4>6, <4>7
    <3>2. CASE ~(m > 0 /\ Emptied(actions[m]))
      BY <1>2, <1>3, <3>2
    <3> QED
      BY <3>1, <3>2
  <2>3. CASE Emptied(actions[n])
    <3>1. ~Converts(actions[n])
      BY <2>3, EmptiedIsNoStep
    <3>2. k[n].type = "nothing"
      BY <1>1, <3>1 DEF Counted
    <3>3. Worlds(k)[n] = Worlds(k)[m]
      BY <1>2, <3>2 DEF Does
    <3> QED
      BY <2>1, <2>2, <2>3, <3>3
  <2>4. CASE ~Emptied(actions[n])
    <3>1. p[n] = k[n]
      BY <1>1, <2>4 DEF Performing, Counted
    <3> QED
      BY <1>2, <2>2, <2>4, <3>1
  <2> QED
    BY <2>3, <2>4
<1>4. Alike(0)
  BY <1>2
<1> HIDE DEF Alike
<1>5. Bad = {}
  <2> SUFFICES ASSUME Bad # {} PROVE FALSE
    OBVIOUS
  <2>1. PICK n \in Bad : \A m \in Bad : n <= m
    <3>1. Bad \subseteq Nat
      OBVIOUS
    <3> HIDE DEF Bad
    <3> QED
      BY <3>1, Least
  <2>2. n \in 0..L /\ ~Alike(n) /\ n # 0
    BY <1>4, <2>1
  <2>3. n \in 1..L /\ n - 1 \in 0..L /\ ~(n <= n - 1)
    BY <1>1, <2>2
  <2>4. Alike(n - 1)
    BY <2>1, <2>3
  <2> QED
    BY <1>3, <2>2, <2>3, <2>4
<1>6. Alike(L) /\ ~(L > 0 /\ Emptied(actions[L]))
  <2>1. L \in 0..L /\ (L > 0 => L \in DOMAIN actions /\ L + 1 \notin DOMAIN actions)
    BY <1>1
  <2> QED
    BY <1>5, <2>1 DEF LeftEmpty
<1>7. Worlds(p)[L] = Worlds(k)[L]
  BY <1>6 DEF Alike
<1>8. Play(p) = Play(k)
  BY <1>1, <1>7 DEF Play
<1> QED
  BY <1>8 DEF Performed, p, k, L

(* What the conversion makes of a recording.                                 *)
LEMMA RecordingKept ==
  ASSUME NEW actions \in Seq(RecordedActions), OneFinal(actions), NEW so, so = ActionsToSteps(actions)
  PROVE  /\ ValidSteps(so.steps)
         /\ \A i \in DOMAIN so.steps :
              so.steps[i].value.secret => \E c \in so.credentials : c.name = so.steps[i].value.of
         /\ Len(so.source) = Len(so.steps)
         /\ \A i, j \in DOMAIN so.source : i < j => so.source[i] < so.source[j]
         /\ \A i \in DOMAIN so.source :
              Converts(actions[so.source[i]]) /\ Value(actions[so.source[i]]) = so.steps[i].value
         /\ Twins(actions) \/ LeftEmpty(actions) \/ Replayed(so) = Performed(actions)
<1> DEFINE L == Len(so.steps)
<1>1. ConvInv(actions, Len(actions), so)
  BY ConversionKeeps
<1>2. /\ L \in Nat /\ DOMAIN so.steps = 1..L /\ DOMAIN so.source = 1..L /\ Len(so.source) = L
      /\ Len(actions) \in Nat /\ so.steps \in Seq(Shapes)
  BY <1>1 DEF ConvInv, Conversions
<1>3. /\ \A i \in 1..L : Aligned(actions, Len(actions), so.steps[i], so.source[i])
      /\ \A i, j \in 1..L : i < j => so.source[i] < so.source[j]
  BY <1>1 DEF ConvInv, StepsAligned
<1>4. \A i \in 1..L : so.steps[i].isFinal => i = L
  <2> SUFFICES ASSUME NEW i \in 1..L, so.steps[i].isFinal, i # L PROVE FALSE
    OBVIOUS
  <2>1. L \in 1..L /\ i < L
    <3>1. L \in Nat
      BY <1>2
    <3> HIDE DEF L
    <3> QED
      BY <3>1
  <2>2. so.source[i] = Len(actions) /\ so.source[L] \in 1..Len(actions)
    BY <1>3, <2>1 DEF Aligned
  <2>3. so.source[i] < so.source[L]
    BY <1>3, <2>1
  <2> QED
    BY <1>2, <2>2, <2>3
<1>5. ValidSteps(so.steps)
  <2>1. ValidFinalPlacement(so.steps)
    BY <1>2, <1>4 DEF ValidFinalPlacement
  <2>2. ValidOutputNames(so.steps)
    BY <1>1, <1>2 DEF ConvInv, ReadsApart, ValidOutputNames
  <2> QED
    BY <2>1, <2>2 DEF ValidSteps
<1>6. \A i \in DOMAIN so.steps :
        so.steps[i].value.secret => \E c \in so.credentials : c.name = so.steps[i].value.of
  BY <1>1, <1>2 DEF ConvInv, SecretsKept
<1>7. \A i \in DOMAIN so.source :
        Converts(actions[so.source[i]]) /\ Value(actions[so.source[i]]) = so.steps[i].value
  BY <1>2, <1>3 DEF Aligned
<1>8. ASSUME ~Twins(actions), ~LeftEmpty(actions) PROVE Replayed(so) = Performed(actions)
  <2> DEFINE r == [i \in DOMAIN so.steps |-> Replaying(so.steps[i], so.credentials)]
             d == Deeds(actions, so.source)
  <2>1. Len(r) = L /\ \A i \in 1..L : r[i] = Replaying(so.steps[i], so.credentials)
    BY <1>2
  <2>2. Len(d) = L /\ \A i \in 1..L : d[i] = Counted(actions[so.source[i]])
    BY <1>2, DeedsAre
  <2>3. \A i \in 1..L : \A world :
          Does(world, Replaying(so.steps[i], so.credentials)) = Does(world, Counted(actions[so.source[i]]))
    BY <1>1, <1>8, StepDoesTheAction
  <2> HIDE DEF r, d
  <2>4. Play(r) = Play(d)
    <3>1. \A k \in 1..Len(r) : \A world : Does(world, r[k]) = Does(world, d[k])
      BY <2>1, <2>2, <2>3
    <3> QED
      BY <1>2, <2>1, <2>2, <3>1, SameDone
  <2>5. Play(d) = Play(FirstDeeds(actions, Len(actions)))
    BY <1>1, <1>8 DEF ConvInv, d
  <2>6. Performed(actions) = Play(FirstDeeds(actions, Len(actions)))
    BY <1>8, EmptiedIsRefilled
  <2>7. Replayed(so) = Play(r)
    BY DEF Replayed, r
  <2> QED
    BY <2>4, <2>5, <2>6, <2>7
<1> QED
  BY <1>2, <1>3, <1>5, <1>6, <1>7, <1>8

(* What becomes of a recording. *)
ConvertInv ==
  /\ task = "convert" => input \in Seq(RecordedActions) /\ OneFinal(input)
  /\ Did("convert") => output = ActionsToSteps(input)

(* recorded-action.ts 413-417: for recordings of any length, the steps can   *)
(* be saved, the secrets they refer to are handed over, each is lined up     *)
(* with an action that became one, and, up to twins and fields left empty,   *)
(* running them does what was recorded.                                      *)
THEOREM RecordingsAreKept == SchemaSpec => []RecordedAsDone
<1>1. SchemaInit => ConvertInv
  <2> SUFFICES ASSUME SchemaInit PROVE ConvertInv
    OBVIOUS
  <2>1. phase = "given" /\ (task = "convert" => input \in Recordings)
    BY Given, Zenon
  <2>2. Recordings \subseteq {actions \in Seq(RecordedActions) : OneFinal(actions)}
    <3> SUFFICES ASSUME NEW actions \in Recordings
                 PROVE  actions \in Seq(RecordedActions) /\ OneFinal(actions)
      OBVIOUS
    <3>1. actions \in Seq(Actions) /\ \A i \in DOMAIN actions : actions[i].isFinal => i = Len(actions)
      BY DEF Recordings, BoundedSeq, SeqOf
    <3>2. actions \in Seq(RecordedActions)
      BY <3>1, SchemaAssumption
    <3> QED
      BY <3>1, <3>2 DEF OneFinal
  <2> QED
    BY <2>1, <2>2 DEF ConvertInv, Did
<1>2. ConvertInv /\ [SchemaNext]_schemaVars => ConvertInv'
  BY DEF ConvertInv, Did, SchemaNext, schemaVars, Begins, Name, Grow, Convert, Repeat, Read
<1>3. ConvertInv => RecordedAsDone
  <2> SUFFICES ASSUME ConvertInv, Did("convert") PROVE RecordedAsDone
    BY DEF RecordedAsDone
  <2>1. input \in Seq(RecordedActions) /\ OneFinal(input) /\ output = ActionsToSteps(input)
    BY DEF ConvertInv, Did
  <2>2. PICK actions, so : actions = input /\ so = output
    OBVIOUS
  <2>3. actions \in Seq(RecordedActions) /\ OneFinal(actions) /\ so = ActionsToSteps(actions)
    BY <2>1, <2>2
  <2>4. /\ ValidSteps(so.steps)
        /\ \A i \in DOMAIN so.steps :
             so.steps[i].value.secret => \E c \in so.credentials : c.name = so.steps[i].value.of
        /\ Len(so.source) = Len(so.steps)
        /\ \A i, j \in DOMAIN so.source : i < j => so.source[i] < so.source[j]
        /\ \A i \in DOMAIN so.source :
             Converts(actions[so.source[i]]) /\ Value(actions[so.source[i]]) = so.steps[i].value
        /\ Twins(actions) \/ LeftEmpty(actions) \/ Replayed(so) = Performed(actions)
    BY <2>3, RecordingKept
  <2> QED
    BY <2>2, <2>4 DEF RecordedAsDone
<1>4. QED
  BY <1>1, <1>2, <1>3, PTL DEF SchemaSpec
=============================================================================
