----------------------------- MODULE PageNumbers -----------------------------
(***************************************************************************)
(* The number in a text read off a page: parseLocaleNumber()               *)
(* (packages/workflow-schema/src/read-result.ts).  A text is a sequence of *)
(* characters: "d" for a digit (none of them a zero), "dot" and "comma", "x" for *)
(* anything else; currency, percent and white space are off already.  A    *)
(* number is how many of its digits are decimals.                          *)
(***************************************************************************)
EXTENDS Integers, Sequences, FiniteSets

Marks == {"dot", "comma"}
NotANumber == -1

MarksOf(text) == {i \in DOMAIN text : text[i] \in Marks}
LastMark(text) == CHOOSE i \in MarksOf(text) : \A j \in MarksOf(text) : j <= i

(* The lengths between one mark and the next, before position `end`. *)
Bounds(text, end) == {0} \cup {i \in MarksOf(text) : i < end} \cup {end}
Follows(text, end, i, j) ==
  i \in Bounds(text, end) /\ j \in Bounds(text, end) /\ i < j
    /\ \A k \in Bounds(text, end) : ~(i < k /\ k < j)

(* The groups before the last mark are thousands: one to three digits, then  *)
(* three each; a lone group is as long as it likes.                          *)
Grouped3(text, end) ==
  \A i, j \in Bounds(text, end) :
    Follows(text, end, i, j) =>
      IF i = 0 THEN j - i > 1 /\ (j # end => j - i <= 4) ELSE j - i = 4

(* Mutant: three digits after a lone mark are decimals. *)
ParseLocaleNumberGuessing(text) ==
  CASE text = <<>> \/ (\E i \in DOMAIN text : text[i] = "x") \/ MarksOf(text) = DOMAIN text -> NotANumber
    [] MarksOf(text) = {} /\ text # <<>> -> 0
    [] OTHER -> IF Grouped3(text, LastMark(text)) THEN Len(text) - LastMark(text) ELSE NotANumber

ParseLocaleNumber(text) ==
  IF text = <<>> \/ (\E i \in DOMAIN text : text[i] = "x") \/ MarksOf(text) = DOMAIN text
  THEN NotANumber
  ELSE IF MarksOf(text) = {} THEN 0
  ELSE LET decimals == Len(text) - LastMark(text)
       IN IF Cardinality(MarksOf(text)) = 1 /\ decimals = 3 THEN NotANumber
          ELSE IF Grouped3(text, LastMark(text)) THEN decimals ELSE NotANumber

-----------------------------------------------------------------------------
(* The reference: how a country writes a number, with one mark between its   *)
(* thousands, or none, and the other before its decimals.                    *)

Thousands(digits, mark) ==
  /\ \A i \in DOMAIN digits : digits[i] \in {"d", mark}
  /\ \/ \A i \in DOMAIN digits : digits[i] = "d"
     \/ /\ \A i \in DOMAIN digits : digits[i] = mark <=> (Len(digits) - i) % 4 = 3
        /\ digits[1] = "d"

WrittenWith(text, thousands, decimal, decimals) ==
  IF decimals = 0 THEN text # <<>> /\ Thousands(text, thousands)
  ELSE LET mark == Len(text) - decimals
       IN /\ mark > 1 /\ text[mark] = decimal
          /\ \A i \in mark + 1..Len(text) : text[i] = "d"
          /\ Thousands(SubSeq(text, 1, mark - 1), thousands)

Readings(text) ==
  {n \in 0..Len(text) : WrittenWith(text, "dot", "comma", n) \/ WrittenWith(text, "comma", "dot", n)}
=============================================================================
