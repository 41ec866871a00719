---------------------------- MODULE SelectorChoice ----------------------------
(***************************************************************************)
(* How the recorder names an element and how a run finds it again:         *)
(* describe() in the page (apps/worker/src/recorder/browser-script.ts),    *)
(* chooseSelector() (packages/workflow-schema/src/selector.ts) and         *)
(* resolveUnique() (apps/worker/src/runner/locator.ts).                    *)
(*                                                                         *)
(* A page is the sequence of its elements, side by side in one document.   *)
(* An attribute an element does not have is "".                            *)
(***************************************************************************)
EXTENDS Naturals, Sequences, FiniteSets

CONSTANTS
  Volatile,     \* texts with a price or a percentage in them
  GeneratedIds  \* ids a framework makes up on every render

None == ""
NoSelector == [by |-> None, a |-> None, b |-> None, nth |-> 0]
Nobody == 0

-----------------------------------------------------------------------------
(* What the injected script says of an element. *)

ImplicitRole(el) ==
  CASE el.tag = "button" -> "button"
    [] el.tag = "input" /\ el.type \in {"checkbox", "radio"} -> el.type
    [] el.tag = "input" /\ el.type \in {None, "text", "password"} -> "textbox"
    [] OTHER -> None

RoleOf(el) == IF el.role # None THEN el.role ELSE ImplicitRole(el)

FirstOf(first, second) == IF first # None THEN first ELSE second

LabelTextFor(el) == FirstOf(el.label, el.aria)

(* A button is named by its text, a field by its label or its placeholder. *)
AccessibleName(el) ==
  LET said == IF el.tag = "button" \/ el.role = "button" THEN el.text ELSE None
  IN FirstOf(FirstOf(el.aria, said), FirstOf(LabelTextFor(el), el.placeholder))

Controls == {"input"}                     \* what countByLabel() goes through
Worded == {"button", "span"}              \* what countByText() goes through

(* nth-of-type, down from the root. *)
Nth(page, i) == Cardinality({j \in 1..i : page[j].tag = page[i].tag})

(* `unique`: the strategies whose count is one.  A path always is. *)
Unique(page, i) ==
  LET el == page[i]
      One(among) == Cardinality(among) = 1
  IN [role |-> One({j \in DOMAIN page : RoleOf(page[j]) = RoleOf(el)
                                        /\ AccessibleName(page[j]) = AccessibleName(el)}),
      label |-> One({j \in DOMAIN page : page[j].tag \in Controls
                                         /\ LabelTextFor(page[j]) = LabelTextFor(el)}),
      placeholder |-> One({j \in DOMAIN page : page[j].placeholder = el.placeholder}),
      text |-> One({j \in DOMAIN page : page[j].tag \in Worded /\ page[j].text = el.text}),
      testid |-> One({j \in DOMAIN page : page[j].testid = el.testid}),
      name |-> One({j \in DOMAIN page : page[j].name = el.name}),
      id |-> One({j \in DOMAIN page : page[j].id = el.id}),
      css |-> TRUE]

-----------------------------------------------------------------------------
(* The choice. *)

IsUsableText(text) == text # None /\ text \notin Volatile
UsableId(el) == el.id # None /\ el.id \notin GeneratedIds

Selector(by, a, b) == [by |-> by, a |-> a, b |-> b, nth |-> 0]
ByPath(page, i) == [by |-> "path", a |-> page[i].tag, b |-> None, nth |-> Nth(page, i)]

(* A checkbox or a radio of a group, by the group's name and its own value. *)
Grouped(el) ==
  el.tag = "input" /\ el.type \in {"radio", "checkbox"} /\ el.name # None /\ el.value # None

(* What can be said of an element, best first, and the `unique` flag each is *)
(* judged by: the sort puts the name before the css of a grouped input.      *)
BuildCandidates(page, i) ==
  LET el == page[i]
      Candidate(said, flag, selector) == [said |-> said, flag |-> flag, selector |-> selector]
  IN <<Candidate(RoleOf(el) # None /\ IsUsableText(AccessibleName(el)), "role",
                 Selector("role", RoleOf(el), AccessibleName(el))),
       Candidate(IsUsableText(LabelTextFor(el)), "label", Selector("label", LabelTextFor(el), None)),
       Candidate(IsUsableText(el.placeholder), "placeholder", Selector("placeholder", el.placeholder, None)),
       Candidate(IsUsableText(el.text), "text", Selector("text", el.text, None)),
       Candidate(el.testid # None, "testid", Selector("testid", el.testid, None)),
       Candidate(el.name # None, "name", Selector("name", el.name, None)),
       Candidate(UsableId(el), "id", Selector("id", el.id, None)),
       Candidate(Grouped(el), "css", Selector("nameAndValue", el.name, el.value)),
       Candidate(TRUE, "css", ByPath(page, i))>>

BuildFallback(page, i) ==
  LET el == page[i]
  IN CASE Grouped(el) -> Selector("nameAndValue", el.name, el.value)
       [] ~Grouped(el) /\ el.name # None -> Selector("tagAndName", el.tag, el.name)
       [] el.name = None /\ UsableId(el) -> Selector("id", el.id, None)
       [] OTHER -> ByPath(page, i)

(* The best candidate that named one element when it was recorded. *)
Names(page, i, candidate) == candidate.said /\ Unique(page, i)[candidate.flag]

BestCandidate(page, i) ==
  LET candidates == BuildCandidates(page, i)
      best == CHOOSE k \in 1..9 : /\ Names(page, i, candidates[k])
                                 /\ \A j \in 1..k - 1 : ~Names(page, i, candidates[j])
  IN candidates[best].selector

ChooseSelector(page, i) ==
  LET chosen == BestCandidate(page, i)
      fallback == BuildFallback(page, i)
  IN [primary |-> chosen, fallback |-> IF fallback = chosen THEN NoSelector ELSE fallback]

(* isPositionalSelector(): it says where the element sits. *)
IsPositional(selector) == selector.by = "path"

-----------------------------------------------------------------------------
(* The run. *)

(* What the library matches: roles, names and labels as the recorder reads   *)
(* them, but of every element.                                               *)
Matches(page, selector, i) ==
  LET el == page[i]
  IN CASE selector.by = "role" -> RoleOf(el) = selector.a /\ AccessibleName(el) = selector.b
       [] selector.by = "label" -> LabelTextFor(el) = selector.a
       [] selector.by = "placeholder" -> el.placeholder = selector.a
       [] selector.by = "text" -> el.text = selector.a
       [] selector.by = "testid" -> el.testid = selector.a
       [] selector.by = "name" -> el.name = selector.a
       [] selector.by = "id" -> el.id = selector.a
       [] selector.by = "nameAndValue" -> el.tag = "input" /\ el.name = selector.a /\ el.value = selector.b
       [] selector.by = "tagAndName" -> el.tag = selector.a /\ el.name = selector.b
       [] selector.by = "path" -> el.tag = selector.a /\ Nth(page, i) = selector.nth
       [] OTHER -> FALSE

Found(page, selector) == {i \in DOMAIN page : Matches(page, selector, i)}

(* Mutant: the fallback is asked also when the primary matches too many. *)
ResolveUniqueOrElse(page, chosen) ==
  LET first == Found(page, chosen.primary)
      second == Found(page, chosen.fallback)
  IN CASE Cardinality(first) = 1 -> CHOOSE i \in first : TRUE
       [] Cardinality(first) # 1 /\ second # {} -> CHOOSE i \in second : \A j \in second : i <= j
       [] OTHER -> Nobody

(* One match or an error; the fallback only when the primary matches nothing. *)
ResolveUnique(page, chosen) ==
  LET first == Found(page, chosen.primary)
      second == Found(page, chosen.fallback)
  IN CASE Cardinality(first) = 1 -> CHOOSE i \in first : TRUE
       [] first = {} /\ Cardinality(second) = 1 -> CHOOSE i \in second : TRUE
       [] OTHER -> Nobody
=============================================================================
