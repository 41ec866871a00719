------------------------------- MODULE MCSchema -------------------------------
(* Schema on small inputs, chosen so that attributes, actions, recurrences   *)
(* and marks meet in every combination that is treated differently.          *)
EXTENDS Schema

Bare(tag) == [tag |-> tag, type |-> "", role |-> "", aria |-> "", label |-> "", placeholder |-> "",
              text |-> "", testid |-> "", name |-> "", value |-> "", id |-> ""]

MCVolatile == {"price"}
MCGeneratedIds == {"gen"}

MCElements ==
  {[Bare("button") EXCEPT !.text = t, !.aria = a, !.id = i] :
     t \in {"ok", "price"}, a \in {"", "ok"}, i \in {"", "id", "gen"}}
  \cup {[Bare("button") EXCEPT !.testid = "k"], [Bare("span") EXCEPT !.text = "ok", !.role = "button"]}
  \cup {[Bare("span") EXCEPT !.text = t, !.name = n] : t \in {"ok", "price"}, n \in {"", "n"}}
  \cup {[Bare("p") EXCEPT !.text = "ok"]}
  \cup {[Bare("input") EXCEPT !.label = l, !.placeholder = p, !.name = n] :
     l \in {"", "ok"}, p \in {"", "ok"}, n \in {"", "n"}}
  \cup {[Bare("input") EXCEPT !.type = "radio", !.label = l, !.name = "n", !.value = v] :
     l \in {"", "price"}, v \in {"v", "w"}}

Element(selector, frame, name, type) ==
  [selector |-> selector, frame |-> frame, name |-> name, type |-> type]
NoElement == Element("", "", "", "")

Act(kind, element, value, page) ==
  [kind |-> kind, element |-> element, value |-> value, isPassword |-> element.type = "password",
   pageId |-> page, site |-> "shop", isFinal |-> FALSE]

MCActions ==
  {Act("navigate", NoElement, v, p) : v \in {"u1", "u2"}, p \in {"main", "tab-1"}}
  \cup {Act("fill", Element("s1", f, "n1", "text"), v, p) :
          f \in {"", "f"}, v \in {"", "a", "b"}, p \in {"main", "tab-1"}}
  \cup {Act("fill", Element(s, "", "secret", "password"), v, "main") : s \in {"", "s2", "s3"}, v \in {"a", "b"}}
  \cup {[Act("fill", Element("s2", "", "secret", "password"), "a", "main") EXCEPT !.site = "bank"]}
  \cup {[Act("click", Element(s, "", "n1", ""), "", "main") EXCEPT !.isFinal = f] :
          s \in {"", "s4"}, f \in BOOLEAN}
  \cup {Act("read", Element("s5", "", "n1", t), "", "main") : t \in {"", "password"}}

SomeTimes == {0, 3, 19} \X {0, 3, 59}
MCRepetitions ==
  {[kind |-> "minutes", every |-> n] : n \in 1..59}
  \cup {[kind |-> "hours", every |-> n, minute |-> m] : n \in 1..23, m \in {0, 1, 3, 59}}
  \cup {[kind |-> "days", every |-> n, time |-> t] : n \in 1..30, t \in SomeTimes}
  \cup {[kind |-> "weekly", weekday |-> w, time |-> t] : w \in 0..6, t \in SomeTimes}
  \cup {[kind |-> "months", every |-> n, day |-> d, time |-> t] :
          n \in 1..12, d \in {1, 2, 28}, t \in SomeTimes}

MCTimes ==
  [month : {1, 2, 4, 12}, day : {1, 2, 16, 28, 31}, weekday : {0, 1, 6}, hour : {0, 3, 19, 22},
   minute : {0, 1, 3, 30, 59}]

(* Not run.  recorded-action.ts 415 "Consecutive fills on the same field     *)
(* collapse into the final value": when the final value is empty there is no *)
(* step for it, and the run types the value before it.                       *)
FinalValueKept ==
  Did("convert") =>
    \A n \in DOMAIN output.source :
      LET i == output.source[n]
      IN ~(input[i].kind = "fill" /\ i + 1 \in DOMAIN input /\ Refills(input[i + 1], input[i]))
=============================================================================
