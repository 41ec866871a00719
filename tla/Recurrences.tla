----------------------------- MODULE Recurrences -----------------------------
(***************************************************************************)
(* A recurrence as it is picked, the cron line it becomes (packages/       *)
(* workflow-schema/src/recurrence.ts), when that line fires, and the       *)
(* sentence the line is read back as (apps/web/lib/recurrence.ts).         *)
(*                                                                         *)
(* A cron field is [step |-> n], every n-th of its values, or [at |-> v].  *)
(***************************************************************************)
EXTENDS Integers

Every(n) == [step |-> n]       \* `*` and `*/1` are the same field
At(v) == [at |-> v]
IsStep(field) == "step" \in DOMAIN field

TimesOfDay == (0..23) \X (0..59)

(* What the form and the schema let through. *)
ValidRecurrences ==
  [kind : {"minutes"}, every : 1..59]
  \cup [kind : {"hours"}, every : 1..23, minute : 0..59]
  \cup [kind : {"days"}, every : 1..30, time : TimesOfDay]
  \cup [kind : {"weekly"}, weekday : 0..6, time : TimesOfDay]
  \cup [kind : {"months"}, every : 1..12, day : 1..28, time : TimesOfDay]

Cron(minute, hour, day, month, weekday) ==
  [minute |-> minute, hour |-> hour, day |-> day, month |-> month, weekday |-> weekday]

(* Mutant: the two fields of a time change places. *)
RecurrenceToCronSwapped(r) ==
  LET any == Every(1)
  IN CASE r.kind = "minutes" -> Cron(Every(r.every), any, any, any, any)
       [] r.kind = "hours" -> Cron(At(r.minute), Every(r.every), any, any, any)
       [] r.kind = "days" -> Cron(At(r.time[1]), At(r.time[2]), Every(r.every), any, any)
       [] r.kind = "weekly" -> Cron(At(r.time[1]), At(r.time[2]), any, any, At(r.weekday))
       [] r.kind = "months" -> Cron(At(r.time[1]), At(r.time[2]), At(r.day), Every(r.every), any)

RecurrenceToCron(r) ==
  LET any == Every(1)
  IN CASE r.kind = "minutes" -> Cron(Every(r.every), any, any, any, any)
       [] r.kind = "hours" -> Cron(At(r.minute), Every(r.every), any, any, any)
       [] r.kind = "days" -> Cron(At(r.time[2]), At(r.time[1]), Every(r.every), any, any)
       [] r.kind = "weekly" -> Cron(At(r.time[2]), At(r.time[1]), any, any, At(r.weekday))
       [] r.kind = "months" -> Cron(At(r.time[2]), At(r.time[1]), At(r.day), Every(r.every), any)

(* How the queue's library reads a line: a step counts from the first value  *)
(* of its field; a day of the month and a weekday that are both given are    *)
(* alternatives.                                                             *)
FieldFires(field, value, first) ==
  IF IsStep(field) THEN (value - first) % field.step = 0 ELSE value = field.at

Fires(cron, t) ==
  /\ FieldFires(cron.minute, t.minute, 0) /\ FieldFires(cron.hour, t.hour, 0)
  /\ FieldFires(cron.month, t.month, 1)
  /\ IF cron.day = Every(1) \/ cron.weekday = Every(1)
     THEN FieldFires(cron.day, t.day, 1) /\ FieldFires(cron.weekday, t.weekday, 0)
     ELSE FieldFires(cron.day, t.day, 1) \/ FieldFires(cron.weekday, t.weekday, 0)

StepOf(field) == IF IsStep(field) THEN field.step ELSE 1

(* describeCron(), up to the words of describeRecurrence(). *)
DescribeCron(cron) ==
  LET time == <<cron.hour.at, cron.minute.at>>
  IN CASE IsStep(cron.hour) /\ IsStep(cron.minute) ->
            [kind |-> "minutes", every |-> StepOf(cron.minute)]
       [] IsStep(cron.hour) /\ ~IsStep(cron.minute) ->
            [kind |-> "hours", every |-> StepOf(cron.hour), minute |-> cron.minute.at]
       [] ~IsStep(cron.hour) /\ cron.weekday # Every(1) ->
            [kind |-> "weekly", weekday |-> cron.weekday.at, time |-> time]
       [] ~IsStep(cron.hour) /\ cron.weekday = Every(1) /\ IsStep(cron.day) ->
            [kind |-> "days", every |-> StepOf(cron.day), time |-> time]
       [] OTHER ->
            [kind |-> "months", every |-> StepOf(cron.month), day |-> cron.day.at, time |-> time]
=============================================================================
