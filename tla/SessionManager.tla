---------------------------- MODULE SessionManager ----------------------------
(***************************************************************************)
(* SessionManager.create() (apps/worker/src/session/manager.ts) and the    *)
(* sessions it makes: slots, limits and profiles shared by all of them.    *)
(***************************************************************************)
EXTENDS BrowserSession

(* checkSessionLimits *)
Admitted(s) ==
  /\ Cardinality(listed) < MaxSessions
  /\ MaxPerUser > 0 =>
       Cardinality({q \in listed : Owner[q] = Owner[s]}) < MaxPerUser

Lowest(k, free) == k \in free /\ \A i \in free : k <= i

(* `<=` one further than the last display. *)
AllocateOneFurther(s) ==
  \E k \in Slots \cup {j + 1 : j \in Slots} :
    /\ Lowest(k, (Slots \cup {j + 1 : j \in Slots}) \ taken)
    /\ slot' = [slot EXCEPT ![s] = k]
    /\ taken' = taken \cup {k}

(* allocator.allocate: the lowest display that is free. *)
Allocate(s) ==
  \E k \in Slots :
    /\ Lowest(k, Slots \ taken)
    /\ slot' = [slot EXCEPT ![s] = k]
    /\ taken' = taken \cup {k}

Unlocked(s) == Wants[s] # None /\ lock[Wants[s]] = None

(* The profile is taken whoever has it. *)
CreateUnlocked(s) ==
  /\ stage[s] = "new"
  /\ Admitted(s)
  /\ Allocate(s)
  /\ Wants[s] # None
  /\ lock' = [lock EXCEPT ![Wants[s]] = s]
  /\ keeps' = [keeps EXCEPT ![s] = TRUE]
  /\ Opens(s)
  /\ UNCHANGED <<browser, closeVars, interrupted>>

(* A session that gets the profile it asks for ... *)
CreateKeeping(s) ==
  /\ stage[s] = "new"
  /\ Admitted(s)
  /\ Allocate(s)
  /\ Unlocked(s)
  /\ lock' = [lock EXCEPT ![Wants[s]] = s]
  /\ keeps' = [keeps EXCEPT ![s] = TRUE]
  /\ Opens(s)
  /\ UNCHANGED <<browser, closeVars, interrupted>>

(* ... one that asks for none ... *)
CreateThrowaway(s) ==
  /\ stage[s] = "new"
  /\ Admitted(s)
  /\ Allocate(s)
  /\ Wants[s] = None
  /\ Opens(s)
  /\ UNCHANGED <<lock, keeps, browser, closeVars, interrupted>>

(* ... and one that has to borrow it: asking the holder and copying its
   directory is awaited, with a slot taken and no session in the map. *)
CreateBorrowing(s) ==
  /\ stage[s] = "new"
  /\ Admitted(s)
  /\ Allocate(s)
  /\ Wants[s] # None /\ ~Unlocked(s)
  /\ stage' = [stage EXCEPT ![s] = "borrowing"]
  /\ UNCHANGED <<listed, lock, keeps, procs, browser, closeVars,
                 interrupted>>

(* borrowProfileForSession gives a copy or nothing, and never fails. *)
Borrowed(s) ==
  /\ stage[s] = "borrowing"
  /\ Opens(s)
  /\ UNCHANGED <<taken, lock, slot, keeps, browser, closeVars, interrupted>>

SessionInit ==
  /\ listed = {}
  /\ taken = {}
  /\ lock = [p \in Profiles |-> None]
  /\ slot = [s \in Sessions |-> None]
  /\ keeps = [s \in Sessions |-> FALSE]
  /\ stage = [s \in Sessions |-> "new"]
  /\ procs = [s \in Sessions |-> {}]
  /\ browser = [s \in Sessions |-> FALSE]
  /\ closing = [s \in Sessions |-> "no"]
  /\ doomed = [s \in Sessions |-> {}]
  /\ interrupted = {}

SessionStep(s) ==
  \/ CreateKeeping(s) \/ CreateThrowaway(s) \/ CreateBorrowing(s) \/ Borrowed(s)
  \/ StartsOn(s) \/ ClosesOn(s)
  \/ CloseRequested(s) \/ LifetimeOver(s) \/ BrowserDies(s)

SessionNext == \E s \in Sessions : SessionStep(s)

SessionSpec == SessionInit /\ [][SessionNext]_sessionVars

(* Every await of create(), start() and close() ends, and the timer of a
   ready session fires.  Most have a timeout; the calls into an open browser
   that have none (frame.evaluate, cookies, storageState) are assumed to return
   or throw, as they do when the browser goes.  Nobody has to ask. *)
SessionFairness ==
  \A s \in Sessions :
    /\ WF_sessionVars(Borrowed(s))
    /\ WF_sessionVars(StartsOn(s))
    /\ WF_sessionVars(ClosesOn(s))
    /\ WF_sessionVars(LifetimeOver(s))

FairSessionSpec == SessionSpec /\ SessionFairness

-----------------------------------------------------------------------------
(***************************************************************************)
(* Properties.                                                             *)
(***************************************************************************)

Occupies(s) == procs[s] # {} \/ browser[s]

(* No two live sessions share a display or its ports (allocator.ts:1-4), as
   long as nobody closes a session that is still starting. *)
SlotsExclusive ==
  interrupted = {} =>
    \A s, q \in Sessions :
      Occupies(s) /\ Occupies(q) /\ slot[s] = slot[q] => s = q

(* One profile, one browser (profile.ts:17-21), under the same condition. *)
ProfilesExclusive ==
  interrupted = {} =>
    \A s, q \in Sessions :
      keeps[s] /\ browser[s] /\ keeps[q] /\ browser[q] /\ Wants[s] = Wants[q]
        => s = q

(* Nothing of a session outlives it, whatever happened to the others
   (session.ts:383-416). *)
NothingOutlives ==
  \A s \in Sessions :
    closing[s] = "done" /\ s \notin interrupted => ~Occupies(s)

(* No slot is lost: one that is taken belongs to a session that is being made,
   or that is in the map and will give it back (manager.ts:181-196). *)
NoSlotLost ==
  \A k \in taken : \E s \in Sessions :
    slot[s] = k /\ (s \in listed \/ stage[s] = "borrowing")

(* A profile is locked by a session that is in the map: a lock never survives
   its session (profile.ts:54-60). *)
LocksAlive ==
  \A p \in Profiles : lock[p] # None =>
    lock[p] \in listed /\ keeps[lock[p]] /\ Wants[lock[p]] = p

(* Every session ends and gives its slot back, also one nobody closes, whose
   start fails or whose browser dies (session.ts:376-381). *)
SessionsEnd == \A s \in Sessions : s \in listed ~> s \notin listed

-----------------------------------------------------------------------------
(***************************************************************************)
(* Why the safety properties hold: an inductive invariant.                 *)
(***************************************************************************)

Holds(s) == s \in listed \/ stage[s] = "borrowing"

(* A session that has not come into being has nothing. *)
NothingBeforeStart ==
  \A s \in Sessions : stage[s] \in {"new", "borrowing"} =>
    s \notin listed /\ closing[s] = "no" /\ procs[s] = {} /\ ~browser[s] /\ ~keeps[s]

(* A session is closed after its start, unless it is interrupted, and it leaves
   the map when close() is over. *)
ClosedAfterStart ==
  \A s \in Sessions \ interrupted :
    /\ closing[s] # "no" => stage[s] \in {"ready", "failed"}
    /\ stage[s] \notin {"new", "borrowing"} /\ s \notin listed => closing[s] = "done"

(* So close() knows every process there is. *)
CloseKnowsAll ==
  \A s \in Sessions \ interrupted :
    /\ closing[s] \in {"kill", "directory", "done"} => ~browser[s]
    /\ closing[s] = "kill" => procs[s] \subseteq doomed[s]
    /\ closing[s] \in {"directory", "done"} => procs[s] = {}

(* Each session in the map has a slot and a lock of its own. *)
HoldersApart ==
  interrupted = {} =>
    /\ \A s \in Sessions : Holds(s) => slot[s] \in taken
    /\ \A s, q \in Sessions : Holds(s) /\ Holds(q) /\ slot[s] = slot[q] => s = q
    /\ \A s \in listed : keeps[s] => Wants[s] \in Profiles /\ lock[Wants[s]] = s

SessionInv ==
  /\ NothingBeforeStart
  /\ ClosedAfterStart
  /\ CloseKnowsAll
  /\ HoldersApart
=============================================================================
