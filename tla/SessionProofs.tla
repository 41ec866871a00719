---------------------------- MODULE SessionProofs ----------------------------
(***************************************************************************)
(* Proofs of SessionManager: its invariant is inductive, and the safety    *)
(* properties follow, for any number of sessions, slots and profiles.      *)
(***************************************************************************)
EXTENDS SessionManager, TLAPS

(* A slot that is allocated was free. *)
LEMMA AllocatedSlot ==
  ASSUME NEW s \in Sessions, Allocate(s)
  PROVE  \E k \in Slots : /\ k \notin taken
                         /\ slot' = [slot EXCEPT ![s] = k]
                         /\ taken' = taken \cup {k}
BY DEF Allocate, Lowest

(* A profile that is taken was wanted, and nobody had it. *)
LEMMA WantedProfile ==
  ASSUME NEW s \in Sessions, Unlocked(s)
  PROVE  Wants[s] \in Profiles /\ lock[Wants[s]] = None
BY SessionAssumption DEF Unlocked

(* Types. *)
LEMMA StepTyped ==
  ASSUME SessionTypeOK, NEW s \in Sessions, SessionStep(s)
  PROVE  SessionTypeOK'
<1> USE DEF SessionTypeOK, Stages, Starting, ClosingPcs, managerVars, startVars, closeVars
<1>1. CASE CreateKeeping(s)
  <2>1. PICK k \in Slots : /\ k \notin taken
                            /\ slot' = [slot EXCEPT ![s] = k]
                            /\ taken' = taken \cup {k}
    BY <1>1, AllocatedSlot DEF CreateKeeping
  <2>2. QED
    BY <1>1, <2>1, SessionAssumption DEF CreateKeeping, Opens, Unlocked
<1>2. CASE CreateThrowaway(s)
  <2>1. PICK k \in Slots : /\ k \notin taken
                            /\ slot' = [slot EXCEPT ![s] = k]
                            /\ taken' = taken \cup {k}
    BY <1>2, AllocatedSlot DEF CreateThrowaway
  <2>2. QED
    BY <1>2, <2>1, SessionAssumption DEF CreateThrowaway, Opens
<1>3. CASE CreateBorrowing(s)
  <2>1. PICK k \in Slots : /\ k \notin taken
                            /\ slot' = [slot EXCEPT ![s] = k]
                            /\ taken' = taken \cup {k}
    BY <1>3, AllocatedSlot DEF CreateBorrowing
  <2>2. QED
    BY <1>3, <2>1, SessionAssumption DEF CreateBorrowing, Unlocked
<1>4. CASE Borrowed(s)
  BY <1>4, SessionAssumption DEF Borrowed, Opens
<1>5. CASE DisplayUp(s)
  BY <1>5, SessionAssumption DEF DisplayUp, Advance
<1>6. CASE BrowserUp(s)
  BY <1>6, SessionAssumption DEF BrowserUp, Advance
<1>7. CASE Ready(s)
  BY <1>7, SessionAssumption DEF Ready, Advance
<1>8. CASE StageFails(s)
  <2>1. CASE BeginClose(s) /\ UNCHANGED managerVars
    BY <1>8, <2>1 DEF StageFails, BeginClose
  <2>2. CASE closing[s] # "no" /\ GiveBack(s) /\ UNCHANGED closeVars
    BY <1>8, <2>2, SessionAssumption DEF StageFails, GiveBack, Unlocking
  <2>3. QED
    BY <1>8, <2>1, <2>2 DEF StageFails
<1>9. CASE ContextClosed(s)
  BY <1>9, SessionAssumption DEF ContextClosed
<1>10. CASE Killed(s)
  BY <1>10, SessionAssumption DEF Killed
<1>11. CASE CloseEnds(s)
  BY <1>11, SessionAssumption DEF CloseEnds, GiveBack, Unlocking
<1>12. CASE CloseRequested(s)
  BY <1>12, SessionAssumption DEF CloseRequested, BeginClose, Interrupts
<1>13. CASE LifetimeOver(s)
  BY <1>13, SessionAssumption DEF LifetimeOver, BeginClose
<1>14. CASE BrowserDies(s)
  BY <1>14, SessionAssumption DEF BrowserDies, Interrupts
<1>15. QED
  BY <1>1, <1>2, <1>3, <1>4, <1>5, <1>6, <1>7, <1>8,
     <1>9, <1>10, <1>11, <1>12, <1>13, <1>14 DEF SessionStep, StartsOn, ClosesOn

(* A session that has not come into being has nothing. *)
LEMMA StepNothingBeforeStart ==
  ASSUME SessionTypeOK, NothingBeforeStart, NEW s \in Sessions, SessionStep(s)
  PROVE  NothingBeforeStart'
<1> USE DEF NothingBeforeStart, SessionTypeOK, Stages, Starting, ClosingPcs, managerVars, startVars, closeVars
<1>1. CASE CreateKeeping(s)
  BY <1>1, SessionAssumption DEF CreateKeeping, Opens, Unlocked
<1>2. CASE CreateThrowaway(s)
  BY <1>2, SessionAssumption DEF CreateThrowaway, Opens
<1>3. CASE CreateBorrowing(s)
  BY <1>3, SessionAssumption DEF CreateBorrowing, Unlocked
<1>4. CASE Borrowed(s)
  BY <1>4, SessionAssumption DEF Borrowed, Opens
<1>5. CASE DisplayUp(s)
  BY <1>5, SessionAssumption DEF DisplayUp, Advance
<1>6. CASE BrowserUp(s)
  BY <1>6, SessionAssumption DEF BrowserUp, Advance
<1>7. CASE Ready(s)
  BY <1>7, SessionAssumption DEF Ready, Advance
<1>8. CASE StageFails(s)
  BY <1>8, SessionAssumption DEF StageFails, BeginClose, GiveBack, Unlocking
<1>9. CASE ContextClosed(s)
  BY <1>9, SessionAssumption DEF ContextClosed
<1>10. CASE Killed(s)
  BY <1>10, SessionAssumption DEF Killed
<1>11. CASE CloseEnds(s)
  BY <1>11, SessionAssumption DEF CloseEnds, GiveBack, Unlocking
<1>12. CASE CloseRequested(s)
  BY <1>12, SessionAssumption DEF CloseRequested, BeginClose, Interrupts
<1>13. CASE LifetimeOver(s)
  BY <1>13, SessionAssumption DEF LifetimeOver, BeginClose
<1>14. CASE BrowserDies(s)
  BY <1>14, SessionAssumption DEF BrowserDies, Interrupts
<1>15. QED
  BY <1>1, <1>2, <1>3, <1>4, <1>5, <1>6, <1>7, <1>8,
     <1>9, <1>10, <1>11, <1>12, <1>13, <1>14 DEF SessionStep, StartsOn, ClosesOn

(* An uninterrupted session is closed after its start. *)
LEMMA StepClosedAfterStart ==
  ASSUME SessionTypeOK, NothingBeforeStart, ClosedAfterStart, NEW s \in Sessions, SessionStep(s)
  PROVE  ClosedAfterStart'
<1> USE DEF NothingBeforeStart, ClosedAfterStart, SessionTypeOK, Stages, Starting, ClosingPcs, managerVars, startVars, closeVars
<1>1. CASE CreateKeeping(s)
  BY <1>1, SessionAssumption DEF CreateKeeping, Opens, Unlocked
<1>2. CASE CreateThrowaway(s)
  BY <1>2, SessionAssumption DEF CreateThrowaway, Opens
<1>3. CASE CreateBorrowing(s)
  BY <1>3, SessionAssumption DEF CreateBorrowing, Unlocked
<1>4. CASE Borrowed(s)
  BY <1>4, SessionAssumption DEF Borrowed, Opens
<1>5. CASE DisplayUp(s)
  BY <1>5, SessionAssumption DEF DisplayUp, Advance
<1>6. CASE BrowserUp(s)
  BY <1>6, SessionAssumption DEF BrowserUp, Advance
<1>7. CASE Ready(s)
  BY <1>7, SessionAssumption DEF Ready, Advance
<1>8. CASE StageFails(s)
  BY <1>8, SessionAssumption DEF StageFails, BeginClose, GiveBack, Unlocking
<1>9. CASE ContextClosed(s)
  BY <1>9, SessionAssumption DEF ContextClosed
<1>10. CASE Killed(s)
  BY <1>10, SessionAssumption DEF Killed
<1>11. CASE CloseEnds(s)
  BY <1>11, SessionAssumption DEF CloseEnds, GiveBack, Unlocking
<1>12. CASE CloseRequested(s)
  BY <1>12, SessionAssumption DEF CloseRequested, BeginClose, Interrupts
<1>13. CASE LifetimeOver(s)
  BY <1>13, SessionAssumption DEF LifetimeOver, BeginClose
<1>14. CASE BrowserDies(s)
  BY <1>14, SessionAssumption DEF BrowserDies, Interrupts
<1>15. QED
  BY <1>1, <1>2, <1>3, <1>4, <1>5, <1>6, <1>7, <1>8,
     <1>9, <1>10, <1>11, <1>12, <1>13, <1>14 DEF SessionStep, StartsOn, ClosesOn

(* Its close() knows every process, as no stage of start() is left to spawn one. *)
LEMMA StepCloseKnowsAll ==
  ASSUME SessionTypeOK, NothingBeforeStart, ClosedAfterStart, CloseKnowsAll, NEW s \in Sessions, SessionStep(s)
  PROVE  CloseKnowsAll'
<1> USE DEF NothingBeforeStart, ClosedAfterStart, CloseKnowsAll, SessionTypeOK, Stages, Starting, ClosingPcs, managerVars, startVars, closeVars
<1>1. CASE CreateKeeping(s)
  BY <1>1, SessionAssumption DEF CreateKeeping, Opens, Unlocked
<1>2. CASE CreateThrowaway(s)
  BY <1>2, SessionAssumption DEF CreateThrowaway, Opens
<1>3. CASE CreateBorrowing(s)
  BY <1>3, SessionAssumption DEF CreateBorrowing, Unlocked
<1>4. CASE Borrowed(s)
  BY <1>4, SessionAssumption DEF Borrowed, Opens
<1>5. CASE DisplayUp(s)
  BY <1>5, SessionAssumption DEF DisplayUp, Advance
<1>6. CASE BrowserUp(s)
  BY <1>6, SessionAssumption DEF BrowserUp, Advance
<1>7. CASE Ready(s)
  BY <1>7, SessionAssumption DEF Ready, Advance
<1>8. CASE StageFails(s)
  BY <1>8, SessionAssumption DEF StageFails, BeginClose, GiveBack, Unlocking
<1>9. CASE ContextClosed(s)
  BY <1>9, SessionAssumption DEF ContextClosed
<1>10. CASE Killed(s)
  BY <1>10, SessionAssumption DEF Killed
<1>11. CASE CloseEnds(s)
  BY <1>11, SessionAssumption DEF CloseEnds, GiveBack, Unlocking
<1>12. CASE CloseRequested(s)
  BY <1>12, SessionAssumption DEF CloseRequested, BeginClose, Interrupts
<1>13. CASE LifetimeOver(s)
  BY <1>13, SessionAssumption DEF LifetimeOver, BeginClose
<1>14. CASE BrowserDies(s)
  BY <1>14, SessionAssumption DEF BrowserDies, Interrupts
<1>15. QED
  BY <1>1, <1>2, <1>3, <1>4, <1>5, <1>6, <1>7, <1>8,
     <1>9, <1>10, <1>11, <1>12, <1>13, <1>14 DEF SessionStep, StartsOn, ClosesOn

(* Sessions in the map keep apart: a slot and a lock are given back only by the
   session that has them, as long as none is interrupted. *)
LEMMA StepHoldersApart ==
  ASSUME SessionTypeOK, NothingBeforeStart, ClosedAfterStart, LocksAlive, HoldersApart, NEW s \in Sessions, SessionStep(s)
  PROVE  HoldersApart'
<1> USE DEF NothingBeforeStart, ClosedAfterStart, HoldersApart, LocksAlive, Holds, SessionTypeOK, Stages, Starting, ClosingPcs, managerVars, startVars, closeVars
<1>1. CASE CreateKeeping(s)
  <2>1. PICK k \in Slots : /\ k \notin taken
                            /\ slot' = [slot EXCEPT ![s] = k]
                            /\ taken' = taken \cup {k}
    BY <1>1, AllocatedSlot DEF CreateKeeping
  <2> SUFFICES ASSUME interrupted = {} PROVE HoldersApart'
    BY <1>1 DEF CreateKeeping
  <2>2. /\ listed' = listed \cup {s} /\ stage' = [stage EXCEPT ![s] = "display"]
        /\ keeps' = [keeps EXCEPT ![s] = TRUE] /\ lock' = [lock EXCEPT ![Wants[s]] = s]
    BY <1>1 DEF CreateKeeping, Opens
  <2>0. Wants[s] \in Profiles /\ lock[Wants[s]] = None
    BY <1>1, WantedProfile DEF CreateKeeping
  <2>3. \A q \in Sessions : Holds(q)' => slot'[q] \in taken'
    BY <2>1, <2>2
  <2>4. \A q, r \in Sessions : Holds(q)' /\ Holds(r)' /\ slot'[q] = slot'[r] => q = r
    BY <2>1, <2>2
  <2>5. \A q \in listed' : keeps'[q] => Wants[q] \in Profiles /\ lock'[Wants[q]] = q
    BY <2>2, <2>0, SessionAssumption
  <2>6. QED
    BY <2>3, <2>4, <2>5
<1>2. CASE CreateThrowaway(s)
  <2>1. PICK k \in Slots : /\ k \notin taken
                            /\ slot' = [slot EXCEPT ![s] = k]
                            /\ taken' = taken \cup {k}
    BY <1>2, AllocatedSlot DEF CreateThrowaway
  <2>2. QED
    BY <1>2, <2>1, SessionAssumption DEF CreateThrowaway, Opens
<1>3. CASE CreateBorrowing(s)
  <2>1. PICK k \in Slots : /\ k \notin taken
                            /\ slot' = [slot EXCEPT ![s] = k]
                            /\ taken' = taken \cup {k}
    BY <1>3, AllocatedSlot DEF CreateBorrowing
  <2>2. QED
    BY <1>3, <2>1, SessionAssumption DEF CreateBorrowing, Unlocked
<1>4. CASE Borrowed(s)
  BY <1>4, SessionAssumption DEF Borrowed, Opens
<1>5. CASE DisplayUp(s)
  BY <1>5, SessionAssumption DEF DisplayUp, Advance
<1>6. CASE BrowserUp(s)
  BY <1>6, SessionAssumption DEF BrowserUp, Advance
<1>7. CASE Ready(s)
  BY <1>7, SessionAssumption DEF Ready, Advance
<1>8. CASE StageFails(s)
  BY <1>8, SessionAssumption DEF StageFails, BeginClose, GiveBack, Unlocking
<1>9. CASE ContextClosed(s)
  BY <1>9, SessionAssumption DEF ContextClosed
<1>10. CASE Killed(s)
  BY <1>10, SessionAssumption DEF Killed
<1>11. CASE CloseEnds(s)
  BY <1>11, SessionAssumption DEF CloseEnds, GiveBack, Unlocking
<1>12. CASE CloseRequested(s)
  BY <1>12, SessionAssumption DEF CloseRequested, BeginClose, Interrupts
<1>13. CASE LifetimeOver(s)
  BY <1>13, SessionAssumption DEF LifetimeOver, BeginClose
<1>14. CASE BrowserDies(s)
  BY <1>14, SessionAssumption DEF BrowserDies, Interrupts
<1>15. QED
  BY <1>1, <1>2, <1>3, <1>4, <1>5, <1>6, <1>7, <1>8,
     <1>9, <1>10, <1>11, <1>12, <1>13, <1>14 DEF SessionStep, StartsOn, ClosesOn

(* A lock leaves with its session. *)
LEMMA StepLocksAlive ==
  ASSUME SessionTypeOK, NothingBeforeStart, LocksAlive, NEW s \in Sessions, SessionStep(s)
  PROVE  LocksAlive'
<1> USE DEF NothingBeforeStart, LocksAlive, SessionTypeOK, Stages, Starting, ClosingPcs, managerVars, startVars, closeVars
<1>1. CASE CreateKeeping(s)
  BY <1>1, SessionAssumption DEF CreateKeeping, Opens, Unlocked
<1>2. CASE CreateThrowaway(s)
  BY <1>2, SessionAssumption DEF CreateThrowaway, Opens
<1>3. CASE CreateBorrowing(s)
  BY <1>3, SessionAssumption DEF CreateBorrowing, Unlocked
<1>4. CASE Borrowed(s)
  BY <1>4, SessionAssumption DEF Borrowed, Opens
<1>5. CASE DisplayUp(s)
  BY <1>5, SessionAssumption DEF DisplayUp, Advance
<1>6. CASE BrowserUp(s)
  BY <1>6, SessionAssumption DEF BrowserUp, Advance
<1>7. CASE Ready(s)
  BY <1>7, SessionAssumption DEF Ready, Advance
<1>8. CASE StageFails(s)
  BY <1>8, SessionAssumption DEF StageFails, BeginClose, GiveBack, Unlocking
<1>9. CASE ContextClosed(s)
  BY <1>9, SessionAssumption DEF ContextClosed
<1>10. CASE Killed(s)
  BY <1>10, SessionAssumption DEF Killed
<1>11. CASE CloseEnds(s)
  BY <1>11, SessionAssumption DEF CloseEnds, GiveBack, Unlocking
<1>12. CASE CloseRequested(s)
  BY <1>12, SessionAssumption DEF CloseRequested, BeginClose, Interrupts
<1>13. CASE LifetimeOver(s)
  BY <1>13, SessionAssumption DEF LifetimeOver, BeginClose
<1>14. CASE BrowserDies(s)
  BY <1>14, SessionAssumption DEF BrowserDies, Interrupts
<1>15. QED
  BY <1>1, <1>2, <1>3, <1>4, <1>5, <1>6, <1>7, <1>8,
     <1>9, <1>10, <1>11, <1>12, <1>13, <1>14 DEF SessionStep, StartsOn, ClosesOn

(* So does a slot. *)
LEMMA StepNoSlotLost ==
  ASSUME SessionTypeOK, NothingBeforeStart, NoSlotLost, NEW s \in Sessions, SessionStep(s)
  PROVE  NoSlotLost'
<1> USE DEF NothingBeforeStart, NoSlotLost, SessionTypeOK, Stages, Starting, ClosingPcs, managerVars, startVars, closeVars
<1>1. CASE CreateKeeping(s)
  <2>1. PICK k \in Slots : /\ k \notin taken
                            /\ slot' = [slot EXCEPT ![s] = k]
                            /\ taken' = taken \cup {k}
    BY <1>1, AllocatedSlot DEF CreateKeeping
  <2>2. QED
    BY <1>1, <2>1, SessionAssumption DEF CreateKeeping, Opens, Unlocked
<1>2. CASE CreateThrowaway(s)
  <2>1. PICK k \in Slots : /\ k \notin taken
                            /\ slot' = [slot EXCEPT ![s] = k]
                            /\ taken' = taken \cup {k}
    BY <1>2, AllocatedSlot DEF CreateThrowaway
  <2>2. QED
    BY <1>2, <2>1, SessionAssumption DEF CreateThrowaway, Opens
<1>3. CASE CreateBorrowing(s)
  <2>1. PICK k \in Slots : /\ k \notin taken
                            /\ slot' = [slot EXCEPT ![s] = k]
                            /\ taken' = taken \cup {k}
    BY <1>3, AllocatedSlot DEF CreateBorrowing
  <2>2. QED
    BY <1>3, <2>1, SessionAssumption DEF CreateBorrowing, Unlocked
<1>4. CASE Borrowed(s)
  BY <1>4, SessionAssumption DEF Borrowed, Opens
<1>5. CASE DisplayUp(s)
  BY <1>5, SessionAssumption DEF DisplayUp, Advance
<1>6. CASE BrowserUp(s)
  BY <1>6, SessionAssumption DEF BrowserUp, Advance
<1>7. CASE Ready(s)
  BY <1>7, SessionAssumption DEF Ready, Advance
<1>8. CASE StageFails(s)
  <2>1. CASE BeginClose(s) /\ UNCHANGED managerVars
    BY <1>8, <2>1 DEF StageFails, BeginClose
  <2>2. CASE closing[s] # "no" /\ GiveBack(s) /\ UNCHANGED closeVars
    BY <1>8, <2>2, SessionAssumption DEF StageFails, GiveBack, Unlocking
  <2>3. QED
    BY <1>8, <2>1, <2>2 DEF StageFails
<1>9. CASE ContextClosed(s)
  BY <1>9, SessionAssumption DEF ContextClosed
<1>10. CASE Killed(s)
  BY <1>10, SessionAssumption DEF Killed
<1>11. CASE CloseEnds(s)
  BY <1>11, SessionAssumption DEF CloseEnds, GiveBack, Unlocking
<1>12. CASE CloseRequested(s)
  BY <1>12, SessionAssumption DEF CloseRequested, BeginClose, Interrupts
<1>13. CASE LifetimeOver(s)
  BY <1>13, SessionAssumption DEF LifetimeOver, BeginClose
<1>14. CASE BrowserDies(s)
  BY <1>14, SessionAssumption DEF BrowserDies, Interrupts
<1>15. QED
  BY <1>1, <1>2, <1>3, <1>4, <1>5, <1>6, <1>7, <1>8,
     <1>9, <1>10, <1>11, <1>12, <1>13, <1>14 DEF SessionStep, StartsOn, ClosesOn

LEMMA SessionInvInductive ==
  /\ SessionInit => SessionTypeOK /\ SessionInv /\ LocksAlive /\ NoSlotLost
  /\ SessionTypeOK /\ SessionInv /\ LocksAlive /\ NoSlotLost /\ [SessionNext]_sessionVars
       => (SessionTypeOK /\ SessionInv /\ LocksAlive /\ NoSlotLost)'
<1>1. ASSUME SessionInit PROVE SessionTypeOK /\ LocksAlive /\ NoSlotLost
  BY <1>1, SessionAssumption DEF SessionInit, SessionTypeOK, Stages, Starting, ClosingPcs,
     LocksAlive, NoSlotLost
<1>2. ASSUME SessionInit PROVE SessionInv
  BY <1>2 DEF SessionInit, SessionInv, NothingBeforeStart, ClosedAfterStart, CloseKnowsAll,
     HoldersApart, Holds
<1>3. ASSUME SessionTypeOK, SessionInv, LocksAlive, NoSlotLost,
             NEW s \in Sessions, SessionStep(s)
      PROVE  (SessionTypeOK /\ SessionInv /\ LocksAlive /\ NoSlotLost)'
  <2>1. NothingBeforeStart /\ ClosedAfterStart /\ CloseKnowsAll /\ HoldersApart
    BY <1>3 DEF SessionInv
  <2>2. SessionTypeOK' /\ NothingBeforeStart'
    BY <1>3, <2>1, StepTyped, StepNothingBeforeStart
  <2>3. ClosedAfterStart' /\ CloseKnowsAll'
    BY <1>3, <2>1, StepClosedAfterStart, StepCloseKnowsAll
  <2>4. HoldersApart'
    BY <1>3, <2>1, StepHoldersApart
  <2>5. LocksAlive' /\ NoSlotLost'
    BY <1>3, <2>1, StepLocksAlive, StepNoSlotLost
  <2>6. QED
    BY <2>2, <2>3, <2>4, <2>5 DEF SessionInv
<1>4. ASSUME SessionTypeOK, SessionInv, LocksAlive, NoSlotLost, UNCHANGED sessionVars
      PROVE  (SessionTypeOK /\ SessionInv /\ LocksAlive /\ NoSlotLost)'
  <2>1. SessionTypeOK' /\ LocksAlive' /\ NoSlotLost'
    BY <1>4 DEF sessionVars, SessionTypeOK, LocksAlive, NoSlotLost
  <2>2. SessionInv'
    BY <1>4 DEF sessionVars, SessionInv, NothingBeforeStart, ClosedAfterStart, CloseKnowsAll,
       HoldersApart, Holds
  <2>3. QED
    BY <2>1, <2>2
<1>5. QED
  BY <1>1, <1>2, <1>3, <1>4 DEF SessionNext

(* Types, the inductive invariant, and two properties that are inductive by
   themselves: no slot is lost and no lock survives its session, interrupted or
   not (onClosed and the catch of create()). *)
THEOREM SessionInvariant ==
  SessionSpec => [](SessionTypeOK /\ SessionInv /\ LocksAlive /\ NoSlotLost)
BY SessionInvInductive, PTL DEF SessionSpec

(* Every process and the browser of a session that close() is done with are
   gone, unless the close came during the start. *)
LEMMA InvNothingOutlives == SessionTypeOK /\ SessionInv => NothingOutlives
BY DEF SessionTypeOK, SessionInv, CloseKnowsAll, NothingOutlives, Occupies

(* A session with a process or a browser is in the map or being made. *)
LEMMA OccupantsHold ==
  ASSUME SessionTypeOK, SessionInv, interrupted = {}, NEW s \in Sessions, Occupies(s)
  PROVE  s \in listed
<1>1. stage[s] \notin {"new", "borrowing"}
  BY DEF SessionInv, NothingBeforeStart, Occupies
<1>2. closing[s] # "done"
  BY DEF SessionInv, CloseKnowsAll, Occupies
<1>3. QED
  BY <1>1, <1>2 DEF SessionInv, ClosedAfterStart

LEMMA InvSlotsExclusive == SessionTypeOK /\ SessionInv => SlotsExclusive
BY OccupantsHold DEF SlotsExclusive, SessionInv, HoldersApart, Holds

LEMMA InvProfilesExclusive == SessionTypeOK /\ SessionInv => ProfilesExclusive
<1> SUFFICES ASSUME SessionTypeOK, SessionInv, interrupted = {},
                    NEW s \in Sessions, NEW q \in Sessions,
                    keeps[s], browser[s], keeps[q], browser[q], Wants[s] = Wants[q]
             PROVE  s = q
    BY DEF ProfilesExclusive
<1>1. s \in listed /\ q \in listed
  BY OccupantsHold DEF Occupies
<1>2. QED
  BY <1>1 DEF SessionInv, HoldersApart

(* No two sessions have something running on one display, unless somebody
   closed a session while it was starting (allocator.ts:1-4). *)
THEOREM SlotsAreExclusive == SessionSpec => []SlotsExclusive
BY SessionInvariant, InvSlotsExclusive, PTL

(* No two browsers have one kept profile, under the same condition
   (profile.ts:17-21). *)
THEOREM ProfilesAreExclusive == SessionSpec => []ProfilesExclusive
BY SessionInvariant, InvProfilesExclusive, PTL

(* Nothing of a session outlives it (session.ts:383-416). *)
THEOREM NothingIsLeft == SessionSpec => []NothingOutlives
BY SessionInvariant, InvNothingOutlives, PTL

(* A slot that is taken is held (manager.ts:181-196). *)
THEOREM SlotsAreHeld == SessionSpec => []NoSlotLost
BY SessionInvariant, PTL

(* A lock is held by a session in the map (profile.ts:54-60). *)
THEOREM LocksAreAlive == SessionSpec => []LocksAlive
BY SessionInvariant, PTL
=============================================================================
