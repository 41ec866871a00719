----------------------------- MODULE SessionState -----------------------------
(***************************************************************************)
(* The browser sessions of one worker: what SessionManager keeps in memory *)
(* (apps/worker/src/session/manager.ts, allocator.ts, limits.ts and the    *)
(* locks of profile.ts) and what each BrowserSession has running           *)
(* (session.ts).                                                           *)
(*                                                                         *)
(* The three processes of a session are two here: "Xvfb", and "vnc" for    *)
(* x11vnc and websockify, which are started and killed together.           *)
(***************************************************************************)
EXTENDS Naturals, FiniteSets

CONSTANTS
  Sessions,     \* the sessions ever asked for; an id is used once
  Slots,        \* the display numbers of the worker
  Profiles,     \* the kept browser profiles, one per user and workflow
  Owner,        \* the user each session belongs to
  Wants,        \* the profile each session asks for, or None
  MaxSessions,  \* WORKER_MAX_SESSIONS
  MaxPerUser,   \* WORKER_MAX_SESSIONS_PER_USER, 0 when there is no such cap
  MaxInterruptions, \* bound: sessions closed while they are starting
  None

ASSUME SessionAssumption ==
  /\ Slots \subseteq Nat
  /\ DOMAIN Owner = Sessions
  /\ Wants \in [Sessions -> Profiles \cup {None}]
  /\ None \notin Sessions \cup Slots \cup Profiles
  /\ MaxSessions \in Nat
  /\ MaxPerUser \in Nat
  /\ MaxInterruptions \in Nat

VARIABLES
  \* the manager
  listed,  \* its map of sessions
  taken,   \* the slots the allocator has handed out
  lock,    \* who holds each profile
  \* each session
  slot,    \* the slot create() allocated for it
  keeps,   \* does it hold the profile it asked for? (ownsProfile)
  stage,   \* how far create() and start() have got
  procs,   \* its processes, from their spawn to their kill
  browser, \* does it have a browser context?
  closing, \* where close() is
  doomed,  \* the processes close() has made up its mind to kill
  \* history
  interrupted \* sessions somebody closed while they were starting

managerVars == <<listed, taken, lock>>
startVars   == <<slot, keeps, stage>>
closeVars   == <<closing, doomed>>
sessionVars == <<listed, taken, lock, slot, keeps, stage, procs, browser,
                 closing, doomed, interrupted>>

(* The stages start() awaits. *)
Starting == {"display", "launching", "navigating"}

Stages == {"new", "borrowing", "ready", "failed"} \cup Starting

ClosingPcs == {"no", "context", "kill", "directory", "done"}

SessionTypeOK ==
  /\ listed \subseteq Sessions
  /\ taken \subseteq Slots
  /\ lock \in [Profiles -> Sessions \cup {None}]
  /\ slot \in [Sessions -> Slots \cup {None}]
  /\ keeps \in [Sessions -> BOOLEAN]
  /\ stage \in [Sessions -> Stages]
  /\ procs \in [Sessions -> SUBSET {"Xvfb", "vnc"}]
  /\ browser \in [Sessions -> BOOLEAN]
  /\ closing \in [Sessions -> ClosingPcs]
  /\ doomed \in [Sessions -> SUBSET {"Xvfb", "vnc"}]
  /\ interrupted \subseteq Sessions

Unlocking(s) == [p \in Profiles |-> IF lock[p] = s THEN None ELSE lock[p]]

(* A release that forgets the slot, and one that forgets the lock. *)
GiveBackKeepsSlot(s) ==
  /\ listed' = listed \ {s}
  /\ taken' = taken
  /\ lock' = Unlocking(s)

GiveBackKeepsLock(s) ==
  /\ listed' = listed \ {s}
  /\ taken' = taken \ {slot[s]}
  /\ lock' = lock

(* onClosed, and again the catch of create(): the session leaves the map and
   its slot and its lock are given back.  Nothing asks whose they are by now,
   except the lock. *)
GiveBack(s) ==
  /\ listed' = listed \ {s}
  /\ taken' = taken \ {slot[s]}
  /\ lock' = Unlocking(s)
=============================================================================
