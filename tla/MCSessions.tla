------------------------------ MODULE MCSessions ------------------------------
(***************************************************************************)
(* Three sessions of two users: two want the same profile, one wants none. *)
(***************************************************************************)
EXTENDS SessionManager

CONSTANTS recording, running, adhoc, ann, bob, shop

OwnerOf == [s \in Sessions |-> IF s = adhoc THEN bob ELSE ann]
Wanted == [s \in Sessions |-> IF s = adhoc THEN None ELSE shop]

-----------------------------------------------------------------------------
(* What the comments of the session code promise and the code does not keep: *)
(* each can be put into sessions.cfg, and ends in a history against it.      *)

Live(s) == stage[s] \in Starting \cup {"ready"} /\ closing[s] = "no"

(* "guarantees that no two live sessions ever share any of them"
   (allocator.ts:1-4): of the displays and ports.  When a session that is being
   closed fails to start, its slot is released twice, the second time by
   close(), and by then it may be somebody else's. *)
SlotsNeverShared ==
  \A s, q \in Sessions :
    Live(s) /\ Live(q) /\ slot[s] = slot[q] => s = q

(* WORKER_MAX_SESSIONS "bounds concurrency" (README.md:349).  A session that
   borrows a profile is counted only after the copy, so more than that many can
   be let in while it waits. *)
LimitKept == Cardinality({s \in Sessions : Live(s)}) <= MaxSessions

(* close() kills what start() has spawned.  A session closed while it starts
   spawns the rest afterwards, and nobody closes it again. *)
NothingLeftBehind ==
  \A s \in Sessions :
    closing[s] = "done" /\ stage[s] \in {"ready", "failed"} => ~Occupies(s)
===============================================================================
