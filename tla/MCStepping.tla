------------------------------ MODULE MCStepping ------------------------------
(***************************************************************************)
(* Workflows with a box to tick, a popup without an address, and a tab     *)
(* that has one.                                                           *)
(***************************************************************************)
EXTENDS Stepping

CONSTANT shop

On(type, page, origin, desired) ==
  [type |-> type, page |-> page, origin |-> origin, desired |-> desired]

Ticks == <<On("pointer", 0, NoOrigin, TRUE)>>

Popup == <<On("goto", 0, NoOrigin, Stateless),
           On("switch", 1, NoOrigin, Stateless),
           On("pointer", 1, NoOrigin, Stateless),
           On("key", 1, NoOrigin, Stateless)>>

TwoTabs == <<On("element", 1, shop, Stateless), On("pointer", 2, NoOrigin, FALSE)>>

MCWorkflows == {Ticks, Popup, TwoTabs}
=============================================================================
