----------------------------- MODULE RecorderPage -----------------------------
(***************************************************************************)
(* The script in the page (apps/worker/src/recorder/browser-script.ts):    *)
(* its listeners, emit(), apply() and bootstrap().                         *)
(***************************************************************************)
EXTENDS RecorderState

(* emit(): a document that is not recording tells nobody. *)
Emit(p, kind, isFinal) ==
  fromPage' = IF doc[p].recording
              THEN [fromPage EXCEPT ![p] = Append(@, [kind |-> kind, isFinal |-> isFinal])]
              ELSE fromPage

(* The click listener.  Armed, it swallows the click, disarms the document  *)
(* and reports a read or the closing action; a read comes first.            *)
Click(p) ==
  /\ IsOpen(p)
  /\ Len(fromPage[p]) < MaxWire
  /\ \/ /\ doc[p].armedRead
        /\ doc' = [doc EXCEPT ![p].armedRead = FALSE]
        /\ Emit(p, "read", FALSE)
     \/ /\ ~doc[p].armedRead
        /\ doc[p].armedFinal
        /\ doc' = [doc EXCEPT ![p].armedFinal = FALSE]
        /\ Emit(p, "click", TRUE)
     \/ /\ ~doc[p].armedRead
        /\ ~doc[p].armedFinal
        /\ doc[p].recording
        /\ doc' = doc
        /\ Emit(p, "click", FALSE)
  /\ UNCHANGED <<sessionSide, wires, asked, fresh, requests, visits>>

(* The change, input, keydown and submit listeners, and a click on a choice *)
(* control, which only the change listener reports.  None of them looks at  *)
(* the arms: only the pointer is swallowed.                                 *)
Input(p) ==
  /\ IsOpen(p)
  /\ doc[p].recording
  /\ Len(fromPage[p]) < MaxWire
  /\ Emit(p, "other", FALSE)
  /\ UNCHANGED <<sessionSide, wires, doc, asked, fresh, requests, visits>>

(* bootstrap(): when the document is ready it asks for the configuration. *)
Bootstrap(p) ==
  /\ IsOpen(p)
  /\ ~asked[p]
  /\ asked' = [asked EXCEPT ![p] = TRUE]
  /\ fromPage' = [fromPage EXCEPT ![p] = Append(@, [kind |-> "config"])]
  /\ UNCHANGED <<sessionSide, wires, doc, fresh, requests, visits>>

(* apply(): the configuration replaces the document's own, arms included. *)
Apply(p, config) == doc' = [doc EXCEPT ![p] = config]

PageNext == \E p \in Pages : Click(p) \/ Input(p) \/ Bootstrap(p)
=============================================================================
