----------------------------- MODULE KeyEngine -----------------------------
(***************************************************************************)
(* What the engine of the USB key library (libskf.h: LibSkf and the        *)
(* functions handed to OpenSSL) promises the thread that calls it: the     *)
(* engine is ready from the moment initEngine returns SAR_OK to the next   *)
(* call that replaces or closes it, and only a ready engine signs,         *)
(* verifies or exports.                                                    *)
(***************************************************************************)

VARIABLES
  ready,  \* what isEngineInit returns
  call,   \* the call under way, or "none"
  result  \* what the last call returned: "ok" or "fail", or "none" yet

vars == <<ready, call, result>>

Calls == {"initApi", "initEngine", "uninitEngine"}

Init == ready = FALSE /\ call = "none" /\ result = "ok"

Begin == call = "none" /\ call' \in Calls /\ result' = "none" /\ UNCHANGED ready

(* Every call that has begun first gives up the key it finds.              *)
Drop == call # "none" /\ ready /\ ready' = FALSE /\ UNCHANGED <<call, result>>

(* Only initEngine makes the engine ready, and in the step it returns.     *)
Return ==
  /\ call # "none" /\ ~ready
  /\ call' = "none"
  /\ result' \in {"ok", "fail"}
  /\ ready' = (call = "initEngine" /\ result' = "ok")
  /\ call = "uninitEngine" => result' = "ok"

(* A call with a null argument changes nothing.                            *)
Refuse == call = "none" /\ result' = "fail" /\ UNCHANGED <<ready, call>>

(* Without an engine no operation succeeds; none changes the engine.       *)
Use ==
  /\ call = "none"
  /\ result' \in {"ok", "fail"}
  /\ result' = "ok" => ready
  /\ UNCHANGED <<ready, call>>

Next == Begin \/ Drop \/ Return \/ Refuse \/ Use

Spec == Init /\ [][Next]_vars
============================================================================
