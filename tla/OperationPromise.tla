-------------------------- MODULE OperationPromise --------------------------
(***************************************************************************)
(* What the broker promises a client about one reviewed change, without the *)
(* table that keeps the promise: a change is reviewed, started, stored and  *)
(* then done or failed; it can be withdrawn, but not once it is stored, and *)
(* it is done only after it was stored.  One sweep may move any number of   *)
(* changes at once.                                                         *)
(***************************************************************************)
CONSTANT Ops

VARIABLE promise

Stages == {"unknown", "reviewed", "started", "stopping", "stored", "done", "failed", "withdrawn"}

Following(stage) ==
    CASE stage = "unknown"  -> {"reviewed"}
      [] stage = "reviewed" -> {"started", "withdrawn"}
      [] stage = "started"  -> {"stored", "failed", "stopping"}
      [] stage = "stopping" -> {"withdrawn"}
      [] stage = "stored"   -> {"done", "failed"}
      [] OTHER              -> {"unknown"}

PromiseInit == promise = [o \in Ops |-> "unknown"]

PromiseNext ==
    /\ promise' \in [Ops -> Stages]
    /\ \A o \in Ops : promise'[o] = promise[o] \/ promise'[o] \in Following(promise[o])

PromiseSpec == PromiseInit /\ [][PromiseNext]_promise
=============================================================================
