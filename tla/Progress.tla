------------------------------ MODULE Progress ------------------------------
(***************************************************************************)
(* The progress line of internal/runner/progress.go.  A phase of the       *)
(* runner (the warmup, then the timed phase) bumps an atomic counter; one  *)
(* ticker goroutine redraws "[done/total]" from it, and Stop closes the    *)
(* stop channel, joins the goroutine and draws the closing line.           *)
(*                                                                         *)
(* The module gives the component's state and its steps.  Runner extends   *)
(* it and fires Start and Stop from the runner's own program counter.      *)
(***************************************************************************)
EXTENDS Naturals

VARIABLES
  done,    \* the atomic counter the phase increments
  stop,    \* whether the stop channel is closed
  rpc,     \* the ticker goroutine: "off" (not running), "select", "render"
  loaded,  \* the value its last p.done.Load() returned
  screen   \* the line on the terminal: its count, and whether it is the closing line

progressVars == <<done, stop, rpc, loaded, screen>>

ProgressTypeOK ==
  /\ done \in Nat
  /\ stop \in BOOLEAN
  /\ rpc \in {"off", "select", "render"}
  /\ loaded \in Nat
  /\ screen \in [n: Nat, final: BOOLEAN]

ProgressInit ==
  /\ done = 0
  /\ stop = FALSE
  /\ rpc = "off"
  /\ loaded = 0
  /\ screen = [n |-> 0, final |-> TRUE]   \* nothing of this program's to overwrite

(***************************************************************************)
(* startProgress: a fresh counter and stop channel, the line drawn at 0,   *)
(* the goroutine started.                                                  *)
(***************************************************************************)
StartProgressShared ==   \* mutant: one counter for both phases
  /\ done' = done
  /\ stop' = FALSE
  /\ rpc' = "select"
  /\ loaded' = 0
  /\ screen' = [n |-> 0, final |-> FALSE]

StartProgress ==
  /\ done' = 0
  /\ stop' = FALSE
  /\ rpc' = "select"
  /\ loaded' = 0
  /\ screen' = [n |-> 0, final |-> FALSE]

(* done.Add(1) *)
AddDone ==
  /\ done' = done + 1
  /\ UNCHANGED <<stop, rpc, loaded, screen>>

(***************************************************************************)
(* The goroutine.  Its select may take the tick although stop is closed    *)
(* too: Go picks at random among the ready cases.  Loading the counter and *)
(* writing the line are two steps.                                         *)
(***************************************************************************)
Tick ==
  /\ rpc = "select"
  /\ rpc' = "render"
  /\ loaded' = done
  /\ UNCHANGED <<done, stop, screen>>

Render ==
  /\ rpc = "render"
  /\ rpc' = "select"
  /\ screen' = [n |-> loaded, final |-> FALSE]
  /\ UNCHANGED <<done, stop, loaded>>

Quit ==
  /\ rpc = "select" /\ stop
  /\ rpc' = "off"
  /\ UNCHANGED <<done, stop, loaded, screen>>

RenderLoop == Tick \/ Render \/ Quit

(***************************************************************************)
(* Stop: close(p.stop), then p.wg.Wait() and the closing line.             *)
(***************************************************************************)
CloseStop ==
  /\ stop' = TRUE
  /\ UNCHANGED <<done, rpc, loaded, screen>>

FinishStopNoWait ==   \* mutant: the join left out
  /\ screen' = [n |-> done, final |-> TRUE]
  /\ UNCHANGED <<done, stop, rpc, loaded>>

FinishStop ==
  /\ rpc = "off"
  /\ screen' = [n |-> done, final |-> TRUE]
  /\ UNCHANGED <<done, stop, rpc, loaded>>

=============================================================================
