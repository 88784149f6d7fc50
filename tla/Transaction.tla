---------------------------- MODULE Transaction -----------------------------
(***************************************************************************)
(* What RunTransaction promises its caller, whatever the network does: the *)
(* statement takes effect at most once; a nil returned on a response that  *)
(* could be read means that it has; and an error means neither that it has *)
(* nor that it will not.                                                   *)
(***************************************************************************)
EXTENDS Naturals

CONSTANT Calls   \* the calls of RunTransaction

VARIABLES
  outcome,   \* per call: "running", "ok", "unverified" or "failed"
  applied    \* per call: how often its statement took effect

transactionVars == <<outcome, applied>>

TransactionInit ==
  /\ outcome = [c \in Calls |-> "running"]
  /\ applied = [c \in Calls |-> 0]

(* A commit may still arrive after the caller gave up on it. *)
Apply(c) ==
  /\ outcome[c] \in {"running", "failed"}
  /\ applied[c] = 0
  /\ applied' = [applied EXCEPT ![c] = 1]
  /\ UNCHANGED outcome

Finish(c, o) ==
  /\ outcome[c] = "running"
  /\ o = "ok" => applied[c] = 1
  /\ outcome' = [outcome EXCEPT ![c] = o]
  /\ UNCHANGED applied

TransactionNext ==
  \E c \in Calls : Apply(c) \/ \E o \in {"ok", "unverified", "failed"} : Finish(c, o)

TransactionSpec == TransactionInit /\ [][TransactionNext]_transactionVars

=============================================================================
