------------------------------ MODULE MCRunner ------------------------------
(***************************************************************************)
(* Instances of Runner for TLC.                                            *)
(***************************************************************************)
EXTENDS Runner, TLC

CONSTANTS e1, e2, e3, timeout, http

MCErrors == {e1, e2, e3}
MCClassOf == e1 :> timeout @@ e2 :> timeout @@ e3 :> http

Config(n, warm, w, conc) ==
  [requests |-> n, warmup |-> warm, workers |-> w, concurrent |-> conc]

MCConfigs ==
  { Config(3, 0, 2, TRUE),     \* more requests than workers
    Config(3, 0, 3, TRUE),     \* more first errors than samples shown
    Config(2, 2, 0, TRUE),     \* workers unset: one per request; warmup may abort
    Config(2, 0, 5, TRUE),     \* more workers than requests
    Config(1, 0, 4, TRUE),     \* one request: the channel-free path
    Config(3, 3, 4, FALSE),    \* Run
    Config(0, 20, 4, TRUE),    \* the warmup ratio, at its boundary; nothing to time
    Config(-1, 0, 4, TRUE),    \* a negative -n
    Config(-2, 1, 4, FALSE) }  \* a negative capacity

(* -warmup 1 *)
OneWarmup == { Config(2, 1, 1, FALSE) }

=============================================================================
