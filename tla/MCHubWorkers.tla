--------------------------- MODULE MCHubWorkers ----------------------------
(* Instances of HubWorkers for TLC.                                        *)
EXTENDS HubWorkers

CONSTANTS w1, w2, w3

MCWorker == {w1, w2, w3}
=============================================================================
