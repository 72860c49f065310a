-------------------------------- MODULE MCHub --------------------------------
(* A dashboard, the balance tracker and one engine.                        *)
EXTENDS Hub

CONSTANTS tab, engine

MCClient == {tab}
MCSender == {Tracker, engine}
==============================================================================
