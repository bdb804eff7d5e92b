--------------------------- MODULE MCSensorsHalProxy ---------------------------
(* Small instances of SensorsHalProxy: single events without wake-up and pairs *)
(* of wake-up events, which are longer than the FMQ.                           *)
EXTENDS SensorsHalProxy

CONSTANT s1

MCBatchShapes == {<<FALSE>>, <<TRUE, TRUE>>}
=============================================================================
