--------------------------- MODULE MCFileMonitor ---------------------------
(* Values for the constants of FileMonitor: callbacks are model values.    *)
EXTENDS FileMonitor

CONSTANTS cb1

OneCallback == {cb1}
=============================================================================
