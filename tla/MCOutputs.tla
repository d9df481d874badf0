------------------------------ MODULE MCOutputs ------------------------------
(* Two outputs, the first of them the metrics, the second required.          *)
EXTENDS OutputUpload
=============================================================================
