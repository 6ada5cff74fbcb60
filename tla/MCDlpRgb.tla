------------------------------ MODULE MCDlpRgb ------------------------------
(***************************************************************************)
(* Instance of DlpRgb for TLC: bytes of five values so that the counters  *)
(* wrap and the overrun guard of the handler is reached, two lamps.        *)
(***************************************************************************)
EXTENDS DlpRgb

MCSyncDlp == {1}
MCSyncRgb == {0, 4}
=============================================================================
