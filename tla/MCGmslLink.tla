----------------------------- MODULE MCGmslLink -----------------------------
(***************************************************************************)
(* Instance of GmslLink for TLC: two cameras, an ov5640 on link 0 and      *)
(* on link 1 another, which shares its lock and its addresses, or one of   *)
(* the two families of other drivers (gmax3412 is to GmslLink as og05b2b). *)
(***************************************************************************)
EXTENDS GmslLink

MCSensors == {0, 1}
Second    == {"ov5640", "og02c1b", "og05b2b"}
MCMixes   == {[s \in MCSensors |-> IF s = 0 THEN "ov5640" ELSE k] : k \in Second}
=============================================================================
