------------------------------ MODULE MCSessions ------------------------------
(***************************************************************************)
(* TLC instance of Sessions: one name, two requests served before and      *)
(* three served concurrently.                                              *)
(***************************************************************************)
EXTENDS Sessions

=============================================================================
