----------------------------- MODULE MCTabWarmup -----------------------------
(* One tab, one switch, and a navigation that comes to nothing.              *)
EXTENDS TabWarmup
=============================================================================
