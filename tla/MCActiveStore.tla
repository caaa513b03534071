----------------------------- MODULE MCActiveStore -----------------------------
(***************************************************************************)
(* ActiveStore with the default row and three rows that two requests make.  *)
(***************************************************************************)
EXTENDS ActiveStore, TLC

CONSTANTS builtin, t1, t2, ip1, ip2, w1, w2

================================================================================
