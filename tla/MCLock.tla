-------------------------------- MODULE MCLock --------------------------------
EXTENDS Lock

(* One request of an instance of wasi-grpc-outbound may be cut off; a      *)
(* request that is sent again is not served late.                          *)
MCMaxCut == [c \in Callers |-> IF c \in Http THEN 0 ELSE 1]

(* Or it is.                                                               *)
MCMaxCutLate == [c \in Callers |-> 1]
=============================================================================
