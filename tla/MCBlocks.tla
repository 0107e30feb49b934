------------------------------ MODULE MCBlocks ------------------------------
EXTENDS Blocks

MCAnswers == [status : Statuses, etag : Etags]

(* One request of every instance may be cut off and served late.           *)
MCMaxCut == [c \in Callers |-> 1]
=============================================================================
