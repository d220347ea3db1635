--------------------------- MODULE MCPendingFile ---------------------------
(* Messages around the borders: a text that fills its blocks but for the   *)
(* NUL, one that needs a block for the NUL alone, the longest one that     *)
(* c_data holds with its NUL, and the shortest one that it does not.       *)
EXTENDS PendingFile

Message(type, n) == [type |-> type, payload |-> [k \in 1..n |-> 33 + (k % 90)]]
MCBatches == { {Message(1, 13), Message(7, 14)}, {Message(2, 509)}, {Message(3, 510)} }
MCBuilds == [encrypt : BOOLEAN, signedChar : BOOLEAN]
=============================================================================
