-------------------------------- MODULE MCMCP --------------------------------
(* One collection that is sent in full and one that is sent as deltas,     *)
(* whose generations add, change and remove resources.                     *)
EXTENDS MCP, TLC

MCCollections == {"full", "delta"}
MCInc == {"delta"}
MCContents ==
    [c \in MCCollections |->
        IF c = "full" THEN << "a" :> 1 >>
        ELSE << "a" :> 1 @@ "b" :> 1, "b" :> 2 @@ "c" :> 2 >>]
=============================================================================
