---------------------------- MODULE MCBlockPipeline ----------------------------
(***************************************************************************)
(* c merges a and b, both children of the root, and a is sent twice.  In   *)
(* the first world all blocks are valid, a is first sent with a body that  *)
(* misses its merkle root and b is a trusted block.  In the others a's     *)
(* header is sent ahead of the block and b or c fail validation.           *)
(***************************************************************************)
EXTENDS BlockPipeline

MCBlocks == {"r", "a", "b", "c"}
MCParents == [r |-> {}, a |-> {"r"}, b |-> {"r"}, c |-> {"a", "b"}]
MCTasks == {"a1", "a2", "b1", "c1"}
MCBlock == [a1 |-> "a", a2 |-> "a", b1 |-> "b", c1 |-> "c"]

AllValid ==
    [kind |-> [a1 |-> "ordinary", a2 |-> "ordinary", b1 |-> "trusted", c1 |-> "ordinary"],
     verdict |-> [b \in MCBlocks |-> "valid"],
     wrong |-> {"a1"}]

Invalid(v, w) ==
    [kind |-> [a1 |-> "header_only", a2 |-> "ordinary", b1 |-> "ordinary", c1 |-> "ordinary"],
     verdict |-> [r |-> "valid", a |-> "valid", b |-> v, c |-> w],
     wrong |-> {}]

MCWorlds == {AllValid, Invalid("bad_body", "bad_header"), Invalid("bad_pow", "valid")}
================================================================================
