---------------------------- MODULE MC_Chunking ----------------------------
(***************************************************************************)
(* All items of up to MaxBlocks blocks: headings of each level, one of     *)
(* them the title again, and paragraphs of 1, 2 and 5 tokens, one of them  *)
(* with the title in it, against budgets of a few tokens.                  *)
(***************************************************************************)
EXTENDS ChunkingProps

CONSTANT MaxBlocks

H(depth, title) == [depth |-> depth, len |-> 5, title |-> title]
P(len, title) == [depth |-> 0, len |-> len, title |-> title]

BlockChoices == {H(1, "same"), H(2, "absent"), H(3, "same"),
                 P(2, "absent"), P(5, "within"), P(13, "absent")}

SmallItems ==
    UNION {[type : {"faq", "doc"}, title : {0, 4}, blocks : [1 .. n -> BlockChoices]]
              : n \in 0 .. MaxBlocks}
=============================================================================
