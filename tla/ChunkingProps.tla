---------------------------- MODULE ChunkingProps ----------------------------
(***************************************************************************)
(* What Chunking is held to.                                               *)
(***************************************************************************)
EXTENDS Chunking, FiniteSets

BlockNumbers == DOMAIN item.blocks
Texts == Seq(BlockNumbers)
Headings == BlockNumbers \cup {None}
Chunks == [text : Texts, section : Headings,
           opens : {"unknown", "own", "title", "title and section"}]

\* Every variable stays in its domain.
TypeOK == /\ IsItem(item)
          /\ pc \in {"start", "split", "sections", "pack", "carry", "label", "done"}
          /\ at \in 1 .. Len(item.blocks) + 1
          /\ heading \in Headings /\ section \in Headings
          /\ buffer \in Texts /\ todo \in Texts /\ current \in Texts /\ carried \in Texts
          /\ sections \in Seq([heading : Headings, body : Texts])
          /\ tokens \in Nat /\ total \in Nat
          /\ chunks \in Seq(Chunks)
          /\ pc = "carry" => todo # << >>
          /\ pc \notin {"pack", "carry"} => todo = << >> /\ current = << >> /\ tokens = 0

Elements(s) == {s[n] : n \in DOMAIN s}

\* h heads the place before block i: it is the nearest heading above, of level
\* 2 or 3; or it is None and the nearest heading above, if any, is an h1.
Heads(h, i) ==
    IF h = None
      THEN \A g \in 1 .. i - 1 : Block(g).depth \in {2, 3} =>
              \E f \in g + 1 .. i - 1 : Block(f).depth = 1
      ELSE /\ h < i /\ Block(h).depth \in {2, 3}
           /\ \A g \in h + 1 .. i - 1 : Block(g).depth = 0

\* Block i is in a chunk that is labelled with its own heading.
Kept(i) == \E n \in DOMAIN chunks : /\ i \in Elements(chunks[n].text)
                                    /\ Heads(chunks[n].section, i)

\* No text is lost: each paragraph of a document ends up in a chunk under its
\* own heading, whatever the headings around it, the size of the paragraphs
\* and the carry-over do; an FAQ keeps every paragraph of its answer; and a
\* document that has nothing but headings is still indexed.
NothingLost ==
    pc = "done" =>
        /\ item.type = "doc" => \A i \in BlockNumbers : Block(i).depth = 0 => Kept(i)
        /\ item.type = "faq" => \A i \in BlockNumbers :
               \E n \in DOMAIN chunks : i \in Elements(chunks[n].text)
        /\ item.blocks # << >> => chunks # << >>

\* No text strays: a paragraph is only ever found under its own heading.
UnderOwnHeading ==
    item.type = "doc" =>
        \A n \in DOMAIN chunks : \A i \in Elements(chunks[n].text) :
            Block(i).depth = 0 => Heads(chunks[n].section, i)

\* The sum of the tokens of the blocks of a text.
SumOfTokens(text) ==
    LET upTo[n \in 0 .. Len(text)] ==
            IF n = 0 THEN 0 ELSE upTo[n - 1] + TokensOf(text[n])
    IN  upTo[Len(text)]

\* The blocks of chunk n that the chunk before it has too, and as many blocks
\* from the start of chunk n.
Shared(n) == IF n = 1 THEN {}
             ELSE Elements(chunks[n].text) \cap Elements(chunks[n - 1].text)
Repeated(n) == SubSeq(chunks[n].text, 1, Cardinality(Shared(n)))

\* Chunks follow the text: each is a run of neighbouring blocks that starts
\* with what it repeats of the chunk before, at most the overlap, and goes on
\* to blocks no chunk before it has.
InOrder ==
    \A n \in DOMAIN chunks :
        LET text == chunks[n].text IN
        /\ \A m \in 1 .. Len(text) - 1 : text[m + 1] = text[m] + 1
        /\ Elements(Repeated(n)) = Shared(n)
        /\ SumOfTokens(Repeated(n)) <= Overlap
        /\ n > 1 /\ text # << >> => LastOf(text) > LastOf(chunks[n - 1].text)

\* The first block of chunk n that the chunk before it has not.
FirstNew(n) == chunks[n].text[Len(Repeated(n)) + 1]

\* A piece exceeds the budget only if all it has besides the carry-over is one
\* paragraph, and it is closed only when the paragraph that follows would not
\* fit: the pieces are neither larger nor more than they need be.
WithinBudget ==
    pc \in {"sections", "pack", "carry"} =>
        /\ \A n \in DOMAIN chunks :
              \/ SumOfTokens(chunks[n].text) <= Budget
              \/ Len(chunks[n].text) = Len(Repeated(n)) + 1
        /\ \A n \in 2 .. Len(chunks) :
              LET before == chunks[n - 1].text IN
              FirstNew(n) = LastOf(before) + 1
                => SumOfTokens(before) + TokensOf(FirstNew(n)) > Budget

-----------------------------------------------------------------------------
(* What the repository says of the program, and the program does not do.   *)

\* "Group paragraphs into pieces of at most `max_tokens`, with an optional
\* overlap.  A single paragraph longer than the budget is kept whole"
\* (app/retrieval/chunk.py:65-68), of the pieces of a document.
PiecesFit ==
    item.type = "doc" /\ pc = "pack" =>
        \A n \in DOMAIN chunks :
            \/ SumOfTokens(chunks[n].text) <= DOC_MAX_TOKENS
            \/ \E i \in Elements(chunks[n].text) : TokensOf(i) > DOC_MAX_TOKENS
=============================================================================
