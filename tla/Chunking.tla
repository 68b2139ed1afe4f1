------------------------------ MODULE Chunking ------------------------------
(***************************************************************************)
(* app/retrieval/chunk.py: chunk_document, one loop iteration per action.  *)
(*                                                                         *)
(* The body is taken as clean returns it and seen as a sequence of blocks, *)
(* which are headings and paragraphs; a text is the sequence of the        *)
(* numbers of its blocks.  Of a block count its length in characters and   *)
(* whether the document's title occurs in its first line.                  *)
(***************************************************************************)
EXTENDS Integers, Sequences

CONSTANTS
    Items,              \* the knowledge base items
    FAQ_MAX_TOKENS,
    DOC_MAX_TOKENS,
    DOC_OVERLAP_TOKENS

\* depth 0: a paragraph, headings of depth 4 and more among them.  title: it
\* does not occur in the first line, occurs in it, or is the heading's text.
Blocks == [depth : 0 .. 3, len : Nat \ {0}, title : {"absent", "within", "same"}]

\* An item, with the length of its title.
IsItem(it) == /\ it.type \in {"faq", "doc"}
              /\ it.title \in Nat
              /\ it.blocks \in Seq(Blocks)

ASSUME ItemsAssumption == \A it \in Items : IsItem(it)
ASSUME BudgetsAssumption == /\ FAQ_MAX_TOKENS \in Nat /\ DOC_MAX_TOKENS \in Nat
                            /\ DOC_OVERLAP_TOKENS \in Nat

VARIABLES
    item,       \* the item being chunked
    pc,         \* the loop that runs
    at,         \* split_sections: the block it looks at
    heading,    \* split_sections: the heading of the open section; 0: none
    buffer,     \* split_sections: the blocks of the open section
    sections,   \* the sections not yet packed
    section,    \* the heading of the section being packed; 0: none
    todo,       \* _pack: the paragraphs still to come
    current,    \* _pack: the piece being filled; _carry_over: what is left of it
    tokens,     \* _pack: current_tokens
    carried,    \* _carry_over: carried
    total,      \* _carry_over: total
    chunks      \* the chunks made so far

split == <<at, heading, buffer>>
pack == <<todo, current, tokens>>
carry == <<carried, total>>
vars == <<item, pc, split, sections, section, pack, carry, chunks>>

-----------------------------------------------------------------------------
(* Lengths and tokens                                                      *)

None == 0
Block(i) == item.blocks[i]
AllBlocks == [i \in DOMAIN item.blocks |-> i]

\* count_tokens: max(1, round(len / 2.5)) of a text of n characters; the
\* quotient is never halfway between two integers.
CountTokens(n) == IF n = 0 THEN 0
                  ELSE LET rounded == (4 * n + 5) \div 10
                       IN  IF rounded < 1 THEN 1 ELSE rounded

TokensOf(i) == CountTokens(Block(i).len)

\* The length of the blocks of `text` joined by blank lines.
TextLength(text) ==
    LET upTo[n \in 0 .. Len(text)] ==
            IF n = 0 THEN 0
            ELSE upTo[n - 1] + Block(text[n]).len + IF n = 1 THEN 0 ELSE 2
    IN  upTo[Len(text)]

\* "question: <title>" and, a line below, "answer: <text>"
HeadLength == 6 + item.title
WholeLength == HeadLength + 1 + 6 + TextLength(AllBlocks)

\* What _pack is called with.
Budget ==
    IF item.type = "doc" THEN DOC_MAX_TOKENS
    ELSE LET left == FAQ_MAX_TOKENS - (CountTokens(HeadLength) + 2)
         IN  IF left < 1 THEN 1 ELSE left

Overlap == IF item.type = "doc" THEN DOC_OVERLAP_TOKENS ELSE 0

-----------------------------------------------------------------------------
(* chunk_document, chunk_faq                                               *)

\* A chunk; `opens` is what its text starts with: not yet known, its own
\* first line, which has the title in it, or a prefix of title and section.
Chunk(text, h) == [text |-> text, section |-> h, opens |-> "unknown"]

Init == /\ item \in Items
        /\ pc = "start"
        /\ at = 1 /\ heading = None /\ buffer = << >>
        /\ sections = << >> /\ section = None
        /\ todo = << >> /\ current = << >> /\ tokens = 0
        /\ carried = << >> /\ total = 0
        /\ chunks = << >>

StartDoc == /\ pc = "start" /\ item.type = "doc"
            /\ pc' = "split"
            /\ UNCHANGED <<item, split, sections, section, pack, carry, chunks>>

\* A question and answer that fit are one chunk.
StartShortFaq == /\ pc = "start" /\ item.type = "faq"
                 /\ CountTokens(WholeLength) <= FAQ_MAX_TOKENS
                 /\ chunks' = <<Chunk(AllBlocks, None)>>
                 /\ pc' = "label"
                 /\ UNCHANGED <<item, split, sections, section, pack, carry>>

\* Otherwise the answer's paragraphs are packed.
StartLongFaq == /\ pc = "start" /\ item.type = "faq"
                /\ CountTokens(WholeLength) > FAQ_MAX_TOKENS
                /\ todo' = AllBlocks
                /\ pc' = "pack"
                /\ UNCHANGED <<item, split, sections, section, current, tokens, carry, chunks>>

-----------------------------------------------------------------------------
(* split_sections                                                          *)

\* flush: the open section is kept if there is anything to it.
Flush == sections' = IF buffer = << >> /\ heading = None THEN sections
                     ELSE Append(sections, [heading |-> heading, body |-> buffer])

AtBlock(depths) == pc = "split" /\ at <= Len(item.blocks) /\ Block(at).depth \in depths

SplitParagraph == /\ AtBlock({0})
                  /\ buffer' = Append(buffer, at)
                  /\ at' = at + 1
                  /\ UNCHANGED <<item, pc, heading, sections, section, pack, carry, chunks>>

\* A slip: the text below a title stays in the section above it.
SplitTitle_KeepsHeading ==
    /\ AtBlock({1})
    /\ Flush
    /\ buffer' = << >>
    /\ at' = at + 1
    /\ UNCHANGED <<item, pc, heading, section, pack, carry, chunks>>

\* An h1 is dropped, and the section ends.
SplitTitle == /\ AtBlock({1})
              /\ Flush
              /\ buffer' = << >> /\ heading' = None
              /\ at' = at + 1
              /\ UNCHANGED <<item, pc, section, pack, carry, chunks>>

\* An h2 or h3 ends a section and opens the next.
SplitHeading == /\ AtBlock({2, 3})
                /\ Flush
                /\ buffer' = << >> /\ heading' = at
                /\ at' = at + 1
                /\ UNCHANGED <<item, pc, section, pack, carry, chunks>>

SplitEnd == /\ pc = "split" /\ at > Len(item.blocks)
            /\ Flush
            /\ buffer' = << >> /\ heading' = None
            /\ pc' = "sections"
            /\ UNCHANGED <<item, at, section, pack, carry, chunks>>

-----------------------------------------------------------------------------
(* _pack and _carry_over                                                   *)

\* current and current_tokens + tokens > max_tokens
Overflows == current # << >> /\ tokens + TokensOf(Head(todo)) > Budget

PackAppend == /\ pc = "pack" /\ todo # << >> /\ ~Overflows
              /\ current' = Append(current, Head(todo))
              /\ tokens' = tokens + TokensOf(Head(todo))
              /\ todo' = Tail(todo)
              /\ UNCHANGED <<item, pc, split, sections, section, carry, chunks>>

\* The piece is full; the carry-over of it begins.
PackClose == /\ pc = "pack" /\ todo # << >> /\ Overflows
             /\ chunks' = Append(chunks, Chunk(current, section))
             /\ carried' = << >> /\ total' = 0
             /\ pc' = "carry"
             /\ UNCHANGED <<item, split, sections, section, pack>>

LastOf(s) == s[Len(s)]
ButLast(s) == SubSeq(s, 1, Len(s) - 1)

\* A slip: the paragraph that breaks the limit is carried too.
Carries_OneMore == current # << >> /\ total <= Overlap

\* total + tokens > overlap_tokens ends the loop.
Carries == current # << >> /\ total + TokensOf(LastOf(current)) <= Overlap

CarryMore == /\ pc = "carry" /\ Carries
             /\ carried' = <<LastOf(current)>> \o carried
             /\ total' = total + TokensOf(LastOf(current))
             /\ current' = ButLast(current)
             /\ UNCHANGED <<item, pc, split, sections, section, todo, tokens, chunks>>

\* A slip: what is carried over is not counted.
CarryEnd_Uncounted ==
    /\ pc = "carry" /\ ~Carries
    /\ current' = Append(carried, Head(todo))
    /\ tokens' = TokensOf(Head(todo))
    /\ todo' = Tail(todo)
    /\ pc' = "pack"
    /\ UNCHANGED <<item, split, sections, section, carry, chunks>>

\* Back in _pack, the paragraph that did not fit opens the next piece.
CarryEnd == /\ pc = "carry" /\ ~Carries
            /\ current' = Append(carried, Head(todo))
            /\ tokens' = total + TokensOf(Head(todo))
            /\ todo' = Tail(todo)
            /\ pc' = "pack"
            /\ UNCHANGED <<item, split, sections, section, carry, chunks>>

\* Slips: the piece is not emptied; the last piece is forgotten.
PackEnd_NotEmptied ==
    /\ pc = "pack" /\ todo = << >>
    /\ chunks' = IF current = << >> THEN chunks
                 ELSE Append(chunks, Chunk(current, section))
    /\ pc' = "sections"
    /\ UNCHANGED <<item, split, sections, section, pack, carry>>

PackEnd_NoLastPiece ==
    /\ pc = "pack" /\ todo = << >>
    /\ current' = << >> /\ tokens' = 0
    /\ pc' = "sections"
    /\ UNCHANGED <<item, split, sections, section, todo, carry, chunks>>

\* The paragraphs are used up: the piece being filled is the last.
PackEnd == /\ pc = "pack" /\ todo = << >>
           /\ chunks' = IF current = << >> THEN chunks
                        ELSE Append(chunks, Chunk(current, section))
           /\ current' = << >> /\ tokens' = 0
           /\ pc' = "sections"
           /\ UNCHANGED <<item, split, sections, section, todo, carry>>

-----------------------------------------------------------------------------
(* chunk_doc's loop over the sections, and the labels of chunk_document    *)

\* A section with no text under its heading gives no chunk.
SkipSection == /\ pc = "sections" /\ sections # << >>
               /\ Head(sections).body = << >>
               /\ sections' = Tail(sections)
               /\ UNCHANGED <<item, pc, split, section, pack, carry, chunks>>

OpenSection == /\ pc = "sections" /\ sections # << >>
               /\ Head(sections).body # << >>
               /\ todo' = Head(sections).body
               /\ section' = Head(sections).heading
               /\ sections' = Tail(sections)
               /\ pc' = "pack"
               /\ UNCHANGED <<item, split, current, tokens, carry, chunks>>

\* A document that gave no chunk at all becomes one.
SectionsEnd == /\ pc = "sections" /\ sections = << >>
               /\ chunks' = IF item.type = "doc" /\ chunks = << >> /\ item.blocks # << >>
                              THEN <<Chunk(AllBlocks, None)>> ELSE chunks
               /\ pc' = "label"
               /\ UNCHANGED <<item, split, sections, section, pack, carry>>

\* `title` occurs in the chunk's first line, which is the question for an FAQ.
TitleInFirstLine(c) ==
    item.title > 0 /\ (item.type = "faq" \/ Block(c.text[1]).title # "absent")

\* _prefix: the section is named unless there is none or it is the title again.
PrefixOf(c) == IF c.section # None /\ Block(c.section).title # "same"
                 THEN "title and section" ELSE "title"

Opening(c) == IF TitleInFirstLine(c) THEN "own" ELSE PrefixOf(c)

Label == /\ pc = "label"
         /\ chunks' = [n \in DOMAIN chunks |->
                          [chunks[n] EXCEPT !.opens = Opening(chunks[n])]]
         /\ pc' = "done"
         /\ UNCHANGED <<item, split, sections, section, pack, carry>>

-----------------------------------------------------------------------------

Next == \/ StartDoc \/ StartShortFaq \/ StartLongFaq
        \/ SplitParagraph \/ SplitTitle \/ SplitHeading \/ SplitEnd
        \/ SkipSection \/ OpenSection \/ SectionsEnd
        \/ PackAppend \/ PackClose \/ CarryMore \/ CarryEnd \/ PackEnd
        \/ Label

Spec == Init /\ [][Next]_vars
=============================================================================
