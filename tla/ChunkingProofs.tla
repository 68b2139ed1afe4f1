--------------------------- MODULE ChunkingProofs ---------------------------
(***************************************************************************)
(* No text of an item is lost by the chunker or put under a wrong heading; *)
(* its chunks follow the text, repeat no more than the overlap and are     *)
(* neither larger nor more than they need be.  For items of any size, any  *)
(* budgets and any overlap.                                                *)
(***************************************************************************)
EXTENDS ChunkingProps, FiniteSetTheorems, WellFoundedInduction, TLAPS

-----------------------------------------------------------------------------
(* Elements of the sequences the loops build                               *)

\* Appending a value adds it to the elements.
LEMMA ElementsAppend ==
    ASSUME NEW S, NEW s \in Seq(S), NEW e \in S
    PROVE  Append(s, e) \in Seq(S) /\ Elements(Append(s, e)) = Elements(s) \cup {e}
<1>1. /\ Append(s, e) \in Seq(S)
      /\ Len(Append(s, e)) = Len(s) + 1
      /\ Append(s, e)[Len(s) + 1] = e
      /\ \A n \in 1 .. Len(s) : Append(s, e)[n] = s[n]
  OBVIOUS
<1>2. DOMAIN s = 1 .. Len(s) /\ DOMAIN Append(s, e) = 1 .. Len(s) + 1 /\ Len(s) \in Nat
  BY <1>1
<1>3. ASSUME NEW x PROVE x \in Elements(Append(s, e)) <=> x \in Elements(s) \/ x = e
  BY <1>1, <1>2 DEF Elements
<1> QED  BY <1>1, <1>3

\* The head and the elements of the tail are the elements.
LEMMA ElementsTail ==
    ASSUME NEW S, NEW s \in Seq(S), s # << >>
    PROVE  /\ Head(s) \in S /\ Tail(s) \in Seq(S)
           /\ Elements(s) = {Head(s)} \cup Elements(Tail(s))
<1>1. /\ Head(s) = s[1] /\ Head(s) \in S /\ Tail(s) \in Seq(S) /\ Len(s) \in Nat /\ Len(s) > 0
      /\ Len(Tail(s)) = Len(s) - 1
      /\ \A n \in 1 .. Len(s) - 1 : Tail(s)[n] = s[n + 1]
  OBVIOUS
<1>2. DOMAIN s = 1 .. Len(s) /\ DOMAIN Tail(s) = 1 .. Len(s) - 1
  BY <1>1
<1>3. ASSUME NEW x \in Elements(s) PROVE x = Head(s) \/ x \in Elements(Tail(s))
  <2>1. PICK n \in 1 .. Len(s) : x = s[n]
    BY <1>2 DEF Elements
  <2>2. CASE n = 1
    BY <1>1, <2>1, <2>2
  <2>3. CASE n # 1
    <3>1. n - 1 \in 1 .. Len(s) - 1 /\ Tail(s)[n - 1] = s[(n - 1) + 1] /\ (n - 1) + 1 = n
      BY <1>1, <2>1, <2>3
    <3> QED  BY <1>2, <2>1, <3>1 DEF Elements
  <2> QED  BY <2>2, <2>3
<1>4. ASSUME NEW x \in Elements(Tail(s)) PROVE x \in Elements(s)
  <2>1. PICK n \in 1 .. Len(s) - 1 : x = Tail(s)[n]
    BY <1>2 DEF Elements
  <2>2. n + 1 \in 1 .. Len(s) /\ x = s[n + 1]
    BY <1>1, <2>1
  <2> QED  BY <1>2, <2>2 DEF Elements
<1>5. Head(s) \in Elements(s)
  BY <1>1, <1>2 DEF Elements
<1> QED  BY <1>1, <1>3, <1>4, <1>5

\* The last element is one, and dropping it adds none.
LEMMA ElementsButLast ==
    ASSUME NEW S, NEW s \in Seq(S), s # << >>
    PROVE  /\ LastOf(s) \in S /\ LastOf(s) \in Elements(s)
           /\ ButLast(s) \in Seq(S) /\ Elements(ButLast(s)) \subseteq Elements(s)
<1>1. Len(s) \in Nat /\ Len(s) > 0 /\ DOMAIN s = 1 .. Len(s)
  OBVIOUS
<1>2. LastOf(s) \in S /\ LastOf(s) \in Elements(s)
  BY <1>1 DEF LastOf, Elements
<1>3. /\ ButLast(s) \in Seq(S) /\ DOMAIN ButLast(s) = 1 .. Len(s) - 1
      /\ \A n \in 1 .. Len(s) - 1 : ButLast(s)[n] = s[n]
  BY <1>1 DEF ButLast
<1> QED  BY <1>1, <1>2, <1>3 DEF Elements

\* Putting a value in front adds it to the elements.
LEMMA ElementsCons ==
    ASSUME NEW S, NEW s \in Seq(S), NEW e \in S
    PROVE  <<e>> \o s \in Seq(S) /\ Elements(<<e>> \o s) \subseteq Elements(s) \cup {e}
<1>1. <<e>> \in Seq(S) /\ Len(<<e>>) = 1 /\ <<e>>[1] = e /\ Len(s) \in Nat
  OBVIOUS
<1>2. /\ <<e>> \o s \in Seq(S)
      /\ DOMAIN (<<e>> \o s) = 1 .. 1 + Len(s)
      /\ \A n \in 1 .. 1 + Len(s) : (<<e>> \o s)[n] = IF n <= 1 THEN e ELSE s[n - 1]
  BY <1>1
<1>3. ASSUME NEW n \in 1 .. 1 + Len(s)
      PROVE  (<<e>> \o s)[n] = e \/ (<<e>> \o s)[n] \in Elements(s)
  <2>1. CASE n <= 1
    BY <1>2, <2>1
  <2>2. CASE ~(n <= 1)
    BY <1>1, <1>2, <2>2 DEF Elements
  <2> QED  BY <2>1, <2>2
<1> QED  BY <1>2, <1>3 DEF Elements

\* The empty sequence has no elements.
LEMMA ElementsEmpty == Elements(<< >>) = {} /\ \A S : << >> \in Seq(S)
BY DEF Elements

-----------------------------------------------------------------------------
(* The inductive invariant, over operators that name the state they read   *)

\* Heads(h, i) for the blocks bs.
Covers(bs, h, i) ==
    IF h = None
      THEN \A g \in 1 .. i - 1 : bs[g].depth \in {2, 3} =>
              \E f \in g + 1 .. i - 1 : bs[f].depth = 1
      ELSE /\ h < i /\ bs[h].depth \in {2, 3}
           /\ \A g \in h + 1 .. i - 1 : bs[g].depth = 0

\* The text is made of paragraphs that h heads.
Owned(bs, text, h) == \A i \in Elements(text) : bs[i].depth = 0 /\ Covers(bs, h, i)

\* Block i has to be kept: all of an answer, the paragraphs of a document.
Wanted(it, i) == it.type = "faq" \/ it.blocks[i].depth = 0

\* Chunk c keeps block i, under its own heading if the item is a document.
Keeps(it, c, i) == /\ i \in Elements(c.text)
                   /\ it.type = "doc" => Covers(it.blocks, c.section, i)

InChunks(it, cs, i) == \E n \in DOMAIN cs : Keeps(it, cs[n], i)
InSections(ss, i) == \E n \in DOMAIN ss : i \in Elements(ss[n].body)

\* Chunk c puts no paragraph under a heading that is not its own.
Clean(it, c) == it.type = "doc" => \A i \in Elements(c.text) :
                    it.blocks[i].depth = 0 => Covers(it.blocks, c.section, i)

\* The loops run in order, and what a later one reads is ready.
PhasesOK == /\ pc \in {"start", "label", "done"} => sections = << >>
            /\ pc = "start" => at = 1 /\ heading = None /\ buffer = << >>
            /\ pc = "split" => item.type = "doc"
            /\ pc \in {"label", "done"} /\ item.blocks # << >> => chunks # << >>

SplitOK == pc = "split" => /\ Covers(item.blocks, heading, at)
                           /\ Owned(item.blocks, buffer, heading)

SectionsOK == \A n \in DOMAIN sections :
                  Owned(item.blocks, sections[n].body, sections[n].heading)

PackOK == item.type = "doc" =>
              /\ pc \in {"pack", "carry"} => /\ Owned(item.blocks, todo, section)
                                            /\ Owned(item.blocks, current, section)
              /\ pc = "carry" => Owned(item.blocks, carried, section)

ChunksOK == \A n \in DOMAIN chunks : Clean(item, chunks[n])

\* Where a block that has to be kept is on its way.
OnItsWay(i) == \/ pc = "start"
               \/ pc = "split" /\ (i >= at \/ i \in Elements(buffer))
               \/ InSections(sections, i)
               \/ pc \in {"pack", "carry"} /\ i \in Elements(todo)
               \/ pc = "pack" /\ i \in Elements(current)
               \/ InChunks(item, chunks, i)

NoneMissing == \A i \in DOMAIN item.blocks : Wanted(item, i) => OnItsWay(i)

IndInv == TypeOK /\ PhasesOK /\ SplitOK /\ SectionsOK /\ PackOK /\ ChunksOK /\ NoneMissing

\* What the invariant is for.
LEMMA Consequences == IndInv => NothingLost /\ UnderOwnHeading
<1> SUFFICES ASSUME IndInv PROVE NothingLost /\ UnderOwnHeading
  OBVIOUS
<1>1. \A h, i : Heads(h, i) <=> Covers(item.blocks, h, i)
  BY DEF Heads, Covers, Block
<1>2. UnderOwnHeading
  BY <1>1 DEF IndInv, ChunksOK, Clean, UnderOwnHeading, Block
<1>3. ASSUME pc = "done", NEW i \in BlockNumbers, Wanted(item, i)
      PROVE  InChunks(item, chunks, i)
  <2>1. sections = << >>
    BY <1>3 DEF IndInv, PhasesOK
  <2>2. ~InSections(sections, i)
    BY <2>1 DEF InSections
  <2> QED  BY <1>3, <2>2 DEF IndInv, NoneMissing, OnItsWay, BlockNumbers
<1>4. NothingLost
  <2>1. ASSUME pc = "done", item.type = "doc", NEW i \in BlockNumbers, Block(i).depth = 0
        PROVE  Kept(i)
    <3>1. InChunks(item, chunks, i)
      BY <1>3, <2>1 DEF Wanted, Block
    <3> QED  BY <1>1, <2>1, <3>1 DEF InChunks, Keeps, Kept
  <2>2. ASSUME pc = "done", item.type = "faq", NEW i \in BlockNumbers
        PROVE  \E n \in DOMAIN chunks : i \in Elements(chunks[n].text)
    <3>1. InChunks(item, chunks, i)
      BY <1>3, <2>2 DEF Wanted
    <3> QED  BY <3>1 DEF InChunks, Keeps
  <2> QED  BY <2>1, <2>2 DEF NothingLost, IndInv, PhasesOK
<1> QED  BY <1>2, <1>4

-----------------------------------------------------------------------------
(* Steps of the operators                                                  *)

\* A heading goes on heading until the next heading.
LEMMA CoversNext ==
    ASSUME NEW bs, NEW n \in Nat \ {0}, NEW h \in Nat, Covers(bs, h, n)
    PROVE  /\ bs[n].depth = 0 => Covers(bs, h, n + 1)
           /\ bs[n].depth = 1 => Covers(bs, None, n + 1)
           /\ bs[n].depth \in {2, 3} => Covers(bs, n, n + 1)
<1>1. ASSUME bs[n].depth = 0 PROVE Covers(bs, h, n + 1)
  BY <1>1 DEF Covers, None
<1>2. ASSUME bs[n].depth = 1 PROVE Covers(bs, None, n + 1)
  BY <1>2 DEF Covers, None
<1>3. ASSUME bs[n].depth \in {2, 3} PROVE Covers(bs, n, n + 1)
  BY <1>3 DEF Covers, None
<1> QED  BY <1>1, <1>2, <1>3

\* Another chunk at the end: it keeps what it has, the others what they had.
LEMMA ChunksAppend ==
    ASSUME NEW it, NEW S, NEW cs \in Seq(S), NEW c \in S
    PROVE  /\ \A i : InChunks(it, cs, i) => InChunks(it, Append(cs, c), i)
           /\ \A i : Keeps(it, c, i) => InChunks(it, Append(cs, c), i)
           /\ Clean(it, c) /\ (\A n \in DOMAIN cs : Clean(it, cs[n]))
                => \A n \in DOMAIN Append(cs, c) : Clean(it, Append(cs, c)[n])
<1>1. /\ DOMAIN cs = 1 .. Len(cs) /\ DOMAIN Append(cs, c) = 1 .. Len(cs) + 1
      /\ Len(cs) \in Nat /\ Append(cs, c)[Len(cs) + 1] = c
      /\ \A n \in 1 .. Len(cs) : Append(cs, c)[n] = cs[n]
  OBVIOUS
<1> QED  BY <1>1 DEF InChunks

\* Another section at the end.
LEMMA SectionsAppend ==
    ASSUME NEW bs, NEW S, NEW ss \in Seq(S), NEW s \in S
    PROVE  /\ \A i : InSections(ss, i) => InSections(Append(ss, s), i)
           /\ \A i \in Elements(s.body) : InSections(Append(ss, s), i)
           /\ Owned(bs, s.body, s.heading)
              /\ (\A n \in DOMAIN ss : Owned(bs, ss[n].body, ss[n].heading))
                => \A n \in DOMAIN Append(ss, s) :
                      Owned(bs, Append(ss, s)[n].body, Append(ss, s)[n].heading)
<1>1. /\ DOMAIN ss = 1 .. Len(ss) /\ DOMAIN Append(ss, s) = 1 .. Len(ss) + 1
      /\ Len(ss) \in Nat /\ Append(ss, s)[Len(ss) + 1] = s
      /\ \A n \in 1 .. Len(ss) : Append(ss, s)[n] = ss[n]
  OBVIOUS
<1> QED  BY <1>1 DEF InSections

\* The first section is taken off.
LEMMA SectionsTail ==
    ASSUME NEW bs, NEW S, NEW ss \in Seq(S), ss # << >>,
           \A n \in DOMAIN ss : Owned(bs, ss[n].body, ss[n].heading)
    PROVE  /\ \A i : InSections(ss, i)
                      => i \in Elements(Head(ss).body) \/ InSections(Tail(ss), i)
           /\ Owned(bs, Head(ss).body, Head(ss).heading)
           /\ \A n \in DOMAIN Tail(ss) : Owned(bs, Tail(ss)[n].body, Tail(ss)[n].heading)
<1>1. /\ DOMAIN ss = 1 .. Len(ss) /\ DOMAIN Tail(ss) = 1 .. Len(ss) - 1
      /\ Len(ss) \in Nat /\ Len(ss) > 0 /\ Head(ss) = ss[1]
      /\ \A n \in 1 .. Len(ss) - 1 : Tail(ss)[n] = ss[n + 1]
  OBVIOUS
<1>2. ASSUME NEW i, InSections(ss, i)
      PROVE  i \in Elements(Head(ss).body) \/ InSections(Tail(ss), i)
  <2>1. PICK n \in 1 .. Len(ss) : i \in Elements(ss[n].body)
    BY <1>1, <1>2 DEF InSections
  <2>2. CASE n = 1
    BY <1>1, <2>1, <2>2
  <2>3. CASE n # 1
    <3>1. n - 1 \in 1 .. Len(ss) - 1 /\ Tail(ss)[n - 1] = ss[n]
      BY <1>1, <2>1, <2>3
    <3> QED  BY <1>1, <2>1, <3>1 DEF InSections
  <2> QED  BY <2>2, <2>3
<1> QED  BY <1>1, <1>2

-----------------------------------------------------------------------------
(* Init and the steps                                                      *)

\* All blocks, as a text.
LEMMA AllBlocksText ==
    ASSUME IsItem(item)
    PROVE  AllBlocks \in Texts /\ Elements(AllBlocks) = BlockNumbers
           /\ (item.blocks # << >> => AllBlocks # << >>)
<1>1. DOMAIN item.blocks = 1 .. Len(item.blocks) /\ Len(item.blocks) \in Nat
  BY DEF IsItem
<1>2. AllBlocks \in Texts /\ DOMAIN AllBlocks = BlockNumbers
  BY <1>1 DEF AllBlocks, Texts, BlockNumbers
<1>3. Elements(AllBlocks) = BlockNumbers
  BY <1>2 DEF AllBlocks, Elements, BlockNumbers
<1>4. ASSUME item.blocks # << >> PROVE AllBlocks # << >>
  <2>1. 1 \in DOMAIN AllBlocks
    BY <1>1, <1>2, <1>4 DEF IsItem, BlockNumbers
  <2> QED  BY <2>1
<1> QED  BY <1>2, <1>3, <1>4

LEMMA IndInvInit == Init => IndInv
<1> SUFFICES ASSUME Init PROVE IndInv
  OBVIOUS
<1>1. TypeOK
  BY ItemsAssumption DEF Init, TypeOK, IsItem, Headings, BlockNumbers, Texts, None
<1>2. SplitOK /\ PackOK /\ NoneMissing
  BY DEF Init, SplitOK, PackOK, NoneMissing, OnItsWay
<1>3. PhasesOK /\ SectionsOK /\ ChunksOK
  BY DEF Init, PhasesOK, SectionsOK, ChunksOK
<1> QED  BY <1>1, <1>2, <1>3 DEF IndInv

\* What of the invariant a step keeps that leaves the item alone and the
\* variables a part is about.
LEMMA Frames ==
    ASSUME IndInv, item' = item
    PROVE  /\ sections' = sections => SectionsOK'
           /\ chunks' = chunks => ChunksOK'
           /\ IsItem(item)'
           /\ \A i \in DOMAIN item.blocks : Wanted(item, i) => OnItsWay(i)
BY DEF IndInv, TypeOK, SectionsOK, ChunksOK, NoneMissing

\* The domains are those of the item.
LEMMA SameDomains ==
    ASSUME item' = item
    PROVE  /\ BlockNumbers' = BlockNumbers /\ Texts' = Texts
           /\ Headings' = Headings /\ Chunks' = Chunks
           /\ IsItem(item)' = IsItem(item)
BY DEF BlockNumbers, Texts, Headings, Chunks

LEMMA StartStep ==
    ASSUME IndInv, StartDoc \/ StartShortFaq \/ StartLongFaq
    PROVE  IndInv'
<1> DEFINE B == BlockNumbers
<1>1. item' = item /\ IsItem(item) /\ pc = "start" /\ sections = << >>
      /\ at = 1 /\ heading = None /\ buffer = << >>
  BY DEF IndInv, TypeOK, PhasesOK, StartDoc, StartShortFaq, StartLongFaq
<1>2. AllBlocks \in Texts /\ Elements(AllBlocks) = B /\ (item.blocks # << >> => AllBlocks # << >>)
  BY <1>1, AllBlocksText
<1>3. CASE StartDoc
  <2>1. TypeOK'
    BY <1>1, <1>3 DEF IndInv, TypeOK, StartDoc, split, pack, carry, Headings, BlockNumbers,
                      Texts, Chunks
  <2>2. Covers(item.blocks, None, 1) /\ Owned(item.blocks, << >>, None)
    BY DEF Covers, Owned, Elements
  <2>3. SplitOK' /\ PackOK' /\ PhasesOK'
    BY <1>1, <1>3, <2>2 DEF SplitOK, PackOK, PhasesOK, StartDoc, split
  <2>4. NoneMissing'
    BY <1>1, <1>3 DEF NoneMissing, OnItsWay, StartDoc, split, IsItem
  <2>5. SectionsOK' /\ ChunksOK'
    BY <1>1, <1>3, Frames DEF StartDoc
  <2> QED  BY <2>1, <2>3, <2>4, <2>5 DEF IndInv
<1>4. CASE StartShortFaq
  <2> DEFINE c == Chunk(AllBlocks, None)
  <2>1. c \in Chunks /\ c.text = AllBlocks /\ c.section = None
    BY <1>2 DEF Chunk, Chunks, Headings
  <2>2. item.type = "faq" /\ pc' = "label" /\ chunks' = <<c>>
    BY <1>4 DEF StartShortFaq
  <2> HIDE DEF c
  <2>3. TypeOK'
    <3>1. <<c>> \in Seq(Chunks)
      BY <2>1
    <3> QED  BY <1>1, <1>4, <2>2, <3>1, SameDomains
             DEF IndInv, TypeOK, StartShortFaq, split, pack, carry
  <2>4. SplitOK' /\ PackOK' /\ PhasesOK' /\ ChunksOK'
    BY <1>1, <1>4, <2>2 DEF SplitOK, PackOK, PhasesOK, StartShortFaq, ChunksOK, Clean
  <2>5. SectionsOK'
    BY <1>1, <1>4, Frames DEF StartShortFaq
  <2>6. NoneMissing'
    <3>1. DOMAIN <<c>> = {1} /\ <<c>>[1] = c
      OBVIOUS
    <3>2. \A i \in B : InChunks(item, <<c>>, i)
      BY <1>2, <2>1, <2>2, <3>1 DEF InChunks, Keeps
    <3> QED  BY <1>1, <2>2, <3>2 DEF NoneMissing, OnItsWay, BlockNumbers
  <2> QED  BY <2>3, <2>4, <2>5, <2>6 DEF IndInv
<1>5. CASE StartLongFaq
  <2>1. item.type = "faq" /\ pc' = "pack" /\ todo' = AllBlocks
    BY <1>5 DEF StartLongFaq
  <2>2. TypeOK'
    BY <1>1, <1>2, <1>5, <2>1 DEF IndInv, TypeOK, StartLongFaq, split, carry, Headings,
                      BlockNumbers, Texts, Chunks
  <2>3. SplitOK' /\ PackOK' /\ PhasesOK'
    BY <1>1, <1>5, <2>1 DEF SplitOK, PackOK, PhasesOK, StartLongFaq
  <2>4. SectionsOK' /\ ChunksOK'
    BY <1>1, <1>5, Frames DEF StartLongFaq
  <2>5. NoneMissing'
    BY <1>1, <1>2, <2>1 DEF NoneMissing, OnItsWay, BlockNumbers
  <2> QED  BY <2>2, <2>3, <2>4, <2>5 DEF IndInv
<1> QED  BY <1>3, <1>4, <1>5

-----------------------------------------------------------------------------
(* split_sections                                                          *)

\* What Flush does to the sections.
LEMMA Flushed ==
    ASSUME IndInv, pc = "split", item' = item, Flush
    PROVE  /\ sections' \in Seq([heading : Headings, body : Texts])
           /\ SectionsOK'
           /\ \A i : InSections(sections, i) \/ i \in Elements(buffer)
                    => InSections(sections', i)
<1> DEFINE S == [heading : Headings, body : Texts]
           s == [heading |-> heading, body |-> buffer]
<1>1. s \in S /\ s.body = buffer /\ s.heading = heading /\ sections \in Seq(S)
  BY DEF IndInv, TypeOK
<1>2. Owned(item.blocks, buffer, heading)
  BY DEF IndInv, SplitOK
<1>3. \A n \in DOMAIN sections : Owned(item.blocks, sections[n].body, sections[n].heading)
  BY DEF IndInv, SectionsOK
<1>4. sections' = IF buffer = << >> /\ heading = None THEN sections ELSE Append(sections, s)
  BY DEF Flush
<1> HIDE DEF s, S
<1>5. CASE buffer = << >> /\ heading = None
  <2>1. sections' = sections /\ Elements(buffer) = {}
    BY <1>4, <1>5, ElementsEmpty
  <2> QED  BY <1>1, <1>3, <2>1 DEF SectionsOK, S
<1>6. CASE ~(buffer = << >> /\ heading = None)
  <2>1. sections' = Append(sections, s)
    BY <1>4, <1>6
  <2>2. sections' \in Seq(S)
    BY <1>1, <2>1
  <2>3. /\ \A i : InSections(sections, i) => InSections(sections', i)
        /\ \A i \in Elements(buffer) : InSections(sections', i)
        /\ \A n \in DOMAIN sections' : Owned(item.blocks, sections'[n].body, sections'[n].heading)
    BY <1>1, <1>2, <1>3, <2>1, SectionsAppend
  <2> QED  BY <2>2, <2>3 DEF SectionsOK, S
<1> QED  BY <1>5, <1>6

LEMMA SplitParagraphStep ==
    ASSUME IndInv, SplitParagraph
    PROVE  IndInv'
<1>1. /\ item' = item /\ IsItem(item) /\ pc = "split" /\ pc' = pc
      /\ at \in 1 .. Len(item.blocks) /\ at \in BlockNumbers /\ item.blocks[at].depth = 0
      /\ heading' = heading /\ heading \in Nat /\ at' = at + 1
      /\ buffer \in Seq(BlockNumbers) /\ buffer' = Append(buffer, at)
  BY DEF IndInv, TypeOK, SplitParagraph, AtBlock, Block, IsItem, Headings, BlockNumbers, Texts,
         None
<1>2. buffer' \in Texts /\ Elements(buffer') = Elements(buffer) \cup {at}
  BY <1>1, ElementsAppend DEF Texts
<1>3. TypeOK'
  <2>1. at' \in 1 .. Len(item.blocks) + 1
    BY <1>1 DEF IsItem
  <2> QED  BY <1>1, <1>2, <2>1, SameDomains DEF IndInv, TypeOK, SplitParagraph, pack, carry
<1>4. SplitOK'
  <2>1. Covers(item.blocks, heading, at) /\ Owned(item.blocks, buffer, heading)
    BY <1>1 DEF IndInv, SplitOK
  <2>2. Covers(item.blocks, heading, at + 1)
    BY <1>1, <2>1, CoversNext
  <2>3. Owned(item.blocks, buffer', heading)
    BY <1>1, <1>2, <2>1 DEF Owned
  <2> QED  BY <1>1, <2>2, <2>3 DEF SplitOK
<1>5. PackOK' /\ PhasesOK'
  BY <1>1 DEF IndInv, PackOK, PhasesOK, SplitParagraph, pack, carry
<1>6. SectionsOK' /\ ChunksOK'
  BY <1>1, Frames DEF SplitParagraph
<1>7. NoneMissing'
  <2> SUFFICES ASSUME NEW i \in DOMAIN item.blocks, Wanted(item, i) PROVE OnItsWay(i)'
    BY <1>1 DEF NoneMissing
  <2>1. OnItsWay(i) /\ i \in Int /\ at \in Int
    BY <1>1, Frames DEF IsItem
  <2>2. sections' = sections /\ chunks' = chunks
    BY DEF SplitParagraph
  <2> QED  BY <1>1, <1>2, <2>1, <2>2 DEF OnItsWay
<1> QED  BY <1>3, <1>4, <1>5, <1>6, <1>7 DEF IndInv

LEMMA SplitHeadingStep ==
    ASSUME IndInv, SplitTitle \/ SplitHeading
    PROVE  IndInv'
<1>1. /\ item' = item /\ IsItem(item) /\ pc = "split" /\ pc' = pc
      /\ at \in 1 .. Len(item.blocks) /\ at \in BlockNumbers
      /\ heading \in Nat /\ at' = at + 1 /\ buffer' = << >>
      /\ \/ item.blocks[at].depth = 1 /\ heading' = None
         \/ item.blocks[at].depth \in {2, 3} /\ heading' = at
  <2>1. /\ IsItem(item) /\ at \in 1 .. Len(item.blocks) + 1 /\ heading \in Headings
    BY DEF IndInv, TypeOK
  <2>2. DOMAIN item.blocks = 1 .. Len(item.blocks) /\ Len(item.blocks) \in Nat
    BY <2>1 DEF IsItem
  <2>3. /\ item' = item /\ pc = "split" /\ pc' = pc /\ at <= Len(item.blocks)
        /\ at' = at + 1 /\ buffer' = << >>
        /\ \/ item.blocks[at].depth = 1 /\ heading' = None
           \/ item.blocks[at].depth \in {2, 3} /\ heading' = at
    BY DEF SplitTitle, SplitHeading, AtBlock, Block
  <2>4. at \in 1 .. Len(item.blocks) /\ heading \in Nat
    BY <2>1, <2>2, <2>3 DEF Headings, BlockNumbers, None
  <2> QED  BY <2>1, <2>2, <2>3, <2>4 DEF BlockNumbers
<1>2. Flush /\ section' = section /\ chunks' = chunks /\ pack' = pack /\ carry' = carry
  BY DEF SplitTitle, SplitHeading
<1>3. /\ sections' \in Seq([heading : Headings, body : Texts])
      /\ SectionsOK'
      /\ \A i : InSections(sections, i) \/ i \in Elements(buffer) => InSections(sections', i)
  BY <1>1, <1>2, Flushed
<1>4. TypeOK'
  <2>1. at' \in 1 .. Len(item.blocks) + 1
    BY <1>1 DEF IsItem
  <2>2. heading' \in Headings /\ << >> \in Texts
    BY <1>1 DEF Headings, Texts
  <2> QED  BY <1>1, <1>2, <1>3, <2>1, <2>2, SameDomains DEF IndInv, TypeOK, pack, carry
<1>5. SplitOK'
  <2>1. Covers(item.blocks, heading', at + 1)
    BY <1>1, CoversNext DEF IndInv, SplitOK
  <2>2. Owned(item.blocks, << >>, heading')
    BY ElementsEmpty DEF Owned
  <2> QED  BY <1>1, <2>1, <2>2 DEF SplitOK
<1>6. PackOK' /\ PhasesOK'
  BY <1>1 DEF IndInv, PackOK, PhasesOK
<1>7. ChunksOK'
  BY <1>1, <1>2, Frames
<1>8. NoneMissing'
  <2> SUFFICES ASSUME NEW i \in DOMAIN item.blocks, Wanted(item, i) PROVE OnItsWay(i)'
    BY <1>1 DEF NoneMissing
  <2>1. OnItsWay(i) /\ i \in Int /\ at \in Int
    BY <1>1, Frames DEF IsItem
  <2>2. i # at
    BY <1>1, <2>1 DEF Wanted, IndInv, PhasesOK
  <2> QED  BY <1>1, <1>2, <1>3, <2>1, <2>2 DEF OnItsWay
<1> QED  BY <1>3, <1>4, <1>5, <1>6, <1>7, <1>8 DEF IndInv

LEMMA SplitEndStep ==
    ASSUME IndInv, SplitEnd
    PROVE  IndInv'
<1>1. /\ item' = item /\ IsItem(item) /\ pc = "split" /\ pc' = "sections"
      /\ at > Len(item.blocks) /\ Flush /\ chunks' = chunks
      /\ at' = at /\ section' = section /\ pack' = pack /\ carry' = carry
      /\ buffer' = << >> /\ heading' = None
  BY DEF IndInv, TypeOK, SplitEnd
<1>2. /\ sections' \in Seq([heading : Headings, body : Texts])
      /\ SectionsOK'
      /\ \A i : InSections(sections, i) \/ i \in Elements(buffer) => InSections(sections', i)
  BY <1>1, Flushed
<1>3. TypeOK'
  BY <1>1, <1>2 DEF IndInv, TypeOK, pack, carry, Headings, BlockNumbers, Texts, Chunks, None
<1>4. SplitOK' /\ PackOK' /\ PhasesOK'
  BY <1>1 DEF SplitOK, PackOK, PhasesOK
<1>5. ChunksOK'
  BY <1>1, Frames
<1>6. NoneMissing'
  <2> SUFFICES ASSUME NEW i \in DOMAIN item.blocks, Wanted(item, i) PROVE OnItsWay(i)'
    BY <1>1 DEF NoneMissing
  <2>1. OnItsWay(i) /\ i \in 1 .. Len(item.blocks) /\ Len(item.blocks) \in Nat /\ at \in Int
    BY <1>1, Frames DEF IsItem, IndInv, TypeOK
  <2> QED  BY <1>1, <1>2, <2>1 DEF OnItsWay
<1> QED  BY <1>2, <1>3, <1>4, <1>5, <1>6 DEF IndInv

-----------------------------------------------------------------------------
(* _pack and _carry_over                                                   *)

\* A block has a natural number of tokens.
LEMMA TokensAreNat ==
    ASSUME IsItem(item), NEW i \in BlockNumbers
    PROVE  TokensOf(i) \in Nat
<1> DEFINE n == Block(i).len
<1>1. n \in Nat
  <2>1. item.blocks \in Seq(Blocks) /\ i \in DOMAIN item.blocks
    BY DEF IsItem, BlockNumbers
  <2>2. Block(i) \in Blocks
    BY <2>1 DEF Block
  <2> QED  BY <2>2 DEF Blocks
<1> HIDE DEF n
<1>2. (4 * n + 5) \div 10 \in Int
  BY <1>1
<1>3. CountTokens(n) \in Nat
  BY <1>1, <1>2 DEF CountTokens
<1> QED  BY <1>3 DEF TokensOf, n

\* What _pack works on: texts, and the first of `todo` to be looked at next.
LEMMA Packing ==
    ASSUME IndInv, pc \in {"pack", "carry"}
    PROVE  /\ IsItem(item)
           /\ todo \in Texts /\ current \in Texts /\ carried \in Texts
           /\ todo # << >> =>
                /\ Head(todo) \in BlockNumbers /\ Tail(todo) \in Texts
                /\ Elements(todo) = {Head(todo)} \cup Elements(Tail(todo))
                /\ TokensOf(Head(todo)) \in Nat
                /\ item.type = "doc" => /\ Owned(item.blocks, Tail(todo), section)
                                        /\ Owned(item.blocks, <<Head(todo)>>, section)
<1>1. IsItem(item) /\ todo \in Texts /\ current \in Texts /\ carried \in Texts
  BY DEF IndInv, TypeOK
<1>2. ASSUME todo # << >>
      PROVE  /\ Head(todo) \in BlockNumbers /\ Tail(todo) \in Texts
             /\ Elements(todo) = {Head(todo)} \cup Elements(Tail(todo))
  BY <1>1, <1>2, ElementsTail DEF Texts
<1>3. ASSUME todo # << >>, item.type = "doc"
      PROVE  Owned(item.blocks, Tail(todo), section) /\ Owned(item.blocks, <<Head(todo)>>, section)
  <2>1. Owned(item.blocks, todo, section)
    BY <1>3 DEF IndInv, PackOK
  <2>2. Elements(<<Head(todo)>>) = {Head(todo)}
    BY DEF Elements
  <2> QED  BY <1>2, <1>3, <2>1, <2>2 DEF Owned
<1> QED  BY <1>1, <1>2, <1>3, TokensAreNat

\* The text with the next paragraph behind it.
LEMMA OwnedAppend ==
    ASSUME NEW bs, NEW S, NEW s \in Seq(S), NEW e \in S, NEW h,
           Owned(bs, s, h), Owned(bs, <<e>>, h)
    PROVE  Owned(bs, Append(s, e), h)
<1>1. Elements(Append(s, e)) = Elements(s) \cup {e} /\ Elements(<<e>>) = {e}
  BY ElementsAppend DEF Elements
<1> QED  BY <1>1 DEF Owned

LEMMA PackAppendStep ==
    ASSUME IndInv, PackAppend
    PROVE  IndInv'
<1> DEFINE p == Head(todo)
<1>1. /\ item' = item /\ pc = "pack" /\ pc' = pc /\ todo # << >>
      /\ current' = Append(current, p) /\ todo' = Tail(todo)
      /\ tokens' = tokens + TokensOf(p)
      /\ section' = section /\ sections' = sections /\ chunks' = chunks
      /\ split' = split /\ carry' = carry
  BY DEF PackAppend
<1>2. /\ IsItem(item) /\ p \in BlockNumbers /\ Tail(todo) \in Texts /\ current \in Texts
      /\ Elements(todo) = {p} \cup Elements(Tail(todo)) /\ TokensOf(p) \in Nat
      /\ item.type = "doc" => /\ Owned(item.blocks, Tail(todo), section)
                              /\ Owned(item.blocks, <<p>>, section)
  BY <1>1, Packing
<1> HIDE DEF p
<1>3. current' \in Texts /\ Elements(current') = Elements(current) \cup {p}
  BY <1>1, <1>2, ElementsAppend DEF Texts
<1>4. TypeOK'
  BY <1>1, <1>2, <1>3, SameDomains DEF IndInv, TypeOK, split, carry
<1>5. PackOK'
  <2>1. ASSUME item.type = "doc" PROVE Owned(item.blocks, current', section)
    <3>1. Owned(item.blocks, current, section)
      BY <1>1, <2>1 DEF IndInv, PackOK
    <3> QED  BY <1>1, <1>2, <2>1, <3>1, OwnedAppend DEF Texts
  <2> QED  BY <1>1, <1>2, <2>1 DEF PackOK
<1>6. SplitOK' /\ PhasesOK'
  BY <1>1 DEF SplitOK, PhasesOK
<1>7. SectionsOK' /\ ChunksOK'
  BY <1>1, Frames
<1>8. NoneMissing'
  <2> SUFFICES ASSUME NEW i \in DOMAIN item.blocks, Wanted(item, i) PROVE OnItsWay(i)'
    BY <1>1 DEF NoneMissing
  <2>1. OnItsWay(i)
    BY <1>1, Frames
  <2> QED  BY <1>1, <1>2, <1>3, <2>1 DEF OnItsWay
<1> QED  BY <1>4, <1>5, <1>6, <1>7, <1>8 DEF IndInv

\* The chunk that closes the piece `current`.
LEMMA Closed ==
    ASSUME IndInv, pc = "pack", item' = item, chunks' = Append(chunks, Chunk(current, section))
    PROVE  /\ chunks' \in Seq(Chunks) /\ ChunksOK' /\ chunks' # << >>
           /\ \A i \in DOMAIN item.blocks :
                 Wanted(item, i) /\ (i \in Elements(current) \/ InChunks(item, chunks, i))
                    => InChunks(item, chunks', i)
<1> DEFINE c == Chunk(current, section)
<1>1. c \in Chunks /\ c.text = current /\ c.section = section /\ chunks \in Seq(Chunks)
  BY DEF Chunk, Chunks, IndInv, TypeOK
<1>2. item.type = "doc" => Owned(item.blocks, current, section)
  BY DEF IndInv, PackOK
<1>3. Clean(item, c) /\ \A i \in Elements(current) : Keeps(item, c, i)
  BY <1>1, <1>2 DEF Clean, Keeps, Owned
<1>4. \A n \in DOMAIN chunks : Clean(item, chunks[n])
  BY DEF IndInv, ChunksOK
<1> HIDE DEF c
<1>5. chunks' = Append(chunks, c)
  BY DEF c
<1>6. /\ \A i : InChunks(item, chunks, i) => InChunks(item, chunks', i)
      /\ \A i : Keeps(item, c, i) => InChunks(item, chunks', i)
      /\ \A n \in DOMAIN chunks' : Clean(item, chunks'[n])
  BY <1>1, <1>3, <1>4, <1>5, ChunksAppend
<1>7. chunks' \in Seq(Chunks) /\ chunks' # << >>
  BY <1>1, <1>5
<1> QED  BY <1>3, <1>6, <1>7 DEF ChunksOK

LEMMA PackCloseStep ==
    ASSUME IndInv, PackClose
    PROVE  IndInv'
<1>1. /\ item' = item /\ pc = "pack" /\ pc' = "carry" /\ todo # << >>
      /\ carried' = << >> /\ total' = 0
      /\ current' = current /\ todo' = todo /\ tokens' = tokens
      /\ section' = section /\ sections' = sections /\ split' = split
      /\ chunks' = Append(chunks, Chunk(current, section))
  BY DEF PackClose, pack
<1>2. /\ chunks' \in Seq(Chunks) /\ ChunksOK'
      /\ \A i \in DOMAIN item.blocks :
            Wanted(item, i) /\ (i \in Elements(current) \/ InChunks(item, chunks, i))
               => InChunks(item, chunks', i)
  BY <1>1, Closed
<1>3. TypeOK'
  <2>1. << >> \in Texts
    BY DEF Texts
  <2> QED  BY <1>1, <1>2, <2>1, SameDomains DEF IndInv, TypeOK, split
<1>4. PackOK'
  <2>1. Owned(item.blocks, << >>, section)
    BY ElementsEmpty DEF Owned
  <2> QED  BY <1>1, <2>1 DEF IndInv, PackOK
<1>5. SplitOK' /\ PhasesOK'
  BY <1>1 DEF SplitOK, PhasesOK
<1>6. SectionsOK'
  BY <1>1, Frames
<1>7. NoneMissing'
  <2> SUFFICES ASSUME NEW i \in DOMAIN item.blocks, Wanted(item, i) PROVE OnItsWay(i)'
    BY <1>1 DEF NoneMissing
  <2>1. OnItsWay(i)
    BY <1>1, Frames
  <2> QED  BY <1>1, <1>2, <2>1 DEF OnItsWay
<1> QED  BY <1>2, <1>3, <1>4, <1>5, <1>6, <1>7 DEF IndInv

LEMMA CarryMoreStep ==
    ASSUME IndInv, CarryMore
    PROVE  IndInv'
<1> DEFINE p == LastOf(current)
<1>1. /\ item' = item /\ pc = "carry" /\ pc' = pc /\ current # << >>
      /\ carried' = <<p>> \o carried /\ total' = total + TokensOf(p)
      /\ current' = ButLast(current) /\ todo' = todo /\ tokens' = tokens
      /\ section' = section /\ sections' = sections /\ chunks' = chunks /\ split' = split
  BY DEF CarryMore, Carries
<1>2. /\ IsItem(item) /\ current \in Seq(BlockNumbers) /\ carried \in Seq(BlockNumbers)
  BY <1>1, Packing DEF Texts
<1>3. /\ p \in BlockNumbers /\ p \in Elements(current)
      /\ current' \in Texts /\ Elements(current') \subseteq Elements(current)
  BY <1>1, <1>2, ElementsButLast DEF Texts
<1>4. TokensOf(p) \in Nat
  BY <1>2, <1>3, TokensAreNat
<1> HIDE DEF p
<1>5. carried' \in Texts /\ Elements(carried') \subseteq Elements(carried) \cup {p}
  BY <1>1, <1>2, <1>3, ElementsCons DEF Texts
<1>6. TypeOK'
  BY <1>1, <1>3, <1>4, <1>5, SameDomains DEF IndInv, TypeOK, split
<1>7. PackOK'
  BY <1>1, <1>3, <1>5 DEF IndInv, PackOK, Owned
<1>8. SplitOK' /\ PhasesOK'
  BY <1>1 DEF SplitOK, PhasesOK
<1>9. SectionsOK' /\ ChunksOK'
  BY <1>1, Frames
<1>10. NoneMissing'
  <2> SUFFICES ASSUME NEW i \in DOMAIN item.blocks, Wanted(item, i) PROVE OnItsWay(i)'
    BY <1>1 DEF NoneMissing
  <2>1. OnItsWay(i)
    BY <1>1, Frames
  <2> QED  BY <1>1, <2>1 DEF OnItsWay
<1> QED  BY <1>6, <1>7, <1>8, <1>9, <1>10 DEF IndInv

LEMMA CarryEndStep ==
    ASSUME IndInv, CarryEnd
    PROVE  IndInv'
<1> DEFINE p == Head(todo)
<1>1. /\ item' = item /\ pc = "carry" /\ pc' = "pack" /\ todo # << >>
      /\ current' = Append(carried, p) /\ tokens' = total + TokensOf(p)
      /\ todo' = Tail(todo) /\ carry' = carry
      /\ section' = section /\ sections' = sections /\ chunks' = chunks /\ split' = split
  BY DEF CarryEnd, IndInv, TypeOK
<1>2. /\ IsItem(item) /\ p \in BlockNumbers /\ Tail(todo) \in Texts /\ carried \in Texts
      /\ Elements(todo) = {p} \cup Elements(Tail(todo)) /\ TokensOf(p) \in Nat
      /\ item.type = "doc" => /\ Owned(item.blocks, Tail(todo), section)
                              /\ Owned(item.blocks, <<p>>, section)
  BY <1>1, Packing
<1> HIDE DEF p
<1>3. current' \in Texts /\ Elements(current') = Elements(carried) \cup {p}
  BY <1>1, <1>2, ElementsAppend DEF Texts
<1>4. TypeOK'
  BY <1>1, <1>2, <1>3, SameDomains DEF IndInv, TypeOK, split, carry
<1>5. PackOK'
  <2>1. ASSUME item.type = "doc" PROVE Owned(item.blocks, current', section)
    <3>1. Owned(item.blocks, carried, section)
      BY <1>1, <2>1 DEF IndInv, PackOK
    <3> QED  BY <1>1, <1>2, <2>1, <3>1, OwnedAppend DEF Texts
  <2> QED  BY <1>1, <1>2, <2>1 DEF PackOK
<1>6. SplitOK' /\ PhasesOK'
  BY <1>1 DEF SplitOK, PhasesOK
<1>7. SectionsOK' /\ ChunksOK'
  BY <1>1, Frames
<1>8. NoneMissing'
  <2> SUFFICES ASSUME NEW i \in DOMAIN item.blocks, Wanted(item, i) PROVE OnItsWay(i)'
    BY <1>1 DEF NoneMissing
  <2>1. OnItsWay(i)
    BY <1>1, Frames
  <2> QED  BY <1>1, <1>2, <1>3, <2>1 DEF OnItsWay
<1> QED  BY <1>4, <1>5, <1>6, <1>7, <1>8 DEF IndInv

LEMMA PackEndStep ==
    ASSUME IndInv, PackEnd
    PROVE  IndInv'
<1>1. /\ item' = item /\ pc = "pack" /\ pc' = "sections" /\ todo = << >> /\ todo' = todo
      /\ current' = << >> /\ tokens' = 0
      /\ section' = section /\ sections' = sections /\ split' = split /\ carry' = carry
      /\ chunks' = IF current = << >> THEN chunks ELSE Append(chunks, Chunk(current, section))
  BY DEF PackEnd
<1>2. /\ chunks' \in Seq(Chunks) /\ ChunksOK'
      /\ \A i \in DOMAIN item.blocks :
            Wanted(item, i) /\ (i \in Elements(current) \/ InChunks(item, chunks, i))
               => InChunks(item, chunks', i)
  <2>1. CASE current = << >>
    BY <1>1, <2>1, Frames, ElementsEmpty DEF IndInv, TypeOK
  <2>2. CASE current # << >>
    BY <1>1, <2>2, Closed
  <2> QED  BY <2>1, <2>2
<1>3. TypeOK'
  <2>1. << >> \in Texts
    BY DEF Texts
  <2> QED  BY <1>1, <1>2, <2>1, SameDomains DEF IndInv, TypeOK, split, carry
<1>4. PackOK' /\ SplitOK' /\ PhasesOK'
  BY <1>1 DEF PackOK, SplitOK, PhasesOK
<1>5. SectionsOK'
  BY <1>1, Frames
<1>6. NoneMissing'
  <2> SUFFICES ASSUME NEW i \in DOMAIN item.blocks, Wanted(item, i) PROVE OnItsWay(i)'
    BY <1>1 DEF NoneMissing
  <2>1. OnItsWay(i) /\ Elements(todo) = {}
    BY <1>1, Frames, ElementsEmpty
  <2> QED  BY <1>1, <1>2, <2>1 DEF OnItsWay
<1> QED  BY <1>2, <1>3, <1>4, <1>5, <1>6 DEF IndInv

-----------------------------------------------------------------------------
(* The loop over the sections, and the labels                              *)

LEMMA SectionStep ==
    ASSUME IndInv, SkipSection \/ OpenSection
    PROVE  IndInv'
<1> DEFINE s == Head(sections)
           S == [heading : Headings, body : Texts]
<1>1. /\ item' = item /\ pc = "sections" /\ sections # << >> /\ sections' = Tail(sections)
      /\ chunks' = chunks /\ split' = split /\ carry' = carry
      /\ current' = current /\ tokens' = tokens /\ IsItem(item)
      /\ sections \in Seq(S) /\ todo = << >> /\ current = << >>
      /\ \A n \in DOMAIN sections : Owned(item.blocks, sections[n].body, sections[n].heading)
  BY DEF SkipSection, OpenSection, IndInv, TypeOK, SectionsOK, pack
<1>2. \/ pc' = "sections" /\ s.body = << >> /\ todo' = todo /\ section' = section
      \/ pc' = "pack" /\ todo' = s.body /\ section' = s.heading
  BY <1>1 DEF SkipSection, OpenSection, pack
<1>3. /\ \A i : InSections(sections, i) => i \in Elements(s.body) \/ InSections(sections', i)
      /\ Owned(item.blocks, s.body, s.heading)
      /\ \A n \in DOMAIN sections' :
            Owned(item.blocks, sections'[n].body, sections'[n].heading)
  BY <1>1, SectionsTail
<1>4. s \in S /\ s.body \in Texts /\ s.heading \in Headings /\ sections' \in Seq(S)
  <2> HIDE DEF S
  <2>1. Head(sections) \in S /\ Tail(sections) \in Seq(S)
    BY <1>1
  <2>2. s \in S /\ sections' \in Seq(S)
    BY <1>1, <2>1
  <2> HIDE DEF s
  <2> QED  BY <2>2 DEF S
<1> HIDE DEF s, S
<1>5. TypeOK'
  BY <1>1, <1>2, <1>4, SameDomains DEF IndInv, TypeOK, split, carry, S
<1>6. PackOK' /\ SplitOK' /\ PhasesOK'
  <2>1. Owned(item.blocks, << >>, s.heading)
    BY ElementsEmpty DEF Owned
  <2> QED  BY <1>1, <1>2, <1>3, <2>1 DEF PackOK, SplitOK, PhasesOK
<1>7. SectionsOK'
  BY <1>1, <1>3 DEF SectionsOK
<1>8. ChunksOK'
  BY <1>1, Frames
<1>9. NoneMissing'
  <2> SUFFICES ASSUME NEW i \in DOMAIN item.blocks, Wanted(item, i) PROVE OnItsWay(i)'
    BY <1>1 DEF NoneMissing
  <2>1. InSections(sections, i) \/ InChunks(item, chunks, i)
    BY <1>1, Frames DEF OnItsWay
  <2>2. s.body = << >> => i \notin Elements(s.body)
    BY ElementsEmpty
  <2> QED  BY <1>1, <1>2, <1>3, <2>1, <2>2 DEF OnItsWay
<1> QED  BY <1>5, <1>6, <1>7, <1>8, <1>9 DEF IndInv

LEMMA SectionsEndStep ==
    ASSUME IndInv, SectionsEnd
    PROVE  IndInv'
<1> DEFINE bare == item.type = "doc" /\ chunks = << >> /\ item.blocks # << >>
           c == Chunk(AllBlocks, None)
<1>1. /\ item' = item /\ IsItem(item) /\ pc = "sections" /\ pc' = "label"
      /\ sections = << >> /\ sections' = sections /\ section' = section
      /\ split' = split /\ pack' = pack /\ carry' = carry
      /\ chunks' = IF bare THEN <<c>> ELSE chunks
  BY DEF SectionsEnd, IndInv, TypeOK
<1>2. AllBlocks \in Texts /\ Elements(AllBlocks) = BlockNumbers
  BY <1>1, AllBlocksText
<1>3. c \in Chunks /\ c.text = AllBlocks /\ c.section = None
  BY <1>2 DEF Chunk, Chunks, Headings
<1>4. \A i \in DOMAIN item.blocks : Wanted(item, i) => InChunks(item, chunks, i)
  <2>1. ASSUME NEW i \in DOMAIN item.blocks, Wanted(item, i) PROVE InChunks(item, chunks, i)
    <3>1. OnItsWay(i) /\ ~InSections(sections, i)
      BY <1>1, <2>1, Frames DEF InSections
    <3> QED  BY <1>1, <3>1 DEF OnItsWay
  <2> QED  BY <2>1
<1>5. chunks = << >> => \A i \in DOMAIN item.blocks : ~Wanted(item, i)
  BY <1>4 DEF InChunks
<1> HIDE DEF c
<1>6. <<c>> \in Seq(Chunks) /\ DOMAIN <<c>> = {1} /\ <<c>>[1] = c /\ <<c>> # << >>
  BY <1>3
<1>7. chunks' \in Seq(Chunks)
  BY <1>1, <1>6 DEF IndInv, TypeOK
<1>8. TypeOK'
  BY <1>1, <1>7, SameDomains DEF IndInv, TypeOK, split, pack, carry
<1>9. ChunksOK'
  <2>1. CASE bare
    <3>1. Clean(item, c)
      BY <1>2, <1>3, <1>5, <2>1 DEF Clean, Wanted, BlockNumbers
    <3> QED  BY <1>1, <1>6, <2>1, <3>1 DEF ChunksOK
  <2>2. CASE ~bare
    BY <1>1, <2>2, Frames
  <2> QED  BY <2>1, <2>2
<1>10. NoneMissing'
  BY <1>1, <1>4, <1>5 DEF NoneMissing, OnItsWay
<1>11. PhasesOK'
  <2>1. item.blocks # << >> => chunks' # << >>
    <3>1. ASSUME item.blocks # << >>, item.type = "faq" PROVE chunks # << >>
      <4>1. 1 \in DOMAIN item.blocks
        BY <1>1, <3>1 DEF IsItem
      <4> QED  BY <1>5, <3>1, <4>1 DEF Wanted
    <3> QED  BY <1>1, <1>6, <3>1 DEF IsItem
  <2> QED  BY <1>1, <2>1 DEF PhasesOK
<1>12. SplitOK' /\ PackOK'
  BY <1>1 DEF SplitOK, PackOK
<1>13. SectionsOK'
  BY <1>1, Frames
<1> QED  BY <1>8, <1>9, <1>10, <1>11, <1>12, <1>13 DEF IndInv

LEMMA LabelStep ==
    ASSUME IndInv, Label
    PROVE  IndInv'
<1>1. /\ item' = item /\ pc = "label" /\ pc' = "done"
      /\ sections' = sections /\ section' = section
      /\ split' = split /\ pack' = pack /\ carry' = carry
      /\ chunks' = [n \in DOMAIN chunks |-> [chunks[n] EXCEPT !.opens = Opening(chunks[n])]]
  BY DEF Label
<1>2. chunks \in Seq(Chunks)
  BY DEF IndInv, TypeOK
<1>3. /\ DOMAIN chunks' = DOMAIN chunks /\ DOMAIN chunks = 1 .. Len(chunks)
      /\ Len(chunks) \in Nat
  BY <1>1, <1>2
<1>4. \A n \in DOMAIN chunks : /\ chunks'[n].text = chunks[n].text
                              /\ chunks'[n].section = chunks[n].section
                              /\ chunks'[n] \in Chunks
  <2> SUFFICES ASSUME NEW n \in DOMAIN chunks
               PROVE  /\ chunks'[n].text = chunks[n].text
                      /\ chunks'[n].section = chunks[n].section
                      /\ chunks'[n] \in Chunks
    OBVIOUS
  <2>1. chunks[n] \in Chunks
    BY <1>2
  <2>2. Opening(chunks[n]) \in {"own", "title", "title and section"}
    BY DEF Opening, PrefixOf
  <2>3. chunks'[n] = [chunks[n] EXCEPT !.opens = Opening(chunks[n])]
    BY <1>1
  <2> QED  BY <2>1, <2>2, <2>3 DEF Chunks
<1>5. chunks' \in Seq(Chunks)
  <2>1. chunks' \in [1 .. Len(chunks) -> Chunks]
    BY <1>1, <1>3, <1>4
  <2> QED  BY <1>3, <2>1
<1>6. TypeOK'
  BY <1>1, <1>5, SameDomains DEF IndInv, TypeOK, split, pack, carry
<1>7. ChunksOK'
  BY <1>1, <1>3, <1>4 DEF IndInv, ChunksOK, Clean
<1>8. NoneMissing'
  <2> SUFFICES ASSUME NEW i \in DOMAIN item.blocks, Wanted(item, i) PROVE OnItsWay(i)'
    BY <1>1 DEF NoneMissing
  <2>1. OnItsWay(i)
    BY <1>1, Frames
  <2>2. InChunks(item, chunks, i) => InChunks(item, chunks', i)
    BY <1>3, <1>4 DEF InChunks, Keeps
  <2> QED  BY <1>1, <2>1, <2>2 DEF OnItsWay
<1>9. PhasesOK'
  <2>1. chunks # << >> => chunks' # << >>
    BY <1>2, <1>3, <1>5
  <2> QED  BY <1>1, <2>1 DEF IndInv, PhasesOK
<1>10. SplitOK' /\ PackOK'
  BY <1>1 DEF SplitOK, PackOK
<1>11. SectionsOK'
  BY <1>1, Frames
<1> QED  BY <1>6, <1>7, <1>8, <1>9, <1>10, <1>11 DEF IndInv

-----------------------------------------------------------------------------
(* The theorems                                                            *)

LEMMA IndInvStep == IndInv /\ [Next]_vars => IndInv'
<1> SUFFICES ASSUME IndInv, [Next]_vars PROVE IndInv'
  OBVIOUS
<1>1. CASE UNCHANGED vars
  <2>1. TypeOK' /\ PhasesOK' /\ SplitOK'
    BY <1>1, SameDomains DEF IndInv, TypeOK, PhasesOK, SplitOK, vars, split, pack, carry
  <2>2. SectionsOK' /\ PackOK' /\ ChunksOK' /\ NoneMissing'
    BY <1>1 DEF IndInv, SectionsOK, PackOK, ChunksOK, NoneMissing, OnItsWay, vars, split, pack,
                carry
  <2> QED  BY <2>1, <2>2 DEF IndInv
<1>2. CASE Next
  BY <1>2, StartStep, SplitParagraphStep, SplitHeadingStep, SplitEndStep, SectionStep,
     SectionsEndStep, PackAppendStep, PackCloseStep, CarryMoreStep, CarryEndStep, PackEndStep,
     LabelStep DEF Next
<1> QED  BY <1>1, <1>2

\* The inductive invariant of the chunker.
THEOREM ChunkerInvariance == Spec => []IndInv
<1> QED  BY IndInvInit, IndInvStep, PTL DEF Spec

\* The chunker's variables stay in their domains.
THEOREM ChunkerTyped == Spec => []TypeOK
<1>1. IndInv => TypeOK
  BY DEF IndInv
<1> QED  BY <1>1, ChunkerInvariance, PTL

\* No paragraph, no answer and no document is lost.
THEOREM ChunkerKeepsAll == Spec => []NothingLost
<1> QED  BY Consequences, ChunkerInvariance, PTL

\* No paragraph is put under a heading that is not its own.
THEOREM ChunkerKeepsHeadings == Spec => []UnderOwnHeading
<1> QED  BY Consequences, ChunkerInvariance, PTL

-----------------------------------------------------------------------------
(* Sums of tokens                                                          *)

\* Some natural numbers have a least one.
LEMMA LeastOfSome ==
    ASSUME NEW T \in SUBSET Nat, T # {}
    PROVE  \E m \in T : \A k \in T : m <= k
<1>1. PICK m \in T : \A k \in T : ~(<<k, m>> \in OpToRel(<, Nat))
  BY NatLessThanWellFounded, WFMin
<1>2. \A k \in T : ~(k < m)
  BY <1>1 DEF OpToRel
<1> QED  BY <1>2

\* Numbers can be summed up.
LEMMA SumsExist ==
    ASSUME NEW L \in Nat, NEW w \in [1 .. L -> Nat]
    PROVE  \E f \in [0 .. L -> Nat] :
               f[0] = 0 /\ \A n \in 1 .. L : f[n] = f[n - 1] + w[n]
<1> DEFINE IsSum(f, m) == /\ f \in [0 .. m -> Nat] /\ f[0] = 0
                          /\ \A n \in 1 .. m : f[n] = f[n - 1] + w[n]
           T == {m \in 0 .. L : ~\E f : IsSum(f, m)}
<1>0. T \in SUBSET (0 .. L) /\ \A m \in 0 .. L : m \notin T => \E f : IsSum(f, m)
  OBVIOUS
<1>1. ASSUME NEW m \in T, \A k \in T : m <= k PROVE FALSE
  <2>1. CASE m = 0
    <3> DEFINE f == [n \in {0} |-> 0]
    <3>1. 0 .. 0 = {0} /\ 1 .. 0 = {}
      OBVIOUS
    <3>2. f \in [{0} -> Nat] /\ f[0] = 0
      OBVIOUS
    <3> HIDE DEF f
    <3>3. IsSum(f, 0)
      BY <3>1, <3>2
    <3> QED  BY <2>1, <3>3
  <2>2. CASE m # 0
    <3>1. m \in 1 .. L /\ m - 1 \in 0 .. L /\ m - 1 \notin T
      <4> HIDE DEF T
      <4> QED  BY <1>0, <1>1, <2>2
    <3>2. PICK f : IsSum(f, m - 1)
      BY <1>0, <3>1, Zenon
    <3> DEFINE g == [n \in 0 .. m |-> IF n = m THEN f[m - 1] + w[m] ELSE f[n]]
    <3>3. /\ g[0] = 0 /\ g[m] = f[m - 1] + w[m]
          /\ \A n \in 0 .. (m - 1) : g[n] = f[n]
      BY <3>1, <3>2
    <3>4. g \in [0 .. m -> Nat]
      BY <3>1, <3>2
    <3> HIDE DEF g
    <3>5. \A n \in 1 .. m : g[n] = g[n - 1] + w[n]
      <4>1. ASSUME NEW n \in 1 .. m PROVE g[n] = g[n - 1] + w[n]
        <5>1. CASE n = m
          BY <3>1, <3>3, <5>1
        <5>2. CASE n # m
          <6>1. /\ n \in 1 .. (m - 1) /\ n - 1 \in 0 .. (m - 1)
                /\ n \in 0 .. (m - 1)
            BY <3>1, <5>2
          <6>2. f[n] = f[n - 1] + w[n]
            BY <3>2, <6>1
          <6>3. g[n] = f[n] /\ g[n - 1] = f[n - 1]
            BY <3>3, <6>1
          <6> QED  BY <6>2, <6>3
        <5> QED  BY <5>1, <5>2
      <4> QED  BY <4>1
    <3>6. IsSum(g, m)
      BY <3>3, <3>4, <3>5
    <3> QED  BY <3>6
  <2> QED  BY <2>1, <2>2
<1>2. T = {}
  <2>1. T \in SUBSET Nat
    OBVIOUS
  <2> HIDE DEF T
  <2> QED  BY <1>1, <2>1, LeastOfSome
<1>3. L \in 0 .. L
  OBVIOUS
<1> QED  BY <1>2, <1>3

Weight(bs, i) == CountTokens(bs[i].len)

\* The tokens of the first n blocks, for each n.
Running(bs) == CHOOSE f \in [0 .. Len(bs) -> Nat] :
                   f[0] = 0 /\ \A n \in 1 .. Len(bs) : f[n] = f[n - 1] + Weight(bs, n)

\* SumOfTokens of a text of the blocks bs.
Cost(bs, text) ==
    LET upTo[n \in 0 .. Len(text)] ==
            IF n = 0 THEN 0 ELSE upTo[n - 1] + CountTokens(bs[text[n]].len)
    IN  upTo[Len(text)]

\* A block weighs a natural number of tokens.
LEMMA WeightIsNat ==
    ASSUME NEW bs \in Seq(Blocks), NEW i \in DOMAIN bs
    PROVE  Weight(bs, i) \in Nat
<1>1. bs[i] \in Blocks
  OBVIOUS
<1> DEFINE b == bs[i]
<1> HIDE DEF b
<1>2. b \in Blocks => b.len \in Nat
  BY DEF Blocks
<1>3. bs[i].len \in Nat
  BY <1>1, <1>2 DEF b
<1> QED  BY <1>3 DEF Weight, CountTokens

\* The cumulative sums are what their recursion says.
LEMMA RunningIs ==
    ASSUME NEW bs \in Seq(Blocks)
    PROVE  /\ Running(bs) \in [0 .. Len(bs) -> Nat] /\ Running(bs)[0] = 0
           /\ \A n \in 1 .. Len(bs) : Running(bs)[n] = Running(bs)[n - 1] + Weight(bs, n)
<1> DEFINE L == Len(bs)
           w == [n \in 1 .. L |-> Weight(bs, n)]
<1>1. L \in Nat /\ w \in [1 .. L -> Nat]
  BY WeightIsNat
<1>2. PICK f \in [0 .. L -> Nat] : f[0] = 0 /\ \A n \in 1 .. L : f[n] = f[n - 1] + w[n]
  <2> HIDE DEF L, w
  <2> QED  BY <1>1, SumsExist
<1>3. \A n \in 1 .. L : f[n] = f[n - 1] + Weight(bs, n)
  BY <1>2
<1>4. \E g \in [0 .. L -> Nat] : g[0] = 0 /\ \A n \in 1 .. L : g[n] = g[n - 1] + Weight(bs, n)
  BY <1>2, <1>3
<1> QED  BY <1>4, Zenon DEF Running

\* The first blocks of a text, summed up.
LEMMA CostIsSum ==
    ASSUME NEW bs \in Seq(Blocks), NEW text \in Seq(DOMAIN bs)
    PROVE  \E f : /\ f[0] = 0 /\ Cost(bs, text) = f[Len(text)]
                  /\ \A n \in 1 .. Len(text) : f[n] = f[n - 1] + Weight(bs, text[n])
<1> DEFINE L == Len(text)
           w == [n \in 1 .. L |-> Weight(bs, text[n])]
           up == CHOOSE f : f = [n \in 0 .. L |->
                     IF n = 0 THEN 0 ELSE f[n - 1] + CountTokens(bs[text[n]].len)]
<1>1. L \in Nat /\ w \in [1 .. L -> Nat]
  <2>1. \A n \in 1 .. L : text[n] \in DOMAIN bs
    OBVIOUS
  <2> QED  BY <2>1, WeightIsNat
<1>2. PICK f \in [0 .. L -> Nat] : f[0] = 0 /\ \A n \in 1 .. L : f[n] = f[n - 1] + w[n]
  <2> HIDE DEF L, w
  <2> QED  BY <1>1, SumsExist
<1>3. \A n \in 1 .. L : f[n] = f[n - 1] + CountTokens(bs[text[n]].len)
  BY <1>2 DEF Weight
<1>4. f = [n \in 0 .. L |-> IF n = 0 THEN 0 ELSE f[n - 1] + CountTokens(bs[text[n]].len)]
  <2>1. \A n \in 0 .. L : f[n] = IF n = 0 THEN 0 ELSE f[n - 1] + CountTokens(bs[text[n]].len)
    BY <1>1, <1>2, <1>3
  <2> HIDE DEF L
  <2> QED  BY <1>2, <2>1
<1>5. up = [n \in 0 .. L |-> IF n = 0 THEN 0 ELSE up[n - 1] + CountTokens(bs[text[n]].len)]
  BY <1>4
<1>6. Cost(bs, text) = up[L]
  BY DEF Cost
<1> HIDE DEF up
<1>7. /\ up[0] = 0
      /\ \A n \in 1 .. L : up[n] = up[n - 1] + Weight(bs, text[n])
  <2>1. \A n \in 0 .. L : up[n] = IF n = 0 THEN 0 ELSE up[n - 1] + CountTokens(bs[text[n]].len)
    BY <1>5
  <2> QED  BY <1>1, <2>1 DEF Weight
<1> QED  BY <1>6, <1>7

\* A run of neighbours costs what the sums around it differ by.
IsRun(s) == \A m \in DOMAIN s : s[m] = s[1] + m - 1

\* The tokens of a run are a difference of two of the sums.
LEMMA CostOfRun ==
    ASSUME NEW bs \in Seq(Blocks), NEW text \in Seq(DOMAIN bs), IsRun(text), text # << >>
    PROVE  Cost(bs, text) = Running(bs)[LastOf(text)] - Running(bs)[text[1] - 1]
<1> DEFINE L == Len(text)
           a == text[1]
           F == Running(bs)
<1>1. PICK f : /\ f[0] = 0 /\ Cost(bs, text) = f[L]
               /\ \A n \in 1 .. L : f[n] = f[n - 1] + Weight(bs, text[n])
  BY CostIsSum
<1>2. /\ L \in Nat \ {0} /\ a \in 1 .. Len(bs) /\ Len(bs) \in Nat
      /\ \A n \in 1 .. L : text[n] = a + n - 1 /\ text[n] \in 1 .. Len(bs)
      /\ LastOf(text) = a + L - 1
  BY SMTT(40) DEF IsRun, LastOf
<1>3. /\ F \in [0 .. Len(bs) -> Nat]
      /\ \A n \in 1 .. Len(bs) : F[n] = F[n - 1] + Weight(bs, n) /\ Weight(bs, n) \in Nat
  <2>1. DOMAIN bs = 1 .. Len(bs)
    OBVIOUS
  <2> QED  BY <2>1, RunningIs, WeightIsNat, Zenon
<1> DEFINE T == {n \in 0 .. L : f[n] # F[a - 1 + n] - F[a - 1]}
<1> HIDE DEF L, a, F
<1>0. /\ T \in SUBSET Nat
      /\ \A n \in 0 .. L : n \notin T => f[n] = F[a - 1 + n] - F[a - 1]
      /\ \A n \in T : n \in 0 .. L /\ f[n] # F[a - 1 + n] - F[a - 1]
  BY <1>2
<1> HIDE DEF T
<1>4. ASSUME NEW n \in T, \A k \in T : n <= k PROVE FALSE
  <2>0. n \in 0 .. L /\ a - 1 \in 0 .. Len(bs) /\ F[a - 1] \in Nat
    <3>1. n \in 0 .. L
      BY <1>0
    <3>2. a - 1 \in 0 .. Len(bs)
      BY <1>2
    <3> QED  BY <1>3, <3>1, <3>2
  <2>1. CASE n = 0
    <3>1. a - 1 + n = a - 1
      BY <1>2, <2>1
    <3>2. F[a - 1 + n] - F[a - 1] = 0
      BY <2>0, <3>1
    <3> QED  BY <1>0, <1>1, <2>1, <3>2
  <2>2. CASE n # 0
    <3>1. n \in 1 .. L /\ n - 1 \in 0 .. L /\ n - 1 \notin T
      BY <1>2, <1>4, <2>0, <2>2
    <3>2. f[n - 1] = F[a - 1 + (n - 1)] - F[a - 1]
      BY <1>0, <3>1
    <3>3. PICK i \in 1 .. Len(bs) : i = a + n - 1 /\ text[n] = i
      BY <1>2, <3>1
    <3>4. f[n] = f[n - 1] + Weight(bs, i) /\ F[i] = F[i - 1] + Weight(bs, i)
      BY <1>1, <1>3, <3>1, <3>3
    <3>5. a - 1 + (n - 1) = i - 1 /\ a - 1 + n = i
      BY <1>2, <2>0, <3>3
    <3>6. F[i - 1] \in Nat /\ Weight(bs, i) \in Nat
      <4>1. i - 1 \in 0 .. Len(bs)
        BY <1>2, <3>3
      <4> QED  BY <1>3, <3>3, <4>1
    <3>7. f[n] = F[i] - F[a - 1]
      <4>1. f[n - 1] = F[i - 1] - F[a - 1]
        BY <3>2, <3>5
      <4> QED  BY <2>0, <3>4, <3>6, <4>1
    <3> QED  BY <1>0, <3>5, <3>7
  <2> QED  BY <2>1, <2>2
<1>5. T = {}
  BY <1>0, <1>4, LeastOfSome
<1>6. f[L] = F[a - 1 + L] - F[a - 1] /\ a - 1 + L = a + L - 1
  <2>1. L \in 0 .. L /\ L \notin T
    BY <1>2, <1>5
  <2>2. f[L] = F[a - 1 + L] - F[a - 1]
    BY <1>0, <2>1
  <2> QED  BY <1>2, <2>2
<1> QED  BY <1>1, <1>2, <1>6 DEF F, a

\* Nothing costs nothing.
LEMMA CostOfNothing == ASSUME NEW bs \in Seq(Blocks) PROVE Cost(bs, << >>) = 0
<1>1. << >> \in Seq(DOMAIN bs) /\ Len(<< >>) = 0
  OBVIOUS
<1> QED  BY <1>1, CostIsSum

\* SumOfTokens is the cost.
LEMMA SumIsCost == \A text : SumOfTokens(text) = Cost(item.blocks, text)
BY DEF SumOfTokens, Cost, TokensOf, Block

-----------------------------------------------------------------------------
(* The order of the blocks: the inductive invariant.  Its parts are about  *)
(* the sums F of the item's tokens, texts, chunks cs and sections ss.      *)

\* The blocks of a text cost what the sums F around it differ by.
Between(F, text) == F[LastOf(text)] - F[text[1] - 1]

\* A blank place at least lies between a text and one that comes later.
Apart(text, later) ==
    text # << >> /\ later # << >> => LastOf(text) + 1 < later[1]

\* A piece that begins anew, and one that goes on with what fits the overlap of
\* the full piece before it.
Begins(F, budget, before, text) ==
    /\ Apart(before, text)
    /\ Between(F, text) <= budget \/ LastOf(text) = text[1]

GoesOn(F, budget, overlap, before, text) ==
    /\ before # << >>
    /\ before[1] <= text[1] /\ text[1] <= LastOf(before) + 1
    /\ LastOf(before) < LastOf(text)
    /\ F[LastOf(before)] - F[text[1] - 1] <= overlap
    /\ F[LastOf(before) + 1] - F[before[1] - 1] > budget
    /\ Between(F, text) <= budget \/ LastOf(text) = LastOf(before) + 1

Piece(F, budget, overlap, before, text) ==
    /\ text # << >> /\ IsRun(text)
    /\ \/ Begins(F, budget, before, text)
       \/ GoesOn(F, budget, overlap, before, text)

\* The text of the chunk before the n-th.
TextBefore(cs, n) == IF n = 1 THEN << >> ELSE cs[n - 1].text
LastText(cs) == TextBefore(cs, Len(cs) + 1)

Chain(F, budget, overlap, cs) ==
    \A n \in DOMAIN cs : Piece(F, budget, overlap, TextBefore(cs, n), cs[n].text)

\* The sections are runs of blocks, with a heading at least between two.
RunsApart(ss) ==
    /\ \A n \in DOMAIN ss : IsRun(ss[n].body)
    /\ \A n, m \in DOMAIN ss : n < m => Apart(ss[n].body, ss[m].body)

\* A text ends before the sections begin.
EndsBefore(text, ss) == \A n \in DOMAIN ss : Apart(text, ss[n].body)

Upto == Running(item.blocks)

\* The section being read is a run that ends here.
SplitRuns ==
    /\ pc \in {"start", "split"} => chunks = << >>
    /\ pc = "split" =>
          /\ IsRun(buffer) /\ (buffer # << >> => LastOf(buffer) + 1 = at)
          /\ \A n \in DOMAIN sections :
                Apart(sections[n].body, IF buffer = << >> THEN <<at>> ELSE buffer)

\* What is packed is ahead of what is in hand, and that of what is left.
SectionRuns ==
    /\ RunsApart(sections)
    /\ pc \in {"sections", "pack", "carry"} =>
          /\ EndsBefore(LastText(chunks), sections) /\ EndsBefore(todo, sections)
          /\ pc = "pack" => EndsBefore(current, sections)

\* The piece being filled, and the paragraphs that come next.
Filling(F, budget, overlap, last, piece, size, next) ==
    /\ IsRun(piece) /\ IsRun(next)
    /\ piece = << >> => Apart(last, next) /\ size = 0
    /\ piece # << >> => /\ Piece(F, budget, overlap, last, piece)
                        /\ size = Between(F, piece)
                        /\ next # << >> => next[1] = LastOf(piece) + 1

\* Of the full piece, what is left to look at and what is carried over.
Carrying(F, budget, overlap, last, left, over, size, next) ==
    LET start == IF over = << >> THEN LastOf(last) + 1 ELSE over[1]
    IN  /\ last # << >> /\ IsRun(left) /\ IsRun(over) /\ IsRun(next)
        /\ next # << >> /\ next[1] = LastOf(last) + 1
        /\ over # << >> => LastOf(over) = LastOf(last)
        /\ last[1] <= start /\ start <= LastOf(last) + 1
        /\ left # << >> => left[1] = last[1] /\ LastOf(left) + 1 = start
        /\ size = F[LastOf(last)] - F[start - 1] /\ size <= overlap
        /\ F[LastOf(last) + 1] - F[last[1] - 1] > budget

PackRuns ==
    /\ pc = "pack" =>
          Filling(Upto, Budget, Overlap, LastText(chunks), current, tokens, todo)
    /\ pc = "carry" =>
          Carrying(Upto, Budget, Overlap, LastText(chunks), current, carried, total, todo)

\* The chunks follow one another; or the whole item is one.
ChunkRuns ==
    \/ Chain(Upto, Budget, Overlap, chunks)
    \/ pc \in {"label", "done"} /\ Len(chunks) = 1 /\ IsRun(chunks[1].text)

OrderInv == SplitRuns /\ SectionRuns /\ PackRuns /\ ChunkRuns

-----------------------------------------------------------------------------
(* Runs of neighbouring blocks                                             *)

\* No block at all is a run.
LEMMA RunOfNothing == IsRun(<< >>)
BY DEF IsRun

\* A run is known by its ends.
LEMMA RunEnds ==
    ASSUME NEW S \in SUBSET Nat, NEW s \in Seq(S), s # << >>, IsRun(s)
    PROVE  /\ Len(s) \in Nat \ {0} /\ s[1] \in S /\ LastOf(s) \in S
           /\ LastOf(s) = s[1] + Len(s) - 1
           /\ \A m \in 1 .. Len(s) : s[m] = s[1] + m - 1
           /\ Elements(s) = s[1] .. LastOf(s)
<1>1. /\ Len(s) \in Nat \ {0} /\ DOMAIN s = 1 .. Len(s)
      /\ \A m \in 1 .. Len(s) : s[m] \in S
  OBVIOUS
<1>2. /\ s[1] \in S /\ s[1] \in Nat /\ LastOf(s) \in S
      /\ \A m \in 1 .. Len(s) : s[m] = s[1] + m - 1
  <2>1. 1 \in 1 .. Len(s) /\ Len(s) \in 1 .. Len(s)
    BY <1>1
  <2>2. s[1] \in S /\ s[Len(s)] \in S
    BY <1>1, <2>1
  <2> QED  BY <1>1, <2>2 DEF IsRun, LastOf
<1>3. LastOf(s) = s[1] + Len(s) - 1
  BY <1>1, <1>2 DEF LastOf
<1>4. ASSUME NEW x PROVE x \in Elements(s) <=> x \in s[1] .. LastOf(s)
  <2>1. x \in Elements(s) => x \in s[1] .. LastOf(s)
    BY <1>1, <1>2, <1>3 DEF Elements
  <2>2. ASSUME x \in s[1] .. LastOf(s) PROVE x \in Elements(s)
    <3>1. x - s[1] + 1 \in 1 .. Len(s) /\ s[x - s[1] + 1] = x
      BY <1>1, <1>2, <1>3, <2>2
    <3> QED  BY <1>1, <3>1 DEF Elements
  <2> QED  BY <2>1, <2>2
<1>5. Elements(s) = s[1] .. LastOf(s)
  BY <1>4
<1> QED  BY <1>1, <1>2, <1>3, <1>5

\* The block that follows a run can be added to it.
LEMMA RunAppend ==
    ASSUME NEW S \in SUBSET Nat, NEW s \in Seq(S), NEW e \in S, IsRun(s),
           s # << >> => e = LastOf(s) + 1
    PROVE  /\ IsRun(Append(s, e)) /\ Append(s, e) # << >>
           /\ LastOf(Append(s, e)) = e
           /\ Append(s, e)[1] = IF s = << >> THEN e ELSE s[1]
<1> DEFINE w == Append(s, e)
<1>1. /\ w \in Seq(S) /\ w # << >> /\ Len(w) = Len(s) + 1 /\ Len(s) \in Nat
      /\ DOMAIN w = 1 .. Len(s) + 1 /\ w[Len(s) + 1] = e /\ e \in Nat
      /\ \A m \in 1 .. Len(s) : w[m] = s[m]
      /\ s = << >> <=> Len(s) = 0
  <2>1. Len(s) \in Nat /\ e \in Nat /\ (s = << >> <=> Len(s) = 0)
    OBVIOUS
  <2>2. /\ w \in Seq(S) /\ Len(w) = Len(s) + 1 /\ w[Len(s) + 1] = e
        /\ \A m \in 1 .. Len(s) : w[m] = s[m]
    OBVIOUS
  <2> HIDE DEF w
  <2>3. DOMAIN w = 1 .. Len(s) + 1 /\ w # << >>
    BY <2>1, <2>2
  <2> QED  BY <2>1, <2>2, <2>3
<1>2. LastOf(w) = e
  BY <1>1 DEF LastOf
<1> HIDE DEF w
<1>3. w[1] = IF s = << >> THEN e ELSE s[1]
  BY <1>1
<1>4. IsRun(w)
  <2>1. CASE s = << >>
    BY <1>1, <1>3, <2>1 DEF IsRun
  <2>2. CASE s # << >>
    <3>1. /\ s[1] \in Nat /\ LastOf(s) = s[1] + Len(s) - 1
          /\ \A m \in 1 .. Len(s) : s[m] = s[1] + m - 1
      BY <2>2, RunEnds
    <3>2. w[1] = s[1] /\ w[Len(s) + 1] = s[1] + Len(s)
      BY <1>1, <1>3, <2>2, <3>1
    <3>3. ASSUME NEW m \in 1 .. Len(s) + 1 PROVE w[m] = w[1] + m - 1
      <4>1. CASE m = Len(s) + 1
        BY <1>1, <3>1, <3>2, <4>1
      <4>2. CASE m # Len(s) + 1
        <5>1. m \in 1 .. Len(s)
          BY <1>1, <4>2
        <5> QED  BY <1>1, <3>1, <3>2, <5>1
      <4> QED  BY <4>1, <4>2
    <3> QED  BY <1>1, <3>3 DEF IsRun
  <2> QED  BY <2>1, <2>2
<1> QED  BY <1>1, <1>2, <1>3, <1>4 DEF w

\* A run without its first block.
LEMMA RunTail ==
    ASSUME NEW S \in SUBSET Nat, NEW s \in Seq(S), s # << >>, IsRun(s)
    PROVE  /\ IsRun(Tail(s)) /\ Head(s) = s[1]
           /\ Tail(s) # << >> => Tail(s)[1] = s[1] + 1 /\ LastOf(Tail(s)) = LastOf(s)
           /\ Tail(s) = << >> => LastOf(s) = s[1]
<1> DEFINE w == Tail(s)
<1>1. /\ w \in Seq(S) /\ Len(w) = Len(s) - 1 /\ Len(s) \in Nat \ {0} /\ Head(s) = s[1]
      /\ DOMAIN w = 1 .. Len(s) - 1
      /\ \A m \in 1 .. Len(s) - 1 : w[m] = s[m + 1]
      /\ w = << >> <=> Len(w) = 0
  <2>1. /\ w \in Seq(S) /\ Len(w) = Len(s) - 1 /\ Len(s) \in Nat \ {0} /\ Head(s) = s[1]
        /\ \A m \in 1 .. Len(s) - 1 : w[m] = s[m + 1]
    OBVIOUS
  <2> HIDE DEF w
  <2>2. DOMAIN w = 1 .. Len(w) /\ (w = << >> <=> Len(w) = 0)
    BY <2>1
  <2> QED  BY <2>1, <2>2
<1>2. /\ s[1] \in Nat /\ LastOf(s) = s[1] + Len(s) - 1
      /\ \A m \in 1 .. Len(s) : s[m] = s[1] + m - 1
  BY RunEnds
<1> HIDE DEF w
<1>3. \A m \in 1 .. Len(s) - 1 : w[m] = s[1] + m
  <2>1. ASSUME NEW m \in 1 .. Len(s) - 1 PROVE w[m] = s[1] + m
    <3>1. m + 1 \in 1 .. Len(s) /\ s[m + 1] = s[1] + (m + 1) - 1
      BY <1>1, <1>2
    <3> QED  BY <1>1, <1>2, <3>1
  <2> QED  BY <2>1
<1>4. IsRun(w)
  <2>1. ASSUME NEW m \in 1 .. Len(s) - 1 PROVE w[m] = w[1] + m - 1
    <3>1. 1 \in 1 .. Len(s) - 1
      BY <1>1, <2>1
    <3>2. w[1] = s[1] + 1 /\ w[m] = s[1] + m
      BY <1>3, <2>1, <3>1
    <3> QED  BY <1>2, <3>2
  <2> QED  BY <1>1, <2>1 DEF IsRun
<1>5. ASSUME w # << >> PROVE w[1] = s[1] + 1 /\ LastOf(w) = LastOf(s)
  <2>1. Len(w) # 0
    BY <1>1, <1>5
  <2>2. 1 \in 1 .. Len(s) - 1 /\ Len(w) \in 1 .. Len(s) - 1
    BY <1>1, <2>1
  <2>3. w[1] = s[1] + 1 /\ w[Len(w)] = s[1] + Len(w)
    BY <1>3, <2>2
  <2>4. w[Len(w)] = s[1] + Len(s) - 1
    BY <1>1, <1>2, <2>3
  <2> QED  BY <1>2, <2>3, <2>4 DEF LastOf
<1>6. w = << >> => LastOf(s) = s[1]
  <2>1. w = << >> => Len(s) = 1
    BY <1>1
  <2> QED  BY <2>1 DEF LastOf
<1> QED  BY <1>1, <1>4, <1>5, <1>6 DEF w

\* A run without its last block.
LEMMA RunButLast ==
    ASSUME NEW S \in SUBSET Nat, NEW s \in Seq(S), s # << >>, IsRun(s)
    PROVE  /\ IsRun(ButLast(s))
           /\ ButLast(s) # << >> => ButLast(s)[1] = s[1] /\ LastOf(ButLast(s)) + 1 = LastOf(s)
           /\ ButLast(s) = << >> => LastOf(s) = s[1]
<1> DEFINE w == ButLast(s)
<1>1. /\ w \in Seq(S) /\ Len(w) = Len(s) - 1 /\ Len(s) \in Nat \ {0}
      /\ DOMAIN w = 1 .. Len(s) - 1
      /\ \A m \in 1 .. Len(s) - 1 : w[m] = s[m]
      /\ w = << >> <=> Len(w) = 0
  <2>1. Len(s) \in Nat \ {0} /\ DOMAIN s = 1 .. Len(s)
    OBVIOUS
  <2>2. /\ w \in Seq(S) /\ Len(w) = Len(s) - 1
        /\ \A m \in 1 .. Len(s) - 1 : w[m] = s[m]
    BY <2>1 DEF ButLast
  <2> HIDE DEF w
  <2>3. DOMAIN w = 1 .. Len(w) /\ (w = << >> <=> Len(w) = 0)
    BY <2>2
  <2> QED  BY <2>1, <2>2, <2>3
<1>2. /\ s[1] \in Nat /\ LastOf(s) = s[1] + Len(s) - 1
      /\ \A m \in 1 .. Len(s) : s[m] = s[1] + m - 1
  BY RunEnds
<1> HIDE DEF w
<1>0. Len(s) \in Nat /\ Len(w) = Len(s) - 1
  BY <1>1
<1>3. ASSUME NEW m \in 1 .. Len(s) - 1 PROVE w[m] = s[1] + m - 1
  <2>1. m \in 1 .. Len(s) /\ w[m] = s[m]
    BY <1>0, <1>1
  <2> QED  BY <1>2, <2>1
<1>4. IsRun(w)
  BY <1>1, <1>2, <1>3 DEF IsRun
<1>5. ASSUME w # << >> PROVE w[1] = s[1] /\ LastOf(w) + 1 = LastOf(s)
  <2>1. Len(w) # 0
    BY <1>1, <1>5
  <2>2. 1 \in 1 .. Len(s) - 1 /\ Len(w) \in 1 .. Len(s) - 1
    BY <1>1, <2>1
  <2>3. w[1] = s[1] /\ w[Len(w)] = s[1] + Len(w) - 1
    BY <1>2, <1>3, <2>2
  <2>4. s[1] + Len(w) - 1 + 1 = s[1] + Len(s) - 1
    BY <1>0, <1>2
  <2> QED  BY <1>2, <2>3, <2>4 DEF LastOf
<1>6. w = << >> => LastOf(s) = s[1]
  <2>1. w = << >> => Len(s) = 1
    BY <1>1
  <2> QED  BY <2>1 DEF LastOf
<1> QED  BY <1>4, <1>5, <1>6 DEF w

\* The block before a run can be put in front of it.
LEMMA RunCons ==
    ASSUME NEW S \in SUBSET Nat, NEW s \in Seq(S), NEW e \in S, IsRun(s),
           s # << >> => e + 1 = s[1]
    PROVE  /\ IsRun(<<e>> \o s) /\ <<e>> \o s # << >> /\ (<<e>> \o s)[1] = e
           /\ LastOf(<<e>> \o s) = IF s = << >> THEN e ELSE LastOf(s)
<1> DEFINE w == <<e>> \o s
<1>1. <<e>> \in Seq(S) /\ Len(<<e>>) = 1 /\ <<e>>[1] = e /\ Len(s) \in Nat /\ e \in Nat
  OBVIOUS
<1>2. /\ w \in Seq(S) /\ Len(w) = Len(s) + 1 /\ w[1] = e
      /\ DOMAIN w = 1 .. Len(s) + 1
      /\ \A m \in 2 .. Len(s) + 1 : w[m] = s[m - 1]
  BY <1>1
<1> HIDE DEF w
<1>3. s # << >> => \A m \in 1 .. Len(s) : s[m] = e + m
  <2>1. s # << >> => s[1] \in Nat /\ \A m \in 1 .. Len(s) : s[m] = s[1] + m - 1
    BY RunEnds
  <2> QED  BY <1>1, <2>1
<1>4. ASSUME NEW m \in 1 .. Len(s) + 1 PROVE w[m] = e + m - 1
  <2>1. CASE m = 1
    BY <1>1, <1>2, <2>1
  <2>2. CASE m # 1
    <3>1. m \in 2 .. Len(s) + 1 /\ m - 1 \in 1 .. Len(s)
      BY <1>1, <2>2
    <3>2. s # << >>
      BY <1>1, <3>1
    <3>3. s[m - 1] = e + (m - 1)
      BY <1>3, <3>1, <3>2
    <3> QED  BY <1>1, <1>2, <3>1, <3>3
  <2> QED  BY <2>1, <2>2
<1>5. IsRun(w)
  BY <1>1, <1>2, <1>4 DEF IsRun
<1>6. LastOf(w) = IF s = << >> THEN e ELSE LastOf(s)
  <2>1. LastOf(w) = e + Len(s)
    <3>1. Len(s) + 1 \in 1 .. Len(s) + 1
      BY <1>1
    <3>2. w[Len(s) + 1] = e + (Len(s) + 1) - 1
      BY <1>4, <3>1
    <3> QED  BY <1>1, <1>2, <3>2 DEF LastOf
  <2>2. ASSUME s # << >> PROVE LastOf(s) = e + Len(s)
    BY <1>1, <1>3, <2>2 DEF LastOf
  <2>3. s = << >> => Len(s) = 0
    OBVIOUS
  <2> QED  BY <1>1, <2>1, <2>2, <2>3
<1>7. w # << >>
  BY <1>1, <1>2
<1> QED  BY <1>2, <1>5, <1>6, <1>7 DEF w

-----------------------------------------------------------------------------
(* What the order is for                                                   *)

\* The first blocks of a run.
LEMMA RunPrefix ==
    ASSUME NEW S \in SUBSET Nat, NEW s \in Seq(S), s # << >>, IsRun(s),
           NEW r \in 0 .. Len(s)
    PROVE  /\ SubSeq(s, 1, r) \in Seq(S) /\ Len(SubSeq(s, 1, r)) = r
           /\ IsRun(SubSeq(s, 1, r))
           /\ r = 0 => SubSeq(s, 1, r) = << >>
           /\ r # 0 => /\ SubSeq(s, 1, r) # << >> /\ SubSeq(s, 1, r)[1] = s[1]
                       /\ LastOf(SubSeq(s, 1, r)) = s[1] + r - 1
<1> DEFINE w == SubSeq(s, 1, r)
<1>0. Len(s) \in Nat /\ r \in Nat /\ r <= Len(s)
  OBVIOUS
<1>1. w \in Seq(S) /\ Len(w) = r /\ \A m \in 1 .. r : w[m] = s[m]
  BY <1>0
<1> HIDE DEF w
<1>2. DOMAIN w = 1 .. r /\ (w = << >> <=> r = 0)
  BY <1>0, <1>1
<1>3. s[1] \in Nat /\ \A m \in 1 .. Len(s) : s[m] = s[1] + m - 1
  BY RunEnds
<1>4. ASSUME NEW m \in 1 .. r PROVE w[m] = s[1] + m - 1
  <2>1. m \in 1 .. Len(s) /\ w[m] = s[m]
    BY <1>0, <1>1
  <2> QED  BY <1>3, <2>1
<1>5. ASSUME r # 0 PROVE w[1] = s[1] /\ w[r] = s[1] + r - 1
  <2>1. 1 \in 1 .. r /\ r \in 1 .. r
    BY <1>0, <1>5
  <2>2. w[1] = s[1] + 1 - 1 /\ w[r] = s[1] + r - 1
    BY <1>4, <2>1
  <2> QED  BY <1>3, <2>2
<1>6. IsRun(w)
  <2>1. ASSUME NEW m \in 1 .. r PROVE w[m] = w[1] + m - 1
    <3>1. r # 0
      BY <1>0, <2>1
    <3> QED  BY <1>4, <1>5, <3>1
  <2> QED  BY <1>2, <2>1 DEF IsRun
<1> QED  BY <1>1, <1>2, <1>5, <1>6 DEF w, LastOf

\* What a piece has of the one before it: nothing, or the end of that, with which
\* it begins.
LEMMA PieceShares ==
    ASSUME NEW S \in SUBSET Nat, NEW before \in Seq(S), NEW text \in Seq(S),
           NEW F, NEW budget, NEW overlap, IsRun(before),
           Piece(F, budget, overlap, before, text)
    PROVE  LET shared == Elements(text) \cap Elements(before)
               r == Cardinality(shared)
           IN  \/ Begins(F, budget, before, text) /\ shared = {} /\ r = 0
               \/ /\ GoesOn(F, budget, overlap, before, text)
                  /\ shared = text[1] .. LastOf(before)
                  /\ r = LastOf(before) - text[1] + 1 /\ r \in 0 .. Len(text) - 1
<1> DEFINE shared == Elements(text) \cap Elements(before)
           a == text[1]
           b == LastOf(text)
           c == before[1]
           d == LastOf(before)
<1>1. /\ text # << >> /\ IsRun(text)
      /\ Begins(F, budget, before, text) \/ GoesOn(F, budget, overlap, before, text)
  BY DEF Piece
<1>2. /\ a \in Nat /\ b \in Nat /\ Len(text) \in Nat /\ b = a + Len(text) - 1
      /\ Elements(text) = a .. b
  BY <1>1, RunEnds
<1>3. before # << >> => c \in Nat /\ d \in Nat /\ Elements(before) = c .. d
  BY RunEnds
<1>4. CASE Begins(F, budget, before, text)
  <2>1. before # << >> => d + 1 < a
    BY <1>1, <1>4 DEF Begins, Apart
  <2> HIDE DEF a, b, c, d
  <2>2. shared = {}
    <3>1. CASE before = << >>
      BY <3>1, ElementsEmpty
    <3>2. CASE before # << >>
      BY <1>2, <1>3, <2>1, <3>2
    <3> QED  BY <3>1, <3>2
  <2> QED  BY <1>4, <2>2, FS_EmptySet
<1>5. CASE GoesOn(F, budget, overlap, before, text)
  <2>1. before # << >> /\ c <= a /\ a <= d + 1 /\ d < b
    BY <1>5 DEF GoesOn
  <2> HIDE DEF a, b, c, d
  <2>2. shared = a .. d
    BY <1>2, <1>3, <2>1
  <2>3. Cardinality(a .. d) = d - a + 1
    <3>1. a \in Int /\ d \in Int /\ (a > d => d - a + 1 = 0)
      BY <1>2, <1>3, <2>1
    <3>2. Cardinality(a .. d) = IF a > d THEN 0 ELSE d - a + 1
      BY <3>1, FS_Interval
    <3> QED  BY <3>1, <3>2
  <2>4. d - a + 1 \in 0 .. Len(text) - 1
    BY <1>2, <1>3, <2>1
  <2> HIDE DEF shared
  <2>5. Cardinality(shared) = d - a + 1
    BY <2>2, <2>3
  <2> QED  BY <1>5, <2>2, <2>4, <2>5 DEF shared, a, d
<1> QED  BY <1>1, <1>4, <1>5

\* Where a piece of L blocks from a to b meets the one before it, from c to d.
LEMMA PlacesOfNew ==
    ASSUME NEW a \in Nat, NEW b \in Nat, NEW c \in Nat, NEW d \in Nat,
           NEW L \in Nat, NEW N \in Nat, NEW r,
           a >= 1, c >= 1, L >= 1, b = a + L - 1, b <= N,
           c <= a, a <= d + 1, d < b, r = d - a + 1
    PROVE  /\ r \in 0 .. L /\ r + 1 \in 1 .. L /\ b > d
           /\ r # 0 => a + r - 1 = d
           /\ r = 0 => a .. d = {}
           /\ b = d + 1 => L = r + 1
           /\ a + (r + 1) - 1 = d + 1 /\ (d + 1) - 1 = d
           /\ d + 1 \in 1 .. N /\ d \in 0 .. N /\ c - 1 \in 0 .. N
OBVIOUS

\* Where the first blocks of a run lie.
LEMMA PlacesOfFirst ==
    ASSUME NEW a \in Nat, NEW b, NEW L \in Nat, L >= 1, b = a + L - 1
    PROVE  /\ b = a => L = 0 + 1
           /\ \A d \in Nat : d + 1 < a => b > d /\ a # d + 1
OBVIOUS

\* Hence it repeats what fits the overlap, goes on to later blocks, and is neither
\* larger nor smaller than it need be.
LEMMA PieceIsFair ==
    ASSUME NEW bs \in Seq(Blocks), NEW before \in Seq(DOMAIN bs), NEW text \in Seq(DOMAIN bs),
           NEW budget \in Nat, NEW overlap \in Nat, IsRun(before),
           Piece(Running(bs), budget, overlap, before, text)
    PROVE  LET shared == Elements(text) \cap Elements(before)
               repeated == SubSeq(text, 1, Cardinality(shared))
               new == text[Len(repeated) + 1]
           IN  /\ Elements(repeated) = shared
               /\ Cost(bs, repeated) <= overlap
               /\ before # << >> => LastOf(text) > LastOf(before)
               /\ Cost(bs, text) <= budget \/ Len(text) = Len(repeated) + 1
               /\ before # << >> /\ new = LastOf(before) + 1
                     => Cost(bs, before) + Weight(bs, new) > budget
<1> DEFINE F == Running(bs)
           S == DOMAIN bs
           shared == Elements(text) \cap Elements(before)
           r == Cardinality(shared)
           repeated == SubSeq(text, 1, r)
           a == text[1]
           b == LastOf(text)
           c == before[1]
           d == LastOf(before)
           L == Len(text)
           N == Len(bs)
<1>1. S \in SUBSET Nat /\ S = 1 .. N /\ N \in Nat
  OBVIOUS
<1>2. text # << >> /\ IsRun(text)
  BY DEF Piece
<1>3. /\ \/ Begins(F, budget, before, text) /\ shared = {} /\ r = 0
         \/ /\ GoesOn(F, budget, overlap, before, text)
            /\ shared = a .. d /\ r = d - a + 1 /\ r \in 0 .. L - 1
  BY <1>1, PieceShares
<1>4. /\ a \in 1 .. N /\ b \in 1 .. N /\ L \in Nat \ {0}
      /\ b = a + L - 1
      /\ \A m \in 1 .. L : text[m] = a + m - 1
  BY <1>1, <1>2, RunEnds
<1>5. before # << >> => c \in 1 .. N /\ d \in 1 .. N
  BY <1>1, RunEnds
<1>6. Cost(bs, text) = Between(F, text)
  BY <1>2, CostOfRun DEF Between
<1>7. before # << >> => Cost(bs, before) = F[d] - F[c - 1]
  BY CostOfRun
<1>8. /\ \A n \in 0 .. N : F[n] \in Nat
      /\ \A n \in 1 .. N : F[n] = F[n - 1] + Weight(bs, n) /\ Weight(bs, n) \in Nat
  BY <1>1, RunningIs, WeightIsNat
<1> HIDE DEF F, S, a, b, c, d, L, N
<1>0. /\ a \in Nat /\ b \in Nat /\ b = a + L - 1 /\ L \in Nat \ {0}
      /\ a >= 1 /\ b <= N /\ N \in Nat
      /\ before # << >> => c \in Nat /\ d \in Nat /\ c >= 1 /\ d <= N
  <2>1. N \in Nat
    BY <1>1 DEF N
  <2>2. a \in 1 .. N /\ b \in 1 .. N /\ b = a + L - 1 /\ L \in Nat \ {0}
    BY <1>4 DEF N, L
  <2>3. before # << >> => c \in 1 .. N /\ d \in 1 .. N
    BY <1>5 DEF N
  <2> QED  BY <2>1, <2>2, <2>3
<1>9. CASE Begins(F, budget, before, text) /\ shared = {} /\ r = 0
  <2>1. repeated = << >> /\ Len(repeated) = 0
    <3>1. repeated = SubSeq(text, 1, 0)
      BY <1>9
    <3>2. 0 \in 0 .. L
      BY <1>0
    <3> HIDE DEF repeated
    <3> QED  BY <1>1, <1>2, <3>1, <3>2, RunPrefix DEF S
  <2> HIDE DEF repeated, shared, r
  <2>2. Elements(repeated) = shared /\ Cost(bs, repeated) = 0
    BY <1>9, <2>1, ElementsEmpty, CostOfNothing
  <2>3. before # << >> => d + 1 < a
    BY <1>2, <1>9 DEF Begins, Apart, a, d
  <2>4. before # << >> => b > d /\ text[Len(repeated) + 1] # d + 1
    <3>1. text[Len(repeated) + 1] = a
      BY <2>1 DEF a
    <3>2. \A n \in Nat : n + 1 < a => b > n /\ a # n + 1
      BY <1>0, PlacesOfFirst
    <3> QED  BY <1>0, <2>3, <3>1, <3>2, Zenon
  <2>5. Between(F, text) <= budget \/ b = a
    BY <1>9 DEF Begins, a, b
  <2>6. Cost(bs, text) <= budget \/ L = Len(repeated) + 1
    <3>1. b = a => L = 0 + 1
      BY <1>0, PlacesOfFirst
    <3> QED  BY <1>6, <2>1, <2>5, <3>1
  <2>7. Cost(bs, repeated) <= overlap
    BY <2>2
  <2> QED  BY <2>2, <2>4, <2>6, <2>7, Zenon DEF repeated, shared, r, b, d, L
<1>10. CASE /\ GoesOn(F, budget, overlap, before, text)
            /\ shared = a .. d /\ r = d - a + 1 /\ r \in 0 .. L - 1
  <2>1. /\ before # << >> /\ c <= a /\ a <= d + 1 /\ d < b
        /\ F[d] - F[a - 1] <= overlap
        /\ F[d + 1] - F[c - 1] > budget
        /\ Between(F, text) <= budget \/ b = d + 1
    BY <1>10 DEF GoesOn, a, b, c, d
  <2>0. shared = a .. d /\ r = d - a + 1
    BY <1>10
  <2> HIDE DEF shared, r
  <2>2. /\ r \in 0 .. L /\ r + 1 \in 1 .. L /\ b > d
        /\ r # 0 => a + r - 1 = d
        /\ r = 0 => a .. d = {}
        /\ b = d + 1 => L = r + 1
        /\ a + (r + 1) - 1 = d + 1 /\ (d + 1) - 1 = d
        /\ d + 1 \in 1 .. N /\ d \in 0 .. N /\ c - 1 \in 0 .. N
    <3>1. /\ a \in Nat /\ b \in Nat /\ c \in Nat /\ d \in Nat /\ L \in Nat /\ N \in Nat
          /\ a >= 1 /\ c >= 1 /\ L >= 1 /\ b = a + L - 1 /\ b <= N
          /\ c <= a /\ a <= d + 1 /\ d < b
      BY <1>0, <2>1
    <3>2. r = d - a + 1
      BY <2>0
    <3> HIDE DEF repeated
    <3> QED  BY <3>1, <3>2, PlacesOfNew
  <2>3. /\ repeated \in Seq(S) /\ Len(repeated) = r /\ IsRun(repeated)
        /\ r = 0 => repeated = << >>
        /\ r # 0 => repeated # << >> /\ repeated[1] = a /\ LastOf(repeated) = a + r - 1
    BY <1>1, <1>2, <2>2, RunPrefix, ZenonT(40) DEF S, a, L
  <2> HIDE DEF repeated
  <2>4. r # 0 => a + r - 1 = d
    BY <2>2
  <2>5. Elements(repeated) = shared
    <3>1. CASE r = 0
      BY <2>0, <2>2, <2>3, <3>1, ElementsEmpty, Zenon
    <3>2. CASE r # 0
      <4>1. Elements(repeated) = repeated[1] .. LastOf(repeated)
        BY <1>1, <2>3, <3>2, RunEnds
      <4> QED  BY <2>0, <2>3, <2>4, <3>2, <4>1, Zenon
    <3> QED  BY <3>1, <3>2
  <2>6. Cost(bs, repeated) <= overlap
    <3>1. CASE r = 0
      BY <2>3, <3>1, CostOfNothing
    <3>2. CASE r # 0
      <4>1. Cost(bs, repeated) = F[LastOf(repeated)] - F[repeated[1] - 1]
        BY <2>3, <3>2, CostOfRun DEF S, F
      <4> QED  BY <2>1, <2>3, <2>4, <3>2, <4>1
    <3> QED  BY <3>1, <3>2
  <2>7. Cost(bs, text) <= budget \/ L = Len(repeated) + 1
    BY <1>6, <2>1, <2>2, <2>3, Zenon
  <2>8. text[Len(repeated) + 1] = d + 1 /\ d + 1 \in 1 .. N
    <3>1. text[r + 1] = a + (r + 1) - 1
      BY <1>4, <2>2, Zenon
    <3> QED  BY <2>2, <2>3, <3>1, Zenon
  <2>9. Cost(bs, before) + Weight(bs, d + 1) > budget
    <3>1. F[d + 1] = F[(d + 1) - 1] + Weight(bs, d + 1) /\ Weight(bs, d + 1) \in Nat
      BY <1>8, <2>8
    <3>2. F[d] \in Nat /\ F[c - 1] \in Nat
      BY <1>8, <2>2, Zenon
    <3>3. F[d + 1] = F[d] + Weight(bs, d + 1)
      BY <2>2, <3>1, Zenon
    <3> QED  BY <1>7, <2>1, <3>1, <3>2, <3>3
  <2> QED  BY <2>1, <2>2, <2>5, <2>6, <2>7, <2>8, <2>9, Zenon DEF repeated, shared, r, b, d, L
<1> QED  BY <1>3, <1>9, <1>10


\* The texts before a chunk, or before the next chunk.
LEMMA TextsBefore ==
    ASSUME TypeOK, NEW F, NEW budget, NEW overlap, Chain(F, budget, overlap, chunks),
           NEW n \in 1 .. Len(chunks) + 1
    PROVE  /\ TextBefore(chunks, n) \in Texts /\ IsRun(TextBefore(chunks, n))
           /\ n = 1 => TextBefore(chunks, n) = << >>
           /\ n # 1 => /\ n - 1 \in DOMAIN chunks /\ TextBefore(chunks, n) # << >>
                       /\ TextBefore(chunks, n) = chunks[n - 1].text
<1>1. Len(chunks) \in Nat /\ DOMAIN chunks = 1 .. Len(chunks)
      /\ \A m \in DOMAIN chunks : chunks[m] \in Chunks
  BY DEF TypeOK
<1>2. CASE n = 1
  BY <1>2, RunOfNothing DEF TextBefore, Texts
<1>3. CASE n # 1
  <2>1. n - 1 \in DOMAIN chunks
    BY <1>1, <1>3
  <2> DEFINE m == n - 1
             c == chunks[m]
  <2>2. c \in Chunks /\ c.text # << >> /\ IsRun(c.text)
    BY <1>1, <2>1 DEF Chain, Piece
  <2>3. TextBefore(chunks, n) = c.text
    BY <1>3 DEF TextBefore
  <2> HIDE DEF c
  <2>4. c.text \in Texts
    BY <2>2 DEF Chunks
  <2> QED  BY <1>3, <2>1, <2>2, <2>3, <2>4 DEF c
<1> QED  BY <1>2, <1>3

\* The budget and the overlap of an item are natural numbers.
LEMMA LimitsAreNat == IsItem(item) => Budget \in Nat /\ Overlap \in Nat
<1> SUFFICES ASSUME IsItem(item) PROVE Budget \in Nat /\ Overlap \in Nat
  OBVIOUS
<1>1. HeadLength \in Nat
  BY DEF HeadLength, IsItem
<1>2. CountTokens(HeadLength) \in Nat
  BY <1>1 DEF CountTokens
<1> QED  BY <1>2, BudgetsAssumption DEF Budget, Overlap

\* What the inductive invariant of the order is for.
LEMMA OrderConsequences == TypeOK /\ OrderInv => InOrder /\ WithinBudget
<1> SUFFICES ASSUME TypeOK, OrderInv PROVE InOrder /\ WithinBudget
  OBVIOUS
<1> DEFINE bs == item.blocks
<1>1. /\ IsItem(item) /\ bs \in Seq(Blocks) /\ Texts = Seq(DOMAIN bs)
      /\ DOMAIN bs \in SUBSET Nat
  BY SMTT(40) DEF TypeOK, IsItem, Texts, BlockNumbers
<1>2. Budget \in Nat /\ Overlap \in Nat
  BY <1>1, LimitsAreNat
<1>3. Len(chunks) \in Nat /\ DOMAIN chunks = 1 .. Len(chunks) /\ chunks \in Seq(Chunks)
  BY DEF TypeOK
<1>4. \A n \in DOMAIN chunks : chunks[n].text \in Seq(DOMAIN bs)
  <2>1. ASSUME NEW n \in DOMAIN chunks PROVE chunks[n].text \in Seq(DOMAIN bs)
    <3> DEFINE c == chunks[n]
    <3>1. c \in Chunks
      BY <1>3
    <3> HIDE DEF c
    <3>2. c.text \in Texts
      BY <3>1 DEF Chunks
    <3> QED  BY <1>1, <3>2 DEF c
  <2> QED  BY <2>1
<1>5. ASSUME NEW text \in Seq(DOMAIN bs), IsRun(text), NEW m \in 1 .. Len(text) - 1
      PROVE  text[m + 1] = text[m] + 1
  <2>1. Len(text) \in Nat /\ text # << >>
    BY <1>5
  <2>2. text[1] \in Nat /\ \A k \in 1 .. Len(text) : text[k] = text[1] + k - 1
    BY <1>1, <1>5, <2>1, RunEnds
  <2>3. m \in 1 .. Len(text) /\ m + 1 \in 1 .. Len(text)
    BY <2>1
  <2> DEFINE a == text[1]
             x == text[m]
             y == text[m + 1]
  <2>4. a \in Nat /\ x = a + m - 1 /\ y = a + (m + 1) - 1 /\ m \in Nat
    BY <2>1, <2>2, <2>3
  <2> HIDE DEF a, x, y
  <2>5. y = x + 1
    BY <2>4
  <2> QED  BY <2>5 DEF x, y
<1>6. CASE Chain(Upto, Budget, Overlap, chunks)
  <2>1. ASSUME NEW n \in DOMAIN chunks
        PROVE  LET text == chunks[n].text
                   before == TextBefore(chunks, n)
               IN  /\ IsRun(text) /\ Shared(n) = Elements(text) \cap Elements(before)
                   /\ Elements(Repeated(n)) = Shared(n)
                   /\ SumOfTokens(Repeated(n)) <= Overlap
                   /\ n > 1 => LastOf(text) > LastOf(before)
                   /\ SumOfTokens(text) <= Budget \/ Len(text) = Len(Repeated(n)) + 1
                   /\ n > 1 /\ FirstNew(n) = LastOf(before) + 1
                         => SumOfTokens(before) + TokensOf(FirstNew(n)) > Budget
                   /\ n > 1 => before = chunks[n - 1].text
    <3> DEFINE text == chunks[n].text
               before == TextBefore(chunks, n)
               new == text[Len(Repeated(n)) + 1]
    <3>1. n \in 1 .. Len(chunks) + 1
      BY <1>3
    <3>2. /\ before \in Seq(DOMAIN bs) /\ IsRun(before)
          /\ n = 1 => before = << >>
          /\ n # 1 => before # << >> /\ before = chunks[n - 1].text
      BY <1>1, <1>6, <3>1, TextsBefore
    <3>3. Piece(Running(bs), Budget, Overlap, before, text) /\ IsRun(text)
      BY <1>6 DEF Chain, Upto, Piece
    <3>4. Shared(n) = Elements(text) \cap Elements(before)
      BY <3>2, ElementsEmpty DEF Shared
    <3>5. Repeated(n) = SubSeq(text, 1, Cardinality(Elements(text) \cap Elements(before)))
          /\ FirstNew(n) = new /\ TokensOf(new) = Weight(bs, new)
      BY <3>4 DEF Repeated, FirstNew, TokensOf, Weight, Block
    <3>6. text \in Seq(DOMAIN bs)
      BY <1>4
    <3> HIDE DEF text, before, bs
    <3>7. /\ Elements(Repeated(n)) = Elements(text) \cap Elements(before)
          /\ Cost(bs, Repeated(n)) <= Overlap
          /\ before # << >> => LastOf(text) > LastOf(before)
          /\ Cost(bs, text) <= Budget \/ Len(text) = Len(Repeated(n)) + 1
          /\ before # << >> /\ new = LastOf(before) + 1
                => Cost(bs, before) + Weight(bs, new) > Budget
      <4> DEFINE repeated == SubSeq(text, 1, Cardinality(Elements(text) \cap Elements(before)))
      <4>1. /\ Elements(repeated) = Elements(text) \cap Elements(before)
            /\ Cost(bs, repeated) <= Overlap
            /\ before # << >> => LastOf(text) > LastOf(before)
            /\ Cost(bs, text) <= Budget \/ Len(text) = Len(repeated) + 1
            /\ before # << >> /\ text[Len(repeated) + 1] = LastOf(before) + 1
                  => Cost(bs, before) + Weight(bs, text[Len(repeated) + 1]) > Budget
        <5>1. bs \in Seq(Blocks)
          BY <1>1
        <5> QED  BY <5>1, <1>2, <3>2, <3>3, <3>6, PieceIsFair, Zenon
      <4>2. repeated = Repeated(n)
        BY <3>5
      <4> HIDE DEF repeated
      <4> QED  BY <4>1, <4>2, Zenon
    <3>8. n > 1 => n # 1
      BY <1>3
    <3>9. \A s : SumOfTokens(s) = Cost(bs, s)
      BY SumIsCost DEF bs
    <3> QED  BY <3>2, <3>3, <3>4, <3>5, <3>7, <3>8, <3>9, Zenon DEF text, before
  <2>2. InOrder
    BY <1>4, <1>5, <2>1 DEF InOrder
  <2>3. WithinBudget
    <3>1. ASSUME NEW n \in DOMAIN chunks
          PROVE  \/ SumOfTokens(chunks[n].text) <= Budget
                 \/ Len(chunks[n].text) = Len(Repeated(n)) + 1
      BY <2>1
    <3>2. ASSUME NEW n \in 2 .. Len(chunks), FirstNew(n) = LastOf(chunks[n - 1].text) + 1
          PROVE  SumOfTokens(chunks[n - 1].text) + TokensOf(FirstNew(n)) > Budget
      <4>1. n \in DOMAIN chunks /\ n > 1
        BY <1>3
      <4> QED  BY <2>1, <3>2, <4>1
    <3> QED  BY <3>1, <3>2 DEF WithinBudget
  <2> QED  BY <2>2, <2>3
<1>7. CASE pc \in {"label", "done"} /\ Len(chunks) = 1 /\ IsRun(chunks[1].text)
  <2>1. WithinBudget
    BY <1>7 DEF WithinBudget
  <2>2. ASSUME NEW n \in DOMAIN chunks
        PROVE  LET text == chunks[n].text IN
               /\ \A m \in 1 .. Len(text) - 1 : text[m + 1] = text[m] + 1
               /\ Elements(Repeated(n)) = Shared(n)
               /\ SumOfTokens(Repeated(n)) <= Overlap
               /\ n > 1 /\ text # << >> => LastOf(text) > LastOf(chunks[n - 1].text)
    <3>1. n = 1
      BY <1>3, <1>7
    <3>2. Shared(n) = {} /\ Repeated(n) = SubSeq(chunks[n].text, 1, 0)
      BY <3>1, FS_EmptySet DEF Shared, Repeated
    <3>3. chunks[n].text \in Seq(DOMAIN bs)
      BY <1>4
    <3>4. SubSeq(chunks[n].text, 1, 0) = << >>
      BY <3>3
    <3>5. SumOfTokens(<< >>) = 0
      BY <1>1, CostOfNothing, SumIsCost
    <3>6. \A m \in 1 .. Len(chunks[n].text) - 1 : chunks[n].text[m + 1] = chunks[n].text[m] + 1
      BY <1>5, <1>7, <3>1, <3>3
    <3>7. Elements(Repeated(n)) = Shared(n) /\ SumOfTokens(Repeated(n)) = 0
      BY <3>2, <3>4, <3>5, ElementsEmpty
    <3> QED  BY <1>2, <3>1, <3>6, <3>7
  <2>3. InOrder
    BY <2>2, Zenon DEF InOrder
  <2> QED  BY <2>1, <2>3
<1> QED  BY <1>6, <1>7 DEF OrderInv, ChunkRuns

-----------------------------------------------------------------------------
(* The order of the blocks: _pack and _carry_over                          *)

\* What a text and a number say of the sums.
LEMMA SumsAt ==
    ASSUME NEW bs \in Seq(Blocks), NEW i \in DOMAIN bs
    PROVE  /\ i \in Nat /\ i - 1 \in Nat /\ (i - 1) + 1 = i
           /\ Running(bs)[i] \in Nat /\ Running(bs)[i - 1] \in Nat /\ Weight(bs, i) \in Nat
           /\ Running(bs)[i] = Running(bs)[i - 1] + Weight(bs, i)
<1>1. i \in 1 .. Len(bs) /\ Len(bs) \in Nat
  OBVIOUS
<1>2. i \in 0 .. Len(bs) /\ i - 1 \in 0 .. Len(bs) /\ i \in Nat /\ i - 1 \in Nat /\ (i - 1) + 1 = i
  BY <1>1
<1> QED  BY <1>1, <1>2, RunningIs, WeightIsNat

\* The ends of a text of the blocks bs, and what comes next.
LEMMA EndsOf ==
    ASSUME NEW bs \in Seq(Blocks), NEW s \in Seq(DOMAIN bs), s # << >>, IsRun(s)
    PROVE  /\ s[1] \in DOMAIN bs /\ LastOf(s) \in DOMAIN bs /\ s[1] <= LastOf(s)
           /\ s[1] \in Nat /\ LastOf(s) \in Nat
<1>1. DOMAIN bs \in SUBSET Nat
  OBVIOUS
<1>2. /\ s[1] \in DOMAIN bs /\ LastOf(s) \in DOMAIN bs
      /\ Len(s) \in Nat \ {0} /\ LastOf(s) = s[1] + Len(s) - 1
  BY <1>1, RunEnds
<1> DEFINE a == s[1]
           b == LastOf(s)
           l == Len(s)
<1>3. a \in Nat /\ b \in Nat /\ l \in Nat \ {0} /\ b = a + l - 1
  BY <1>1, <1>2
<1> HIDE DEF a, b, l
<1>4. a <= b
  BY <1>3
<1> QED  BY <1>2, <1>3, <1>4 DEF a, b

\* A weight w more, at the end or in front.
LEMMA SumsGrow ==
    ASSUME NEW x \in Nat, NEW z \in Nat, NEW w \in Nat
    PROVE  (x - z) + w = (x + w) - z /\ (z - (x + w)) + w = z - x
OBVIOUS

\* RunAppend for a text of the blocks bs.
LEMMA TextAppend ==
    ASSUME NEW bs \in Seq(Blocks), NEW s \in Seq(DOMAIN bs), NEW e \in DOMAIN bs, IsRun(s),
           s # << >> => e = LastOf(s) + 1
    PROVE  /\ IsRun(Append(s, e)) /\ Append(s, e) # << >>
           /\ LastOf(Append(s, e)) = e
           /\ Append(s, e)[1] = IF s = << >> THEN e ELSE s[1]
<1>1. DOMAIN bs \in SUBSET Nat
  OBVIOUS
<1> QED  BY <1>1, RunAppend

\* A paragraph that fits is added.
LEMMA FillMore ==
    ASSUME NEW bs \in Seq(Blocks), NEW last \in Seq(DOMAIN bs), NEW piece \in Seq(DOMAIN bs),
           NEW next \in Seq(DOMAIN bs), NEW budget \in Nat, NEW overlap \in Nat, NEW size \in Nat,
           last # << >> => IsRun(last), next # << >>,
           Filling(Running(bs), budget, overlap, last, piece, size, next),
           piece # << >> => size + Weight(bs, Head(next)) <= budget
    PROVE  Filling(Running(bs), budget, overlap, last, Append(piece, Head(next)),
                   size + Weight(bs, Head(next)), Tail(next))
<1> DEFINE F == Running(bs)
           e == Head(next)
           w == Append(piece, e)
           more == Tail(next)
<1>1. /\ IsRun(piece) /\ IsRun(next)
      /\ piece = << >> => Apart(last, next) /\ size = 0
      /\ piece # << >> => /\ Piece(F, budget, overlap, last, piece)
                          /\ size = Between(F, piece)
                          /\ next[1] = LastOf(piece) + 1
  BY DEF Filling
<1>2. DOMAIN bs \in SUBSET Nat
  BY SMTT(40)
<1>3. /\ e = next[1] /\ IsRun(more)
      /\ more # << >> => more[1] = e + 1
  <2>1. /\ IsRun(Tail(next)) /\ Head(next) = next[1]
        /\ Tail(next) # << >> => Tail(next)[1] = next[1] + 1
    BY <1>1, <1>2, RunTail, Zenon
  <2> QED  BY <2>1
<1>4. e \in DOMAIN bs
  BY <1>1, <1>3, EndsOf
<1>5. /\ IsRun(w) /\ w # << >> /\ LastOf(w) = e /\ w[1] = IF piece = << >> THEN e ELSE piece[1]
  <2>1. piece # << >> => e = LastOf(piece) + 1
    BY <1>1, <1>3
  <2>2. IsRun(piece)
    BY <1>1
  <2> HIDE DEF e, w
  <2>3. /\ IsRun(Append(piece, e)) /\ Append(piece, e) # << >> /\ LastOf(Append(piece, e)) = e
        /\ Append(piece, e)[1] = IF piece = << >> THEN e ELSE piece[1]
    BY <1>4, <2>1, <2>2, TextAppend, ZenonT(40)
  <2> QED  BY <2>3 DEF w
<1>6. /\ e \in Nat /\ F[e] \in Nat /\ F[e - 1] \in Nat /\ Weight(bs, e) \in Nat
      /\ F[e] = F[e - 1] + Weight(bs, e)
  BY <1>4, SumsAt
<1> HIDE DEF F, e, w, more
<1>7. Piece(F, budget, overlap, last, w) /\ size + Weight(bs, e) = Between(F, w)
  <2>1. CASE piece = << >>
    <3>1. Between(F, w) = Weight(bs, e)
      BY <1>5, <1>6, <2>1 DEF Between
    <3>2. Apart(last, w)
      BY <1>1, <1>3, <1>5, <2>1 DEF Apart
    <3>3. Begins(F, budget, last, w)
      BY <1>5, <2>1, <3>2 DEF Begins
    <3>4. size = 0 /\ 0 + Weight(bs, e) = Weight(bs, e)
      BY <1>1, <1>6, <2>1
    <3> QED  BY <1>5, <3>1, <3>3, <3>4 DEF Piece
  <2>2. CASE piece # << >>
    <3> DEFINE a == piece[1]
               b == LastOf(piece)
    <3>1. a \in DOMAIN bs /\ a \in Nat /\ b \in Nat
      BY <1>1, <2>2, EndsOf
    <3>2. F[a - 1] \in Nat
      BY <3>1, SumsAt DEF F
    <3>3. size = F[b] - F[a - 1] /\ e = b + 1 /\ w[1] = a
      BY <1>1, <1>3, <1>5, <2>2 DEF Between
    <3>4. Begins(F, budget, last, piece) \/ GoesOn(F, budget, overlap, last, piece)
      BY <1>1, <2>2 DEF Piece
    <3>5. Between(F, w) = F[e] - F[a - 1]
      BY <1>5, <3>3 DEF Between
    <3> HIDE DEF a, b
    <3>6. e - 1 = b
      BY <3>1, <3>3
    <3>7. size + Weight(bs, e) = Between(F, w)
      <4>1. (F[b] - F[a - 1]) + Weight(bs, e) = F[e] - F[a - 1]
        <5>1. (F[e - 1] - F[a - 1]) + Weight(bs, e) = (F[e - 1] + Weight(bs, e)) - F[a - 1]
          <6> DEFINE x == F[e - 1]
                     z == F[a - 1]
                     v == Weight(bs, e)
          <6>1. x \in Nat /\ z \in Nat /\ v \in Nat
            BY <1>6, <3>2
          <6> HIDE DEF x, z, v
          <6>2. (x - z) + v = (x + v) - z
            BY <6>1
          <6> QED  BY <6>2 DEF x, z, v
        <5> QED  BY <1>6, <3>6, <5>1, Zenon
      <4> QED  BY <3>3, <3>5, <4>1
    <3>8. Between(F, w) <= budget
      BY <2>2, <3>7 DEF e
    <3>9. CASE Begins(F, budget, last, piece)
      <4>1. Apart(last, w)
        BY <1>5, <2>2, <3>3, <3>9 DEF Begins, Apart, a
      <4> QED  BY <1>5, <3>7, <3>8, <4>1 DEF Piece, Begins
    <3>10. CASE GoesOn(F, budget, overlap, last, piece)
      <4>1. last # << >> /\ LastOf(last) < b /\ LastOf(last) \in Nat
        BY <3>10, EndsOf DEF GoesOn, b
      <4>2. LastOf(last) < e
        BY <3>1, <3>3, <4>1
      <4>3. GoesOn(F, budget, overlap, last, w)
        BY <1>5, <3>3, <3>8, <3>10, <4>2 DEF GoesOn, a
      <4> QED  BY <1>5, <3>7, <4>3 DEF Piece
    <3> QED  BY <3>4, <3>9, <3>10
  <2> QED  BY <2>1, <2>2
<1>8. Filling(F, budget, overlap, last, w, size + Weight(bs, e), more)
  BY <1>3, <1>5, <1>7 DEF Filling
<1> QED  BY <1>8 DEF F, e, w, more

\* A piece that is full is looked at from its end.
LEMMA CarryBegins ==
    ASSUME NEW bs \in Seq(Blocks), NEW last, NEW piece \in Seq(DOMAIN bs),
           NEW next \in Seq(DOMAIN bs), NEW budget \in Nat, NEW overlap \in Nat, NEW size \in Nat,
           piece # << >>, next # << >>,
           Filling(Running(bs), budget, overlap, last, piece, size, next),
           size + Weight(bs, Head(next)) > budget
    PROVE  Carrying(Running(bs), budget, overlap, piece, piece, << >>, 0, next)
<1> DEFINE F == Running(bs)
           a == piece[1]
           b == LastOf(piece)
<1>1. /\ IsRun(piece) /\ IsRun(next)
      /\ size = F[b] - F[a - 1] /\ next[1] = b + 1
  BY DEF Filling, Between
<1>2. a \in DOMAIN bs /\ b \in DOMAIN bs /\ a <= b /\ next[1] \in DOMAIN bs /\ a \in Nat /\ b \in Nat
  BY <1>1, EndsOf
<1>3. F[a - 1] \in Nat /\ F[b] \in Nat
  BY <1>2, SumsAt
<1>4. Head(next) = b + 1
  BY <1>1
<1>5. F[b + 1] \in Nat /\ F[b + 1] = F[(b + 1) - 1] + Weight(bs, b + 1) /\ Weight(bs, b + 1) \in Nat
  BY <1>1, <1>2, SumsAt
<1> HIDE DEF F, a, b
<1>6. (b + 1) - 1 = b /\ a <= b + 1 /\ b + 1 <= b + 1
  BY <1>2, SMTT(40)
<1>7. F[b + 1] - F[a - 1] > budget
  <2>1. size + Weight(bs, b + 1) > budget /\ F[b + 1] = F[b] + Weight(bs, b + 1)
    BY <1>4, <1>5, <1>6
  <2>2. (F[b] - F[a - 1]) + Weight(bs, b + 1) = F[b + 1] - F[a - 1]
    <3>1. (F[b] - F[a - 1]) + Weight(bs, b + 1) = (F[b] + Weight(bs, b + 1)) - F[a - 1]
      <4> DEFINE x == F[b]
                 z == F[a - 1]
                 v == Weight(bs, b + 1)
      <4>1. x \in Nat /\ z \in Nat /\ v \in Nat
        BY <1>3, <1>5
      <4> HIDE DEF x, z, v
      <4>2. (x - z) + v = (x + v) - z
        BY <4>1
      <4> QED  BY <4>2 DEF x, z, v
    <3> QED  BY <2>1, <3>1, Zenon
  <2> QED  BY <1>1, <2>1, <2>2
<1>8. 0 = F[b] - F[(b + 1) - 1] /\ 0 <= overlap
  BY <1>3, <1>6
<1> QED  BY <1>1, <1>6, <1>7, <1>8, RunOfNothing DEF Carrying, F, a, b

\* Another paragraph from the end is carried over.
LEMMA CarriesOn ==
    ASSUME NEW bs \in Seq(Blocks), NEW last \in Seq(DOMAIN bs), NEW left \in Seq(DOMAIN bs),
           NEW over \in Seq(DOMAIN bs), NEW next, NEW budget \in Nat, NEW overlap \in Nat,
           NEW size \in Nat, left # << >>, IsRun(last),
           Carrying(Running(bs), budget, overlap, last, left, over, size, next),
           size + Weight(bs, LastOf(left)) <= overlap
    PROVE  Carrying(Running(bs), budget, overlap, last, ButLast(left), <<LastOf(left)>> \o over,
                    size + Weight(bs, LastOf(left)), next)
<1> DEFINE F == Running(bs)
           start == IF over = << >> THEN LastOf(last) + 1 ELSE over[1]
           p == LastOf(left)
           a == last[1]
           b == LastOf(last)
           w == <<p>> \o over
           short == ButLast(left)
<1>1. /\ last # << >> /\ IsRun(left) /\ IsRun(over) /\ IsRun(next)
      /\ next # << >> /\ next[1] = b + 1
      /\ over # << >> => LastOf(over) = b
      /\ a <= start /\ start <= b + 1
      /\ left[1] = a /\ p + 1 = start
      /\ size = F[b] - F[start - 1] /\ size <= overlap
      /\ F[b + 1] - F[a - 1] > budget
  BY DEF Carrying
<1>2. DOMAIN bs \in SUBSET Nat
  OBVIOUS
<1>3. /\ a \in Nat /\ b \in Nat /\ b \in DOMAIN bs
      /\ p \in DOMAIN bs /\ p \in Nat /\ a <= p
  BY <1>1, EndsOf
<1>4. /\ IsRun(w) /\ w # << >> /\ w[1] = p /\ LastOf(w) = IF over = << >> THEN p ELSE LastOf(over)
  <2>1. over # << >> => p + 1 = over[1]
    BY <1>1
  <2> HIDE DEF p
  <2> QED  BY <1>1, <1>2, <1>3, <2>1, RunCons
<1>5. /\ IsRun(short)
      /\ short # << >> => short[1] = a /\ LastOf(short) + 1 = p
  BY <1>1, <1>2, RunButLast
<1>6. /\ F[p] \in Nat /\ F[p - 1] \in Nat /\ Weight(bs, p) \in Nat
      /\ F[p] = F[p - 1] + Weight(bs, p)
  BY <1>3, SumsAt
<1>7. F[b] \in Nat
  BY <1>3, SumsAt
<1>8. over = << >> => p = b
  <2>1. over = << >> => p + 1 = b + 1
    BY <1>1
  <2> HIDE DEF p, b
  <2> QED  BY <1>3, <2>1
<1> HIDE DEF F, start, p, a, b, w, short
<1>9. start - 1 = p /\ p <= b + 1
  BY <1>1, <1>3, SMTT(40)
<1>10. size + Weight(bs, p) = F[b] - F[p - 1]
  <2>1. (F[b] - F[p]) + Weight(bs, p) = F[b] - F[p - 1]
    <3>1. (F[b] - (F[p - 1] + Weight(bs, p))) + Weight(bs, p) = F[b] - F[p - 1]
      BY <1>6, <1>7, SumsGrow, Zenon
    <3> QED  BY <1>6, <3>1, Zenon
  <2> QED  BY <1>1, <1>9, <2>1
<1>11. LastOf(w) = b
  BY <1>1, <1>4, <1>8
<1>12. size + Weight(bs, p) <= overlap
  BY DEF p
<1>13. Carrying(F, budget, overlap, last, short, w, size + Weight(bs, p), next)
  BY <1>1, <1>3, <1>4, <1>5, <1>9, <1>10, <1>11, <1>12 DEF Carrying, a, b
<1> QED  BY <1>13 DEF F, p, w, short

\* The paragraph that did not fit opens the next piece.
LEMMA CarryEnds ==
    ASSUME NEW bs \in Seq(Blocks), NEW last \in Seq(DOMAIN bs), NEW left,
           NEW over \in Seq(DOMAIN bs), NEW next \in Seq(DOMAIN bs),
           NEW budget \in Nat, NEW overlap \in Nat, NEW size \in Nat, IsRun(last),
           Carrying(Running(bs), budget, overlap, last, left, over, size, next)
    PROVE  Filling(Running(bs), budget, overlap, last, Append(over, Head(next)),
                   size + Weight(bs, Head(next)), Tail(next))
<1> DEFINE F == Running(bs)
           start == IF over = << >> THEN LastOf(last) + 1 ELSE over[1]
           a == last[1]
           b == LastOf(last)
           e == Head(next)
           w == Append(over, e)
           more == Tail(next)
<1>1. /\ last # << >> /\ IsRun(over) /\ IsRun(next)
      /\ next # << >> /\ next[1] = b + 1
      /\ over # << >> => LastOf(over) = b
      /\ a <= start /\ start <= b + 1
      /\ size = F[b] - F[start - 1] /\ size <= overlap
      /\ F[b + 1] - F[a - 1] > budget
  BY DEF Carrying
<1>2. DOMAIN bs \in SUBSET Nat
  OBVIOUS
<1>3. /\ e = next[1] /\ IsRun(more)
      /\ more # << >> => more[1] = e + 1
  <2>1. /\ IsRun(Tail(next)) /\ Head(next) = next[1]
        /\ Tail(next) # << >> => Tail(next)[1] = next[1] + 1
    BY <1>1, <1>2, RunTail, Zenon
  <2> QED  BY <2>1
<1>4. e \in DOMAIN bs /\ a \in Nat /\ b \in Nat /\ b \in DOMAIN bs
  BY <1>1, <1>3, EndsOf
<1>5. /\ IsRun(w) /\ w # << >> /\ LastOf(w) = e /\ w[1] = IF over = << >> THEN e ELSE over[1]
  <2>1. over # << >> => e = LastOf(over) + 1
    BY <1>1, <1>3
  <2>2. IsRun(over)
    BY <1>1
  <2> HIDE DEF e, w
  <2>3. /\ IsRun(Append(over, e)) /\ Append(over, e) # << >> /\ LastOf(Append(over, e)) = e
        /\ Append(over, e)[1] = IF over = << >> THEN e ELSE over[1]
    BY <1>4, <2>1, <2>2, TextAppend, ZenonT(40)
  <2> QED  BY <2>3 DEF w
<1>6. /\ e \in Nat /\ F[e] \in Nat /\ F[e - 1] \in Nat /\ Weight(bs, e) \in Nat
      /\ F[e] = F[e - 1] + Weight(bs, e)
  BY <1>4, SumsAt
<1>7. start \in Nat /\ F[start - 1] \in Nat
  <2>1. CASE over = << >>
    <3>1. start = e
      BY <1>1, <1>3, <2>1
    <3> HIDE DEF start
    <3> QED  BY <1>6, <3>1
  <2>2. CASE over # << >>
    <3>1. start = over[1] /\ over[1] \in DOMAIN bs
      BY <1>1, <2>2, EndsOf
    <3> HIDE DEF start
    <3> QED  BY <3>1, SumsAt
  <2> QED  BY <2>1, <2>2
<1>8. w[1] = start /\ e = b + 1
  BY <1>1, <1>3, <1>5
<1> HIDE DEF F, start, a, b, e, w, more
<1>9. e - 1 = b /\ b < e
  BY <1>4, <1>8
<1>10. Between(F, w) = F[e] - F[start - 1]
  BY <1>5, <1>8 DEF Between
<1>11. size + Weight(bs, e) = Between(F, w)
  <2>1. (F[b] - F[start - 1]) + Weight(bs, e) = F[e] - F[start - 1]
    BY <1>6, <1>7, <1>9, SumsGrow, SMTT(40)
  <2> QED  BY <1>1, <1>10, <2>1
<1>12. GoesOn(F, budget, overlap, last, w)
  <2>1. F[b] - F[start - 1] <= overlap
    BY <1>1
  <2> QED  BY <1>1, <1>5, <1>8, <1>9, <2>1 DEF GoesOn, a, b
<1>13. Filling(F, budget, overlap, last, w, size + Weight(bs, e), more)
  BY <1>3, <1>5, <1>11, <1>12 DEF Filling, Piece
<1> QED  BY <1>13 DEF F, e, w, more

-----------------------------------------------------------------------------
(* The order of the blocks: the steps                                      *)

\* The sums and limits are those of the item.
LEMMA SameSums ==
    ASSUME item' = item
    PROVE  Upto' = Upto /\ Budget' = Budget /\ Overlap' = Overlap
BY DEF Upto, Budget, Overlap, HeadLength

\* The texts of the chunker are made of the item's blocks.
LEMMA TextsAre ==
    ASSUME TypeOK
    PROVE  /\ item.blocks \in Seq(Blocks) /\ Texts = Seq(DOMAIN item.blocks)
           /\ DOMAIN item.blocks \in SUBSET Nat
           /\ Budget \in Nat /\ Overlap \in Nat
           /\ \A i : TokensOf(i) = Weight(item.blocks, i)
<1>1. IsItem(item)
  BY DEF TypeOK
<1>2. Budget \in Nat /\ Overlap \in Nat
  BY <1>1, LimitsAreNat
<1>3. \A i : TokensOf(i) = Weight(item.blocks, i)
  BY DEF TokensOf, Weight, Block
<1> QED  BY <1>1, <1>2, <1>3 DEF IsItem, Texts, BlockNumbers

\* Chunks in a chain, and the last one of them.
LEMMA LastTextIs ==
    ASSUME TypeOK, OrderInv, pc \notin {"label", "done"}
    PROVE  /\ Chain(Upto, Budget, Overlap, chunks)
           /\ LastText(chunks) \in Texts /\ IsRun(LastText(chunks))
           /\ chunks = << >> => LastText(chunks) = << >>
<1>1. Chain(Upto, Budget, Overlap, chunks)
  BY DEF OrderInv, ChunkRuns
<1>2. Len(chunks) \in Nat /\ Len(chunks) + 1 \in 1 .. Len(chunks) + 1
      /\ (chunks = << >> => Len(chunks) + 1 = 1)
  BY DEF TypeOK
<1> QED  BY <1>1, <1>2, TextsBefore DEF LastText

\* A chunk more, of a text that follows the last one.
LEMMA ChainGrows ==
    ASSUME NEW F, NEW budget, NEW overlap, NEW S, NEW cs \in Seq(S), NEW c \in S,
           Chain(F, budget, overlap, cs), Piece(F, budget, overlap, LastText(cs), c.text)
    PROVE  Chain(F, budget, overlap, Append(cs, c)) /\ LastText(Append(cs, c)) = c.text
<1> DEFINE w == Append(cs, c)
           l == Len(cs)
<1>1. /\ l \in Nat /\ Len(w) = l + 1 /\ DOMAIN w = 1 .. l + 1 /\ w[l + 1] = c
      /\ DOMAIN cs = 1 .. l /\ \A n \in 1 .. l : w[n] = cs[n]
  OBVIOUS
<1> HIDE DEF w, l
<1>2. /\ l + 1 \in Nat /\ (l + 1) - 1 = l /\ (l + 1) + 1 # 1 /\ ((l + 1) + 1) - 1 = l + 1
  BY <1>1
<1>3. LastText(w) = c.text
  BY <1>1, <1>2 DEF LastText, TextBefore
<1>4. ASSUME NEW n \in 1 .. l + 1 PROVE TextBefore(w, n) = TextBefore(cs, n)
  <2>1. CASE n = 1
    BY <2>1 DEF TextBefore
  <2>2. CASE n # 1
    <3>1. n - 1 \in 1 .. l
      BY <1>1, <2>2
    <3> QED  BY <1>1, <2>2, <3>1 DEF TextBefore
  <2> QED  BY <2>1, <2>2
<1>5. ASSUME NEW n \in 1 .. l + 1 PROVE Piece(F, budget, overlap, TextBefore(w, n), w[n].text)
  <2>1. CASE n = l + 1
    BY <1>1, <1>4, <2>1 DEF LastText, l
  <2>2. CASE n # l + 1
    <3>1. n \in 1 .. l
      BY <1>1, <2>2
    <3> QED  BY <1>1, <1>4, <3>1 DEF Chain
  <2> QED  BY <2>1, <2>2
<1> QED  BY <1>1, <1>3, <1>5 DEF Chain, w

\* All blocks are a run.
LEMMA AllBlocksRun == IsItem(item) => IsRun(AllBlocks)
<1> SUFFICES ASSUME IsItem(item) PROVE IsRun(AllBlocks)
  OBVIOUS
<1>1. DOMAIN item.blocks = 1 .. Len(item.blocks) /\ Len(item.blocks) \in Nat
  BY DEF IsItem
<1>2. DOMAIN AllBlocks = 1 .. Len(item.blocks) /\ \A n \in DOMAIN AllBlocks : AllBlocks[n] = n
  BY <1>1 DEF AllBlocks
<1>3. ASSUME NEW n \in DOMAIN AllBlocks PROVE AllBlocks[n] = AllBlocks[1] + n - 1
  <2>1. 1 \in DOMAIN AllBlocks /\ n \in Nat
    BY <1>1, <1>2
  <2>2. AllBlocks[1] = 1 /\ AllBlocks[n] = n
    BY <1>2, <2>1
  <2> QED  BY <2>1, <2>2
<1> QED  BY <1>3 DEF IsRun

\* No section, nothing to be apart from.
LEMMA NothingApart ==
    /\ RunsApart(<< >>) /\ \A text : EndsBefore(text, << >>)
    /\ \A text : Apart(<< >>, text) /\ Apart(text, << >>)
    /\ \A ss : EndsBefore(<< >>, ss)
BY DEF RunsApart, EndsBefore, Apart

\* chunk_document begins.
LEMMA StartOrder ==
    ASSUME IndInv, OrderInv, StartDoc \/ StartShortFaq \/ StartLongFaq
    PROVE  OrderInv'
<1>1. /\ item' = item /\ IsItem(item) /\ pc = "start" /\ sections' = sections /\ sections = << >>
      /\ chunks = << >> /\ at = 1 /\ buffer = << >> /\ split' = split
      /\ todo = << >> /\ current = << >> /\ tokens = 0
  BY DEF IndInv, TypeOK, PhasesOK, OrderInv, SplitRuns, StartDoc, StartShortFaq, StartLongFaq
<1>2. Chain(Upto, Budget, Overlap, << >>) /\ LastText(<< >>) = << >>
  BY DEF Chain, LastText, TextBefore
<1>3. CASE StartDoc
  <2>1. pc' = "split" /\ chunks' = << >> /\ buffer' = << >> /\ at' = 1 /\ sections' = << >>
    BY <1>1, <1>3 DEF StartDoc, split
  <2>2. SplitRuns' /\ SectionRuns' /\ PackRuns'
    BY <2>1, RunOfNothing, NothingApart DEF SplitRuns, SectionRuns, PackRuns
  <2> QED  BY <1>1, <1>2, <2>1, <2>2, SameSums DEF OrderInv, ChunkRuns
<1>4. CASE StartShortFaq
  <2> DEFINE c == Chunk(AllBlocks, None)
  <2>1. pc' = "label" /\ chunks' = <<c>> /\ c.text = AllBlocks
    BY <1>4 DEF StartShortFaq, Chunk
  <2> HIDE DEF c
  <2>2. Len(<<c>>) = 1 /\ <<c>>[1] = c
    OBVIOUS
  <2>3. SplitRuns' /\ SectionRuns' /\ PackRuns'
    BY <1>1, <2>1, NothingApart DEF SplitRuns, SectionRuns, PackRuns
  <2> QED  BY <1>1, <2>1, <2>2, <2>3, AllBlocksRun DEF OrderInv, ChunkRuns
<1>5. CASE StartLongFaq
  <2>1. /\ pc' = "pack" /\ chunks' = << >> /\ todo' = AllBlocks /\ current' = << >> /\ tokens' = 0
        /\ sections' = << >>
    BY <1>1, <1>5 DEF StartLongFaq
  <2>2. SplitRuns' /\ SectionRuns'
    BY <1>2, <2>1, NothingApart DEF SplitRuns, SectionRuns
  <2>3. PackRuns'
    BY <1>1, <1>2, <2>1, AllBlocksRun, RunOfNothing, NothingApart DEF PackRuns, Filling
  <2> QED  BY <1>1, <1>2, <2>1, <2>2, <2>3, SameSums DEF OrderInv, ChunkRuns
<1> QED  BY <1>3, <1>4, <1>5

\* The section being read grows by the next block.
LEMMA SplitParagraphOrder ==
    ASSUME IndInv, OrderInv, SplitParagraph
    PROVE  OrderInv'
<1>1. /\ item' = item /\ pc = "split" /\ pc' = pc /\ buffer' = Append(buffer, at) /\ at' = at + 1
      /\ sections' = sections /\ chunks' = chunks /\ at <= Len(item.blocks)
  BY DEF SplitParagraph, AtBlock
<1>2. /\ TypeOK /\ buffer \in Texts /\ at \in Nat \ {0} /\ chunks = << >>
      /\ IsRun(buffer) /\ (buffer # << >> => LastOf(buffer) + 1 = at)
  BY <1>1 DEF IndInv, TypeOK, OrderInv, SplitRuns, IsItem
<1>3. at \in DOMAIN item.blocks /\ item.blocks \in Seq(Blocks) /\ Texts = Seq(DOMAIN item.blocks)
  BY <1>1, <1>2, TextsAre
<1>4. /\ IsRun(buffer') /\ buffer' # << >> /\ LastOf(buffer') = at
      /\ buffer'[1] = IF buffer = << >> THEN at ELSE buffer[1]
  BY <1>1, <1>2, <1>3, TextAppend
<1>5. SplitRuns'
  <2>1. ASSUME NEW n \in DOMAIN sections PROVE Apart(sections[n].body, buffer')
    <3>1. Apart(sections[n].body, IF buffer = << >> THEN <<at>> ELSE buffer)
      BY <1>1 DEF OrderInv, SplitRuns
    <3>2. (IF buffer = << >> THEN <<at>> ELSE buffer)[1] = buffer'[1]
          /\ (IF buffer = << >> THEN <<at>> ELSE buffer) # << >>
      BY <1>4
    <3> HIDE DEF Apart
    <3> QED  BY <1>4, <3>1, <3>2 DEF Apart
  <2> QED  BY <1>1, <1>2, <1>4, <2>1 DEF SplitRuns
<1>6. SectionRuns' /\ PackRuns' /\ ChunkRuns'
  BY <1>1, SameSums DEF OrderInv, SectionRuns, PackRuns, ChunkRuns
<1> QED  BY <1>5, <1>6 DEF OrderInv

\* The bodies of the sections are texts.
LEMMA BodiesAre ==
    ASSUME TypeOK
    PROVE  \A n \in DOMAIN sections : sections[n].body \in Texts
<1> DEFINE S == [heading : Headings, body : Texts]
<1>1. sections \in Seq(S)
  BY DEF TypeOK
<1>2. \A x \in S : x.body \in Texts
  OBVIOUS
<1> HIDE DEF S
<1> QED  BY <1>1, <1>2

\* The section that ends is a run after those before it.
LEMMA FlushOrder ==
    ASSUME IndInv, OrderInv, pc = "split", Flush
    PROVE  /\ RunsApart(sections')
           /\ \A n \in DOMAIN sections' : Apart(sections'[n].body, <<at + 1>>)
<1> DEFINE S == [heading : Headings, body : Texts]
           s == [heading |-> heading, body |-> buffer]
           later == IF buffer = << >> THEN <<at>> ELSE buffer
<1>1. /\ TypeOK /\ at \in Nat \ {0} /\ s \in S /\ sections \in Seq(S) /\ buffer \in Texts
      /\ IsRun(buffer) /\ (buffer # << >> => LastOf(buffer) + 1 = at)
      /\ RunsApart(sections)
      /\ \A n \in DOMAIN sections : Apart(sections[n].body, later)
  BY DEF IndInv, TypeOK, IsItem, OrderInv, SplitRuns, SectionRuns
<1>2. later # << >> /\ later[1] \in Nat /\ later[1] <= at
  <2>1. CASE buffer = << >>
    BY <1>1, <2>1
  <2>2. CASE buffer # << >>
    <3>1. buffer[1] \in Nat /\ LastOf(buffer) \in Nat /\ buffer[1] <= LastOf(buffer)
      BY <1>1, <2>2, TextsAre, EndsOf
    <3> QED  BY <1>1, <2>2, <3>1
  <2> QED  BY <2>1, <2>2
<1>3. <<at + 1>>[1] = at + 1 /\ <<at + 1>> # << >>
  OBVIOUS
<1>4. \A n \in DOMAIN sections : sections[n].body \in Texts /\ IsRun(sections[n].body)
  BY <1>1, BodiesAre DEF RunsApart
<1>5. \A n \in DOMAIN sections : Apart(sections[n].body, <<at + 1>>)
  <2>1. ASSUME NEW n \in DOMAIN sections, sections[n].body # << >>
        PROVE  LastOf(sections[n].body) + 1 < at + 1
    <3>1. LastOf(sections[n].body) + 1 < later[1] /\ LastOf(sections[n].body) \in Nat
      BY <1>1, <1>2, <1>4, <2>1, TextsAre, EndsOf DEF Apart
    <3> HIDE DEF later
    <3> QED  BY <1>1, <1>2, <3>1
  <2> QED  BY <1>3, <2>1 DEF Apart
<1>6. Apart(buffer, <<at + 1>>)
  <2>1. buffer # << >> => LastOf(buffer) + 1 < at + 1
    BY <1>1
  <2> QED  BY <1>3, <2>1 DEF Apart
<1>7. CASE buffer = << >> /\ heading = None
  BY <1>1, <1>5, <1>7 DEF Flush
<1>8. CASE ~(buffer = << >> /\ heading = None)
  <2> DEFINE w == Append(sections, s)
             l == Len(sections)
  <2>1. w = sections'
    BY <1>8 DEF Flush
  <2>2. s.body = buffer
    OBVIOUS
  <2> HIDE DEF s, S
  <2>3. /\ l \in Nat /\ DOMAIN w = 1 .. l + 1 /\ w[l + 1] = s /\ DOMAIN sections = 1 .. l
        /\ \A n \in 1 .. l : w[n] = sections[n]
    BY <1>1
  <2> HIDE DEF w, l
  <2>4. \A n \in 1 .. l + 1 : n \in 1 .. l \/ n = l + 1
    BY <2>3
  <2>5. \A n \in 1 .. l : Apart(sections[n].body, buffer)
    BY <1>1, <2>3, NothingApart
  <2>6. \A n \in 1 .. l + 1 : IsRun(w[n].body) /\ Apart(w[n].body, <<at + 1>>)
    BY <1>1, <1>4, <1>5, <1>6, <2>2, <2>3, <2>4
  <2>7. ASSUME NEW n \in 1 .. l + 1, NEW m \in 1 .. l + 1, n < m
        PROVE  Apart(w[n].body, w[m].body)
    <3>1. n \in 1 .. l
      BY <2>3, <2>7
    <3>2. CASE m \in 1 .. l
      BY <1>1, <2>3, <2>7, <3>1, <3>2 DEF RunsApart
    <3>3. CASE m = l + 1
      BY <2>2, <2>3, <2>5, <3>1, <3>3
    <3> QED  BY <2>4, <3>2, <3>3
  <2> QED  BY <2>1, <2>3, <2>6, <2>7 DEF RunsApart
<1> QED  BY <1>7, <1>8

\* A heading sets the sections before and after it apart.
LEMMA SplitHeadingOrder ==
    ASSUME IndInv, OrderInv, SplitTitle \/ SplitHeading
    PROVE  OrderInv'
<1>1. /\ item' = item /\ pc = "split" /\ pc' = pc /\ buffer' = << >> /\ at' = at + 1
      /\ chunks' = chunks /\ Flush
  BY DEF SplitTitle, SplitHeading, AtBlock
<1>2. RunsApart(sections') /\ \A n \in DOMAIN sections' : Apart(sections'[n].body, <<at'>>)
  BY <1>1, FlushOrder
<1>3. SplitRuns'
  BY <1>1, <1>2, RunOfNothing DEF OrderInv, SplitRuns
<1>4. SectionRuns' /\ PackRuns' /\ ChunkRuns'
  BY <1>1, <1>2, SameSums DEF OrderInv, SectionRuns, PackRuns, ChunkRuns
<1> QED  BY <1>3, <1>4 DEF OrderInv

\* The last section ends.
LEMMA SplitEndOrder ==
    ASSUME IndInv, OrderInv, SplitEnd
    PROVE  OrderInv'
<1>1. /\ item' = item /\ pc = "split" /\ pc' = "sections"
      /\ chunks' = chunks /\ todo' = todo /\ Flush
  BY DEF SplitEnd, pack
<1>2. RunsApart(sections')
  BY <1>1, FlushOrder
<1>3. chunks = << >> /\ todo = << >>
  BY <1>1 DEF IndInv, TypeOK, OrderInv, SplitRuns
<1>4. LastText(chunks) = << >>
  BY <1>3 DEF LastText, TextBefore
<1>5. SplitRuns' /\ SectionRuns' /\ PackRuns'
  BY <1>1, <1>2, <1>3, <1>4, NothingApart DEF SplitRuns, SectionRuns, PackRuns
<1>6. ChunkRuns'
  BY <1>1, SameSums DEF OrderInv, ChunkRuns
<1> QED  BY <1>5, <1>6 DEF OrderInv

\* The sections but the first are those that are left, and the first is ahead.
LEMMA SectionsLeft ==
    ASSUME TypeOK, RunsApart(sections), sections # << >>
    PROVE  /\ Head(sections).body \in Texts /\ IsRun(Head(sections).body)
           /\ RunsApart(Tail(sections)) /\ EndsBefore(Head(sections).body, Tail(sections))
           /\ \A text : EndsBefore(text, sections) =>
                 Apart(text, Head(sections).body) /\ EndsBefore(text, Tail(sections))
<1> DEFINE S == [heading : Headings, body : Texts]
           t == Tail(sections)
           l == Len(sections)
<1>1. sections \in Seq(S)
  BY DEF TypeOK
<1> HIDE DEF S
<1>2. /\ l \in Nat \ {0} /\ DOMAIN sections = 1 .. l /\ DOMAIN t = 1 .. l - 1
      /\ Head(sections) = sections[1]
      /\ \A n \in 1 .. l - 1 : t[n] = sections[n + 1]
  BY <1>1
<1> HIDE DEF t, l
<1>3. 1 \in 1 .. l /\ \A n \in 1 .. l - 1 : n + 1 \in 1 .. l /\ 1 < n + 1
  BY <1>2
<1>4. \A n, m \in 1 .. l - 1 : n < m => n + 1 < m + 1
  OBVIOUS
<1>5. sections[1].body \in Texts
  BY <1>2, <1>3, BodiesAre
<1>6. RunsApart(t)
  <2>1. \A n \in DOMAIN t : IsRun(t[n].body)
    BY <1>2, <1>3 DEF RunsApart
  <2>2. ASSUME NEW n \in 1 .. l - 1, NEW m \in 1 .. l - 1, n < m
        PROVE  Apart(t[n].body, t[m].body)
    BY <1>2, <1>3, <1>4, <2>2 DEF RunsApart
  <2> QED  BY <1>2, <2>1, <2>2 DEF RunsApart
<1>7. EndsBefore(sections[1].body, t)
  BY <1>2, <1>3 DEF RunsApart, EndsBefore
<1>8. IsRun(sections[1].body)
  BY <1>2, <1>3 DEF RunsApart
<1>9. \A text : EndsBefore(text, sections) =>
          Apart(text, sections[1].body) /\ EndsBefore(text, t)
  BY <1>2, <1>3 DEF EndsBefore
<1> QED  BY <1>2, <1>5, <1>6, <1>7, <1>8, <1>9 DEF t

\* The next section is passed over or opened; it is ahead of the chunks.
LEMMA SectionOrder ==
    ASSUME IndInv, OrderInv, SkipSection \/ OpenSection
    PROVE  OrderInv'
<1>1. /\ item' = item /\ pc = "sections" /\ sections # << >> /\ chunks' = chunks
      /\ sections' = Tail(sections)
  BY DEF SkipSection, OpenSection
<1>2. /\ TypeOK /\ RunsApart(sections) /\ EndsBefore(LastText(chunks), sections)
      /\ todo = << >> /\ current = << >> /\ tokens = 0 /\ ChunkRuns
  BY <1>1 DEF IndInv, TypeOK, OrderInv, SectionRuns
<1>3. /\ Head(sections).body \in Texts /\ IsRun(Head(sections).body)
      /\ RunsApart(sections') /\ EndsBefore(Head(sections).body, sections')
      /\ Apart(LastText(chunks), Head(sections).body) /\ EndsBefore(LastText(chunks), sections')
  BY <1>1, <1>2, SectionsLeft
<1>4. LastText(chunks)' = LastText(chunks)
  BY <1>1
<1>5. CASE SkipSection
  <2>1. pc' = "sections" /\ todo' = << >>
    BY <1>1, <1>2, <1>5 DEF SkipSection, pack
  <2>2. SplitRuns' /\ SectionRuns' /\ PackRuns'
    BY <1>1, <1>3, <1>4, <2>1, NothingApart DEF SplitRuns, SectionRuns, PackRuns
  <2>3. ChunkRuns'
    BY <1>1, <1>2, <2>1, SameSums DEF ChunkRuns
  <2> QED  BY <2>2, <2>3 DEF OrderInv
<1>6. CASE OpenSection
  <2>1. pc' = "pack" /\ todo' = Head(sections).body /\ current' = << >> /\ tokens' = 0
    BY <1>1, <1>2, <1>6 DEF OpenSection
  <2>2. SplitRuns' /\ SectionRuns'
    BY <1>1, <1>3, <1>4, <2>1, NothingApart DEF SplitRuns, SectionRuns
  <2>3. PackRuns'
    BY <1>1, <1>3, <1>4, <2>1, RunOfNothing DEF PackRuns, Filling
  <2>4. ChunkRuns'
    BY <1>1, <1>2, <2>1, SameSums DEF ChunkRuns
  <2> QED  BY <2>2, <2>3, <2>4 DEF OrderInv
<1> QED  BY <1>5, <1>6

\* What comes after the sections: nothing, or the item as one chunk.
LEMMA SectionsEndOrder ==
    ASSUME IndInv, OrderInv, SectionsEnd
    PROVE  OrderInv'
<1>1. /\ item' = item /\ pc = "sections" /\ pc' = "label" /\ sections' = sections
      /\ chunks' = IF item.type = "doc" /\ chunks = << >> /\ item.blocks # << >>
                     THEN <<Chunk(AllBlocks, None)>> ELSE chunks
  BY DEF SectionsEnd
<1>2. IsItem(item) /\ RunsApart(sections)
  BY DEF IndInv, TypeOK, OrderInv, SectionRuns
<1>3. SplitRuns' /\ SectionRuns' /\ PackRuns'
  BY <1>1, <1>2 DEF SplitRuns, SectionRuns, PackRuns
<1>4. CASE chunks' = chunks
  BY <1>1, <1>3, <1>4, SameSums DEF OrderInv, ChunkRuns
<1>5. CASE chunks' = <<Chunk(AllBlocks, None)>>
  <2> DEFINE c == Chunk(AllBlocks, None)
  <2>1. c.text = AllBlocks /\ chunks' = <<c>>
    BY <1>5 DEF Chunk
  <2> HIDE DEF c
  <2>2. Len(<<c>>) = 1 /\ <<c>>[1] = c
    OBVIOUS
  <2> QED  BY <1>1, <1>2, <1>3, <2>1, <2>2, AllBlocksRun DEF OrderInv, ChunkRuns
<1> QED  BY <1>1, <1>4, <1>5

\* A text that ends where a longer one ended, or before, is as far ahead.
LEMMA EndsSooner ==
    ASSUME NEW bs \in Seq(Blocks), NEW text \in Seq(DOMAIN bs), NEW long \in Seq(DOMAIN bs),
           long # << >>, text # << >>, IsRun(text), IsRun(long),
           LastOf(text) <= LastOf(long), EndsBefore(long, sections),
           \A n \in DOMAIN sections :
              sections[n].body \in Seq(DOMAIN bs) /\ IsRun(sections[n].body)
    PROVE  EndsBefore(text, sections)
<1> DEFINE a == LastOf(text)
           b == LastOf(long)
<1>1. a \in Nat /\ b \in Nat /\ a <= b
  BY EndsOf
<1>2. ASSUME NEW n \in DOMAIN sections, sections[n].body # << >>
      PROVE  a + 1 < sections[n].body[1]
  <2> DEFINE z == sections[n].body[1]
  <2>1. b + 1 < z
    BY <1>2 DEF EndsBefore, Apart
  <2>2. z \in Nat
    BY <1>2, EndsOf
  <2> HIDE DEF a, b, z
  <2>3. a + 1 < z
    BY <1>1, <2>1, <2>2
  <2> QED  BY <2>3 DEF z
<1> QED  BY <1>2 DEF EndsBefore, Apart

\* The text in hand, as the loops of _pack read it.
LEMMA PackFacts ==
    ASSUME IndInv, OrderInv, pc \in {"pack", "carry"}
    PROVE  /\ TypeOK /\ item.blocks \in Seq(Blocks) /\ Texts = Seq(DOMAIN item.blocks)
           /\ Budget \in Nat /\ Overlap \in Nat /\ tokens \in Nat /\ total \in Nat
           /\ todo \in Seq(DOMAIN item.blocks) /\ current \in Seq(DOMAIN item.blocks)
           /\ carried \in Seq(DOMAIN item.blocks)
           /\ LastText(chunks) \in Seq(DOMAIN item.blocks) /\ IsRun(LastText(chunks))
           /\ \A i : TokensOf(i) = Weight(item.blocks, i)
           /\ Chain(Upto, Budget, Overlap, chunks)
           /\ RunsApart(sections) /\ EndsBefore(LastText(chunks), sections)
           /\ EndsBefore(todo, sections)
           /\ \A n \in DOMAIN sections :
                 sections[n].body \in Seq(DOMAIN item.blocks) /\ IsRun(sections[n].body)
<1>1. TypeOK
  BY DEF IndInv
<1>2. Texts = Seq(DOMAIN item.blocks)
  BY <1>1, TextsAre
<1>3. /\ todo \in Seq(DOMAIN item.blocks) /\ current \in Seq(DOMAIN item.blocks)
      /\ carried \in Seq(DOMAIN item.blocks) /\ tokens \in Nat /\ total \in Nat
  BY <1>1, <1>2 DEF TypeOK
<1>4. RunsApart(sections) /\ EndsBefore(LastText(chunks), sections) /\ EndsBefore(todo, sections)
  BY DEF OrderInv, SectionRuns
<1>5. \A n \in DOMAIN sections :
          sections[n].body \in Seq(DOMAIN item.blocks) /\ IsRun(sections[n].body)
  BY <1>1, <1>2, <1>4, BodiesAre DEF RunsApart
<1>6. /\ Chain(Upto, Budget, Overlap, chunks)
      /\ LastText(chunks) \in Texts /\ IsRun(LastText(chunks))
  BY <1>1, LastTextIs
<1> QED  BY <1>1, <1>2, <1>3, <1>4, <1>5, <1>6, TextsAre

\* The first paragraph to come ends sooner than all of them, and those that
\* are left end where they ended.
LEMMA NextEnds ==
    ASSUME NEW bs \in Seq(Blocks), NEW next \in Seq(DOMAIN bs), next # << >>, IsRun(next)
    PROVE  /\ Head(next) = next[1] /\ next[1] \in DOMAIN bs /\ next[1] <= LastOf(next)
           /\ Tail(next) \in Seq(DOMAIN bs) /\ IsRun(Tail(next))
           /\ Tail(next) # << >> => LastOf(Tail(next)) <= LastOf(next)
<1>1. DOMAIN bs \in SUBSET Nat /\ Tail(next) \in Seq(DOMAIN bs)
  OBVIOUS
<1>2. LastOf(next) \in Nat /\ next[1] \in DOMAIN bs /\ next[1] <= LastOf(next)
  BY EndsOf
<1>3. /\ IsRun(Tail(next)) /\ Head(next) = next[1]
      /\ (Tail(next) # << >> => LastOf(Tail(next)) = LastOf(next))
  BY <1>1, RunTail
<1> DEFINE b == LastOf(next)
<1>4. b <= b
  BY <1>2
<1> QED  BY <1>1, <1>2, <1>3, <1>4

\* The next paragraph fits the piece.
LEMMA PackAppendOrder ==
    ASSUME IndInv, OrderInv, PackAppend
    PROVE  OrderInv'
<1> DEFINE bs == item.blocks
           e == Head(todo)
<1>1. /\ item' = item /\ pc = "pack" /\ pc' = pc /\ todo # << >> /\ sections' = sections
      /\ chunks' = chunks /\ current' = Append(current, e) /\ tokens' = tokens + TokensOf(e)
      /\ todo' = Tail(todo)
      /\ ~(current # << >> /\ tokens + TokensOf(e) > Budget)
  BY DEF PackAppend, Overflows
<1>2. /\ TypeOK /\ bs \in Seq(Blocks) /\ todo \in Seq(DOMAIN bs) /\ current \in Seq(DOMAIN bs)
      /\ LastText(chunks) \in Seq(DOMAIN bs) /\ IsRun(LastText(chunks))
      /\ Budget \in Nat /\ Overlap \in Nat /\ tokens \in Nat /\ TokensOf(e) = Weight(bs, e)
      /\ EndsBefore(todo, sections)
      /\ \A n \in DOMAIN sections : sections[n].body \in Seq(DOMAIN bs) /\ IsRun(sections[n].body)
  BY <1>1, PackFacts
<1>3. Filling(Upto, Budget, Overlap, LastText(chunks), current, tokens, todo)
  BY <1>1 DEF OrderInv, PackRuns
<1>4. /\ IsRun(todo) /\ IsRun(current)
      /\ (current # << >> => todo[1] = LastOf(current) + 1)
  BY <1>1, <1>3 DEF Filling
<1>5. /\ e = todo[1] /\ e \in DOMAIN bs /\ e <= LastOf(todo)
      /\ Tail(todo) \in Seq(DOMAIN bs) /\ IsRun(Tail(todo))
      /\ (Tail(todo) # << >> => LastOf(Tail(todo)) <= LastOf(todo))
  BY <1>1, <1>2, <1>4, NextEnds
<1>6. Weight(bs, e) \in Nat
  BY <1>2, <1>5, WeightIsNat
<1>7. current # << >> => tokens + Weight(bs, e) <= Budget
  <2> DEFINE x == tokens
             y == Budget
             z == Weight(bs, e)
  <2>1. x \in Nat /\ y \in Nat /\ z \in Nat /\ ~(current # << >> /\ x + z > y)
    BY <1>1, <1>2, <1>6
  <2> HIDE DEF x, y, z
  <2>2. current # << >> => x + z <= y
    BY <2>1
  <2> QED  BY <2>2 DEF x, y, z
<1>8. Filling(Upto, Budget, Overlap, LastText(chunks), Append(current, e),
              tokens + Weight(bs, e), Tail(todo))
  BY <1>1, <1>2, <1>3, <1>7, FillMore DEF Upto
<1>9. PackRuns'
  BY <1>1, <1>2, <1>8, SameSums DEF PackRuns
<1>10. IsRun(Append(current, e)) /\ Append(current, e) # << >> /\ LastOf(Append(current, e)) = e
  BY <1>2, <1>4, <1>5, TextAppend, SMTT(40)
<1>11. Append(current, e) \in Seq(DOMAIN bs)
  BY <1>2, <1>5
<1>12. EndsBefore(Append(current, e), sections)
  BY <1>1, <1>2, <1>4, <1>5, <1>10, <1>11, EndsSooner
<1>13. EndsBefore(Tail(todo), sections)
  <2>1. CASE Tail(todo) = << >>
    BY <2>1, NothingApart
  <2>2. CASE Tail(todo) # << >>
    BY <1>1, <1>2, <1>4, <1>5, <2>2, EndsSooner
  <2> QED  BY <2>1, <2>2
<1>14. SplitRuns' /\ SectionRuns'
  BY <1>1, <1>12, <1>13 DEF OrderInv, SplitRuns, SectionRuns
<1>15. ChunkRuns'
  BY <1>1, SameSums DEF OrderInv, ChunkRuns
<1> QED  BY <1>9, <1>14, <1>15 DEF OrderInv

\* The piece in hand is a chunk more.
LEMMA ChunkMore ==
    ASSUME IndInv, OrderInv, pc = "pack", current # << >>
    PROVE  LET cs == Append(chunks, Chunk(current, section))
           IN  Chain(Upto, Budget, Overlap, cs) /\ LastText(cs) = current
<1> DEFINE c == Chunk(current, section)
<1>1. c \in Chunks /\ c.text = current /\ chunks \in Seq(Chunks)
  BY DEF IndInv, TypeOK, Chunk, Chunks
<1>2. Piece(Upto, Budget, Overlap, LastText(chunks), current)
  BY DEF OrderInv, PackRuns, Filling
<1>3. Chain(Upto, Budget, Overlap, chunks)
  BY PackFacts
<1> HIDE DEF c
<1>4. Chain(Upto, Budget, Overlap, Append(chunks, c)) /\ LastText(Append(chunks, c)) = c.text
  BY <1>1, <1>2, <1>3, ChainGrows
<1> QED  BY <1>1, <1>4 DEF c

\* The piece is full and becomes a chunk.
LEMMA PackCloseOrder ==
    ASSUME IndInv, OrderInv, PackClose
    PROVE  OrderInv'
<1> DEFINE bs == item.blocks
           e == Head(todo)
           cs == Append(chunks, Chunk(current, section))
<1>1. /\ item' = item /\ pc = "pack" /\ pc' = "carry" /\ todo # << >> /\ sections' = sections
      /\ chunks' = cs /\ current' = current /\ todo' = todo /\ carried' = << >> /\ total' = 0
      /\ current # << >> /\ tokens + TokensOf(e) > Budget
  BY DEF PackClose, Overflows, pack
<1>2. /\ TypeOK /\ bs \in Seq(Blocks) /\ todo \in Seq(DOMAIN bs) /\ current \in Seq(DOMAIN bs)
      /\ Budget \in Nat /\ Overlap \in Nat /\ tokens \in Nat /\ TokensOf(e) = Weight(bs, e)
      /\ RunsApart(sections) /\ EndsBefore(todo, sections)
  BY <1>1, PackFacts
<1>3. /\ Filling(Upto, Budget, Overlap, LastText(chunks), current, tokens, todo)
      /\ EndsBefore(current, sections)
  BY <1>1 DEF OrderInv, PackRuns, SectionRuns
<1>4. Carrying(Upto, Budget, Overlap, current, current, << >>, 0, todo)
  BY <1>1, <1>2, <1>3, CarryBegins DEF Upto
<1>5. Chain(Upto, Budget, Overlap, cs) /\ LastText(cs) = current
  BY <1>1, ChunkMore
<1> HIDE DEF cs
<1>6. LastText(chunks') = current
  BY <1>1, <1>5
<1>7. LastText(chunks)' = LastText(chunks')
  BY DEF LastText, TextBefore
<1>8. PackRuns'
  BY <1>1, <1>4, <1>6, <1>7, SameSums DEF PackRuns
<1>9. SplitRuns' /\ SectionRuns'
  BY <1>1, <1>2, <1>3, <1>6, <1>7 DEF SplitRuns, SectionRuns
<1>10. ChunkRuns'
  BY <1>1, <1>5, SameSums DEF ChunkRuns
<1> QED  BY <1>8, <1>9, <1>10 DEF OrderInv

\* One more paragraph from its end is carried over.
LEMMA CarryMoreOrder ==
    ASSUME IndInv, OrderInv, CarryMore
    PROVE  OrderInv'
<1> DEFINE bs == item.blocks
           p == LastOf(current)
<1>1. /\ item' = item /\ pc = "carry" /\ pc' = pc /\ sections' = sections /\ chunks' = chunks
      /\ todo' = todo /\ current' = ButLast(current) /\ carried' = <<p>> \o carried
      /\ total' = total + TokensOf(p) /\ current # << >> /\ total + TokensOf(p) <= Overlap
  BY DEF CarryMore, Carries
<1>2. /\ TypeOK /\ bs \in Seq(Blocks) /\ current \in Seq(DOMAIN bs) /\ carried \in Seq(DOMAIN bs)
      /\ LastText(chunks) \in Seq(DOMAIN bs) /\ IsRun(LastText(chunks))
      /\ Budget \in Nat /\ Overlap \in Nat /\ total \in Nat /\ TokensOf(p) = Weight(bs, p)
  BY <1>1, PackFacts
<1>3. Carrying(Upto, Budget, Overlap, LastText(chunks), current, carried, total, todo)
  BY <1>1 DEF OrderInv, PackRuns
<1>4. Carrying(Upto, Budget, Overlap, LastText(chunks), ButLast(current), <<p>> \o carried,
               total + Weight(bs, p), todo)
  BY <1>1, <1>2, <1>3, CarriesOn DEF Upto
<1>5. PackRuns'
  BY <1>1, <1>2, <1>4, SameSums DEF PackRuns
<1>6. SplitRuns' /\ SectionRuns'
  BY <1>1 DEF OrderInv, SplitRuns, SectionRuns
<1>7. ChunkRuns'
  BY <1>1, SameSums DEF OrderInv, ChunkRuns
<1> QED  BY <1>5, <1>6, <1>7 DEF OrderInv

\* What is carried over and the next paragraph begin the next piece.
LEMMA CarryEndOrder ==
    ASSUME IndInv, OrderInv, CarryEnd
    PROVE  OrderInv'
<1> DEFINE bs == item.blocks
           e == Head(todo)
<1>1. /\ item' = item /\ pc = "carry" /\ pc' = "pack" /\ sections' = sections
      /\ chunks' = chunks /\ current' = Append(carried, e) /\ tokens' = total + TokensOf(e)
      /\ todo' = Tail(todo)
  BY DEF CarryEnd
<1>2. /\ TypeOK /\ bs \in Seq(Blocks) /\ todo \in Seq(DOMAIN bs) /\ carried \in Seq(DOMAIN bs)
      /\ LastText(chunks) \in Seq(DOMAIN bs) /\ IsRun(LastText(chunks))
      /\ Budget \in Nat /\ Overlap \in Nat /\ total \in Nat /\ TokensOf(e) = Weight(bs, e)
      /\ RunsApart(sections) /\ EndsBefore(LastText(chunks), sections)
      /\ EndsBefore(todo, sections)
      /\ \A n \in DOMAIN sections : sections[n].body \in Seq(DOMAIN bs) /\ IsRun(sections[n].body)
  BY <1>1, PackFacts
<1>3. Carrying(Upto, Budget, Overlap, LastText(chunks), current, carried, total, todo)
  BY <1>1 DEF OrderInv, PackRuns
<1>4. /\ IsRun(todo) /\ todo # << >> /\ IsRun(carried)
      /\ todo[1] = LastOf(LastText(chunks)) + 1
      /\ (carried # << >> => LastOf(carried) = LastOf(LastText(chunks)))
  BY <1>3 DEF Carrying
<1>5. /\ e = todo[1] /\ e \in DOMAIN bs /\ e <= LastOf(todo)
      /\ Tail(todo) \in Seq(DOMAIN bs) /\ IsRun(Tail(todo))
      /\ (Tail(todo) # << >> => LastOf(Tail(todo)) <= LastOf(todo))
  BY <1>2, <1>4, NextEnds
<1>6. Filling(Upto, Budget, Overlap, LastText(chunks), Append(carried, e),
              total + Weight(bs, e), Tail(todo))
  BY <1>2, <1>3, CarryEnds DEF Upto
<1>7. PackRuns'
  BY <1>1, <1>2, <1>6, SameSums DEF PackRuns
<1>8. /\ bs \in Seq(Blocks) /\ carried \in Seq(DOMAIN bs) /\ e \in DOMAIN bs /\ IsRun(carried)
      /\ (carried # << >> => e = LastOf(carried) + 1)
  BY <1>2, <1>4, <1>5
<1>9. IsRun(Append(carried, e)) /\ Append(carried, e) # << >> /\ LastOf(Append(carried, e)) = e
  BY <1>8, TextAppend
<1>10. Append(carried, e) \in Seq(DOMAIN bs)
  BY <1>2, <1>5
<1>11. EndsBefore(Append(carried, e), sections)
  BY <1>2, <1>4, <1>5, <1>9, <1>10, EndsSooner
<1>12. EndsBefore(Tail(todo), sections)
  <2>1. CASE Tail(todo) = << >>
    BY <2>1, NothingApart
  <2>2. CASE Tail(todo) # << >>
    BY <1>2, <1>4, <1>5, <2>2, EndsSooner
  <2> QED  BY <2>1, <2>2
<1>13. LastText(chunks)' = LastText(chunks)
  BY <1>1
<1>14. SplitRuns' /\ SectionRuns'
  BY <1>1, <1>2, <1>11, <1>12, <1>13 DEF SplitRuns, SectionRuns
<1>15. ChunkRuns'
  BY <1>1, SameSums DEF OrderInv, ChunkRuns
<1> QED  BY <1>7, <1>14, <1>15 DEF OrderInv

\* The last piece of the paragraphs becomes a chunk.
LEMMA PackEndOrder ==
    ASSUME IndInv, OrderInv, PackEnd
    PROVE  OrderInv'
<1> DEFINE cs == Append(chunks, Chunk(current, section))
<1>1. /\ item' = item /\ pc = "pack" /\ pc' = "sections" /\ todo = << >> /\ todo' = todo
      /\ sections' = sections /\ chunks' = IF current = << >> THEN chunks ELSE cs
  BY DEF PackEnd
<1>2. /\ RunsApart(sections) /\ EndsBefore(LastText(chunks), sections)
      /\ Chain(Upto, Budget, Overlap, chunks)
  BY <1>1, PackFacts
<1>3. EndsBefore(current, sections)
  BY <1>1 DEF OrderInv, SectionRuns
<1>4. Chain(Upto, Budget, Overlap, chunks') /\ EndsBefore(LastText(chunks'), sections)
  <2>1. CASE current = << >>
    BY <1>1, <1>2, <2>1
  <2>2. CASE current # << >>
    <3>1. Chain(Upto, Budget, Overlap, cs) /\ LastText(cs) = current
      BY <1>1, <2>2, ChunkMore
    <3> HIDE DEF cs
    <3> QED  BY <1>1, <1>3, <2>2, <3>1
  <2> QED  BY <2>1, <2>2
<1>5. LastText(chunks)' = LastText(chunks')
  BY DEF LastText, TextBefore
<1>6. SplitRuns' /\ SectionRuns' /\ PackRuns'
  BY <1>1, <1>2, <1>4, <1>5, NothingApart DEF SplitRuns, SectionRuns, PackRuns
<1>7. ChunkRuns'
  BY <1>1, <1>4, SameSums DEF ChunkRuns
<1> QED  BY <1>6, <1>7 DEF OrderInv

\* The labels leave the texts as they are.
LEMMA LabelOrder ==
    ASSUME IndInv, OrderInv, Label
    PROVE  OrderInv'
<1>1. /\ item' = item /\ pc = "label" /\ pc' = "done" /\ sections' = sections
      /\ chunks' = [n \in DOMAIN chunks |->
                       [chunks[n] EXCEPT !.opens = Opening(chunks[n])]]
  BY DEF Label
<1>2. chunks \in Seq(Chunks)
  BY DEF IndInv, TypeOK
<1>3. DOMAIN chunks = 1 .. Len(chunks) /\ Len(chunks) \in Nat /\ \A n \in DOMAIN chunks : chunks[n] \in Chunks
  BY <1>2
<1>4. DOMAIN chunks' = DOMAIN chunks /\ \A n \in DOMAIN chunks : chunks'[n].text = chunks[n].text
  BY <1>1, <1>3 DEF Chunks
<1>5. Len(chunks') = Len(chunks)
  BY <1>1, <1>3
<1>6. \A n \in DOMAIN chunks : TextBefore(chunks', n) = TextBefore(chunks, n)
  <2>1. ASSUME NEW n \in DOMAIN chunks, n # 1 PROVE n - 1 \in DOMAIN chunks
    BY <1>3, <2>1
  <2> QED  BY <1>4, <2>1 DEF TextBefore
<1>7. Chain(Upto, Budget, Overlap, chunks) => Chain(Upto, Budget, Overlap, chunks')
  BY <1>4, <1>6 DEF Chain
<1>8. Len(chunks) = 1 /\ IsRun(chunks[1].text) => Len(chunks') = 1 /\ IsRun(chunks'[1].text)
  BY <1>3, <1>4, <1>5
<1>9. ChunkRuns'
  BY <1>1, <1>7, <1>8, SameSums DEF OrderInv, ChunkRuns
<1>10. SplitRuns' /\ SectionRuns' /\ PackRuns'
  BY <1>1 DEF OrderInv, SplitRuns, SectionRuns, PackRuns
<1> QED  BY <1>9, <1>10 DEF OrderInv

\* The order at the start.
LEMMA OrderInit == Init => OrderInv
<1> SUFFICES ASSUME Init PROVE OrderInv
  OBVIOUS
<1>1. pc = "start" /\ chunks = << >> /\ sections = << >>
  BY DEF Init
<1> QED  BY <1>1, NothingApart
      DEF OrderInv, SplitRuns, SectionRuns, PackRuns, ChunkRuns, Chain

\* Every step keeps the order.
LEMMA OrderStep == IndInv /\ OrderInv /\ [Next]_vars => OrderInv'
<1> SUFFICES ASSUME IndInv, OrderInv, [Next]_vars PROVE OrderInv'
  OBVIOUS
<1>1. CASE UNCHANGED vars
  <2>1. /\ item' = item /\ pc' = pc /\ at' = at /\ buffer' = buffer /\ sections' = sections
        /\ todo' = todo /\ current' = current /\ tokens' = tokens /\ carried' = carried
        /\ total' = total /\ chunks' = chunks
    BY <1>1 DEF vars, split, pack, carry
  <2> QED  BY <2>1, SameSums DEF OrderInv, SplitRuns, SectionRuns, PackRuns, ChunkRuns
<1>2. CASE Next
  BY <1>2, StartOrder, SplitParagraphOrder, SplitHeadingOrder, SplitEndOrder, SectionOrder,
     SectionsEndOrder, PackAppendOrder, PackCloseOrder, CarryMoreOrder, CarryEndOrder,
     PackEndOrder, LabelOrder DEF Next
<1> QED  BY <1>1, <1>2

\* The order of the blocks is an invariant of the chunker.
LEMMA ChunkerOrder == Spec => [](IndInv /\ OrderInv)
<1>1. Init => IndInv /\ OrderInv
  BY IndInvInit, OrderInit
<1>2. IndInv /\ OrderInv /\ [Next]_vars => IndInv' /\ OrderInv'
  BY IndInvStep, OrderStep
<1> QED  BY <1>1, <1>2, PTL DEF Spec

\* The chunks of every item follow its text: each starts with at most the
\* overlap of what the chunk before it ends with, and goes on to new blocks.
THEOREM ChunksInOrder == Spec => []InOrder
<1>1. IndInv /\ OrderInv => InOrder
  BY OrderConsequences DEF IndInv
<1> QED  BY <1>1, ChunkerOrder, PTL

\* A piece of any item is over its budget only with a single new paragraph,
\* and is closed only before a paragraph that does not fit.
THEOREM PiecesWithinBudget == Spec => []WithinBudget
<1>1. IndInv /\ OrderInv => WithinBudget
  BY OrderConsequences DEF IndInv
<1> QED  BY <1>1, ChunkerOrder, PTL
=============================================================================
