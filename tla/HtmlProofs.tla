----------------------------- MODULE HtmlProofs -----------------------------
(***************************************************************************)
(* Proofs about clean.py: the extractor, for fragments of any size and     *)
(* depth, whatever elements they are made of; and _tidy, for every text.   *)
(***************************************************************************)
EXTENDS Offline, SequenceTheorems, FiniteSetTheorems, WellFoundedInduction, TLAPS

Hides == DROP \cup FURNITURE
Gaps == {"none", "blank", "block"}
Parts == {Newline, Space} \cup {TextPart(n) : n \in Nat}
         \cup {Mark(tag, 0) : tag \in HEADINGS} \cup {Mark(n, d) : n \in Nat, d \in Nat}

LEMMA Kinds ==
    /\ Newline.kind = "newline" /\ Space.kind = "space"
    /\ \A n : TextPart(n).kind = "text"
    /\ \A what, depth : Mark(what, depth).kind = "mark"
  BY DEF Newline, Space, TextPart, Mark

-----------------------------------------------------------------------------
(* Places and ranks in a sequence that grows by a part                     *)

LEMMA PlacesFinite ==
    ASSUME NEW S, NEW s \in Seq(S), NEW places \in SUBSET DOMAIN s
    PROVE  IsFiniteSet(places) /\ Cardinality(places) \in Nat
<1>1. DOMAIN s = 1..Len(s) /\ Len(s) \in Nat
  OBVIOUS
<1>2. IsFiniteSet(DOMAIN s)
  BY <1>1, FS_Interval
<1> QED
  BY <1>2, FS_Subset, FS_CardinalityType

\* Who ranks where does not depend on what comes later.
LEMMA RankStays ==
    ASSUME NEW places \in SUBSET Nat, NEW n \in Nat, NEW i \in Nat, i < n
    PROVE  Rank(places \cup {n}, i) = Rank(places, i)
<1>1. {k \in places \cup {n} : k <= i} = {k \in places : k <= i}
  OBVIOUS
<1> QED
  BY <1>1 DEF Rank

\* The last of them ranks as high as there are.
LEMMA RankOfLast ==
    ASSUME NEW places \in SUBSET Nat, NEW n \in Nat, \A k \in places : k <= n
    PROVE  Rank(places, n) = Cardinality(places)
<1>1. {k \in places : k <= n} = places
  OBVIOUS
<1> QED
  BY <1>1 DEF Rank

LEMMA RankInside ==
    ASSUME NEW P \in SUBSET Nat, IsFiniteSet(P), NEW i \in P
    PROVE  Rank(P, i) \in 1..Cardinality(P) /\ Cardinality(P) \in Nat
<1> DEFINE upto == {k \in P : k <= i}
<1>1. upto \in SUBSET P /\ i \in upto /\ Cardinality(P) \in Nat
  BY FS_CardinalityType
<1>2. IsFiniteSet(upto) /\ Cardinality(upto) \in Nat /\ Cardinality(upto) <= Cardinality(P)
  BY <1>1, FS_Subset, FS_CardinalityType
<1>3. Cardinality(upto) # 0
  BY <1>1, <1>2, FS_EmptySet
<1> QED
  BY <1>1, <1>2, <1>3 DEF Rank

LEMMA RankBounded ==
    ASSUME NEW S, NEW s \in Seq(S), NEW places \in SUBSET DOMAIN s, NEW i \in places
    PROVE  Rank(places, i) \in 1..Cardinality(places)
<1>1. places \in SUBSET Nat /\ IsFiniteSet(places)
  BY PlacesFinite
<1> QED
  BY <1>1, RankInside

LEMMA PlacesOfAppend ==
    ASSUME NEW S, NEW s \in Seq(S), NEW x \in S, NEW kind
    PROVE  Places(Append(s, x), kind)
             = IF x.kind = kind THEN Places(s, kind) \cup {Len(s) + 1} ELSE Places(s, kind)
<1>1. /\ DOMAIN Append(s, x) = DOMAIN s \cup {Len(s) + 1}
      /\ \A i \in DOMAIN s : Append(s, x)[i] = s[i]
      /\ Append(s, x)[Len(s) + 1] = x
  OBVIOUS
<1> QED
  BY <1>1 DEF Places

\* A part of another kind leaves what is kept as it is.
LEMMA OtherAppended ==
    ASSUME NEW S, NEW s \in Seq(S), NEW x \in S, NEW kind, NEW wanted,
           x.kind # kind, Kept(s, kind, wanted)
    PROVE  Kept(Append(s, x), kind, wanted)
<1>1. Places(Append(s, x), kind) = Places(s, kind)
  BY PlacesOfAppend
<1>2. \A i \in Places(s, kind) : Append(s, x)[i] = s[i]
  BY DEF Places
<1> QED
  BY <1>1, <1>2 DEF Kept

\* A part of this kind is kept if it is wanted next.
LEMMA WantedAppended ==
    ASSUME NEW S, NEW s \in Seq(S), NEW x \in S, NEW kind, NEW wanted \in Seq(S),
           x.kind = kind, Kept(s, kind, wanted)
    PROVE  Kept(Append(s, x), kind, Append(wanted, x))
<1> DEFINE places == Places(s, kind)
           next == Len(s) + 1
<1>1. places \in SUBSET DOMAIN s /\ places \in SUBSET Nat /\ next \in Nat /\ next \notin places
      /\ \A i \in places : i < next
  BY DEF Places
<1>2. IsFiniteSet(places) /\ Cardinality(places) \in Nat
  BY <1>1, PlacesFinite
<1>3. Cardinality(places) = Len(wanted) /\ \A i \in places : s[i] = wanted[Rank(places, i)]
  BY DEF Kept
<1>4. Places(Append(s, x), kind) = places \cup {next}
  BY PlacesOfAppend
<1>5. Cardinality(places \cup {next}) = Len(wanted) + 1
  BY <1>1, <1>2, <1>3, FS_AddElement
<1>6. Len(Append(wanted, x)) = Len(wanted) + 1 /\ Append(wanted, x)[Len(wanted) + 1] = x
      /\ \A n \in 1..Len(wanted) : Append(wanted, x)[n] = wanted[n]
  OBVIOUS
<1>7. Append(s, x)[next] = x /\ \A i \in DOMAIN s : Append(s, x)[i] = s[i]
  OBVIOUS
<1>8. ASSUME NEW i \in places
      PROVE  Append(s, x)[i] = Append(wanted, x)[Rank(places \cup {next}, i)]
  <2>1. Rank(places, i) \in 1..Len(wanted)
    BY <1>1, <1>3, RankBounded
  <2>2. Rank(places \cup {next}, i) = Rank(places, i)
    BY <1>1, RankStays
  <2> QED
    BY <1>1, <1>3, <1>6, <1>7, <2>1, <2>2
<1>9. Rank(places \cup {next}, next) = Len(wanted) + 1
  <2>1. \A k \in places \cup {next} : k <= next
    BY <1>1
  <2> QED
    BY <1>1, <1>5, <2>1, RankOfLast
<1> HIDE DEF places, next
<1>10. \A i \in places \cup {next} :
          Append(s, x)[i] = Append(wanted, x)[Rank(places \cup {next}, i)]
  BY <1>6, <1>7, <1>8, <1>9
<1> QED
  BY <1>4, <1>5, <1>6, <1>10 DEF Kept

-----------------------------------------------------------------------------
(* What stands between texts                                               *)

\* Between the texts that are there, and after the last of them.
GapsKept(parts, gaps) ==
    LET places == Places(parts, "text")
    IN  \A i, j \in places :
            i < j => LET n == Rank(places, j)
                     IN  n \in DOMAIN gaps /\ Apart(parts, i, j, gaps[n])
GapOpen(parts, between) ==
    \A i \in Places(parts, "text") : Apart(parts, i, Len(parts) + 1, between)

\* All that is known of the parts of a fragment.
PartsOK(parts, texts, marks, gaps, between) ==
    /\ parts \in Seq(Parts) /\ texts \in Seq(Parts) /\ marks \in Seq(Parts)
    /\ gaps \in Seq(Gaps) /\ between \in Gaps /\ Len(gaps) = Len(texts)
    /\ Kept(parts, "text", texts) /\ Kept(parts, "mark", marks)
    /\ GapsKept(parts, gaps) /\ GapOpen(parts, between)

\* What stands between two parts does not depend on what comes later.
LEMMA ApartStays ==
    ASSUME NEW parts \in Seq(Parts), NEW x \in Parts, NEW gap,
           NEW i \in Nat, NEW j \in 1..(Len(parts) + 1), Apart(parts, i, j, gap)
    PROVE  Apart(Append(parts, x), i, j, gap)
<1>1. \A k \in (i + 1)..(j - 1) : Append(parts, x)[k] = parts[k]
  OBVIOUS
<1>2. {Append(parts, x)[k].kind : k \in (i + 1)..(j - 1)}
        = {parts[k].kind : k \in (i + 1)..(j - 1)}
  BY <1>1
<1> QED
  BY <1>2 DEF Apart

LEMMA OtherKeepsGaps ==
    ASSUME NEW parts \in Seq(Parts), NEW x \in Parts, NEW gaps,
           x.kind # "text", GapsKept(parts, gaps)
    PROVE  GapsKept(Append(parts, x), gaps)
<1> DEFINE places == Places(parts, "text")
<1>1. Places(Append(parts, x), "text") = places
  BY PlacesOfAppend
<1>2. \A i \in places : i \in Nat /\ i \in 1..(Len(parts) + 1)
  BY DEF Places
<1> HIDE DEF places
<1>3. ASSUME NEW i \in places, NEW j \in places, i < j
      PROVE  /\ Rank(places, j) \in DOMAIN gaps
             /\ Apart(Append(parts, x), i, j, gaps[Rank(places, j)])
  <2>1. /\ Rank(places, j) \in DOMAIN gaps
        /\ Apart(parts, i, j, gaps[Rank(places, j)])
    BY <1>3 DEF GapsKept, places
  <2> QED
    BY <1>2, <2>1, ApartStays
<1> QED
  BY <1>1, <1>3 DEF GapsKept

\* What stands after a text once another part has been appended.
LEMMA BetweenGrows ==
    ASSUME NEW parts \in Seq(Parts), NEW x \in Parts, NEW i \in DOMAIN parts
    PROVE  {Append(parts, x)[k].kind : k \in (i + 1)..(Len(Append(parts, x)) + 1 - 1)}
             = {parts[k].kind : k \in (i + 1)..(Len(parts) + 1 - 1)} \cup {x.kind}
<1>1. /\ Len(Append(parts, x)) + 1 - 1 = Len(parts) + 1 /\ Len(parts) + 1 - 1 = Len(parts)
      /\ Append(parts, x)[Len(parts) + 1] = x
      /\ \A k \in (i + 1)..Len(parts) : Append(parts, x)[k] = parts[k]
  OBVIOUS
<1>2. (i + 1)..(Len(parts) + 1) = ((i + 1)..Len(parts)) \cup {Len(parts) + 1}
  OBVIOUS
<1> QED
  BY <1>1, <1>2

LEMMA OtherKeepsOpen ==
    ASSUME NEW parts \in Seq(Parts), NEW x \in Parts, NEW between,
           x.kind # "text", GapOpen(parts, between)
    PROVE  GapOpen(Append(parts, x), between)
<1>1. Places(Append(parts, x), "text") = Places(parts, "text")
  BY PlacesOfAppend
<1>2. ASSUME NEW i \in Places(parts, "text")
      PROVE  Apart(Append(parts, x), i, Len(Append(parts, x)) + 1, between)
  <2>1. i \in DOMAIN parts /\ Apart(parts, i, Len(parts) + 1, between)
    BY DEF GapOpen, Places
  <2> QED
    BY <2>1, BetweenGrows DEF Apart
<1> QED
  BY <1>1, <1>2 DEF GapOpen

LEMMA NewlineAppended ==
    ASSUME NEW parts, NEW texts, NEW marks, NEW gaps, NEW before, NEW after \in Gaps,
           PartsOK(parts, texts, marks, gaps, before)
    PROVE  PartsOK(Append(parts, Newline), texts, marks, gaps, after)
<1>1. Newline \in Parts /\ Newline.kind = "newline" /\ parts \in Seq(Parts)
  BY Kinds DEF Parts, PartsOK
<1>2. Append(parts, Newline) \in Seq(Parts)
  BY <1>1
<1>3. Kept(Append(parts, Newline), "text", texts) /\ Kept(Append(parts, Newline), "mark", marks)
  BY <1>1, OtherAppended DEF PartsOK
<1>4. GapsKept(Append(parts, Newline), gaps)
  BY <1>1, OtherKeepsGaps DEF PartsOK
<1>5. GapOpen(Append(parts, Newline), after)
  <2>1. Places(Append(parts, Newline), "text") \subseteq DOMAIN parts
    BY <1>1, PlacesOfAppend DEF Places
  <2>2. ASSUME NEW i \in DOMAIN parts
        PROVE  Apart(Append(parts, Newline), i, Len(Append(parts, Newline)) + 1, after)
    BY <1>1, BetweenGrows DEF Apart
  <2> QED
    BY <2>1, <2>2 DEF GapOpen
<1> QED
  BY <1>2, <1>3, <1>4, <1>5 DEF PartsOK

LEMMA SpaceAppended ==
    ASSUME NEW parts, NEW texts, NEW marks, NEW gaps, NEW before, NEW after \in Gaps,
           PartsOK(parts, texts, marks, gaps, before), after # "block" \/ before = "block"
    PROVE  PartsOK(Append(parts, Space), texts, marks, gaps, after)
<1>1. Space \in Parts /\ Space.kind = "space" /\ parts \in Seq(Parts)
  BY Kinds DEF Parts, PartsOK
<1>2. Append(parts, Space) \in Seq(Parts)
  BY <1>1
<1>3. Kept(Append(parts, Space), "text", texts) /\ Kept(Append(parts, Space), "mark", marks)
  BY <1>1, OtherAppended DEF PartsOK
<1>4. GapsKept(Append(parts, Space), gaps)
  BY <1>1, OtherKeepsGaps DEF PartsOK
<1>5. GapOpen(Append(parts, Space), after)
  <2>1. Places(Append(parts, Space), "text") = Places(parts, "text")
    BY <1>1, PlacesOfAppend
  <2>2. ASSUME NEW i \in Places(parts, "text")
        PROVE  Apart(Append(parts, Space), i, Len(Append(parts, Space)) + 1, after)
    <3>1. i \in DOMAIN parts /\ Apart(parts, i, Len(parts) + 1, before)
      BY DEF GapOpen, Places, PartsOK
    <3> QED
      BY <1>1, <3>1, BetweenGrows DEF Apart
  <2> QED
    BY <2>1, <2>2 DEF GapOpen
<1> QED
  BY <1>2, <1>3, <1>4, <1>5 DEF PartsOK

LEMMA MarkAppended ==
    ASSUME NEW parts, NEW texts, NEW marks, NEW gaps, NEW between,
           NEW mark \in Parts, mark.kind = "mark",
           PartsOK(parts, texts, marks, gaps, between)
    PROVE  PartsOK(Append(parts, mark), texts, Append(marks, mark), gaps, between)
<1>1. parts \in Seq(Parts) /\ marks \in Seq(Parts)
  BY DEF PartsOK
<1>2. Append(parts, mark) \in Seq(Parts) /\ Append(marks, mark) \in Seq(Parts)
  BY <1>1
<1>3. Kept(Append(parts, mark), "text", texts)
  BY <1>1, OtherAppended DEF PartsOK
<1>4. Kept(Append(parts, mark), "mark", Append(marks, mark))
  BY <1>1, WantedAppended DEF PartsOK
<1>5. GapsKept(Append(parts, mark), gaps)
  BY <1>1, OtherKeepsGaps DEF PartsOK
<1>6. GapOpen(Append(parts, mark), between)
  BY <1>1, OtherKeepsOpen DEF PartsOK
<1> QED
  BY <1>2, <1>3, <1>4, <1>5, <1>6 DEF PartsOK

LEMMA TextAppended ==
    ASSUME NEW parts, NEW texts, NEW marks, NEW gaps, NEW between,
           NEW text \in Parts, text.kind = "text",
           PartsOK(parts, texts, marks, gaps, between)
    PROVE  PartsOK(Append(parts, text), Append(texts, text), marks, Append(gaps, between), "none")
<1> DEFINE places == Places(parts, "text")
           next == Len(parts) + 1
<1>1. /\ parts \in Seq(Parts) /\ texts \in Seq(Parts) /\ gaps \in Seq(Gaps)
      /\ between \in Gaps /\ Len(gaps) = Len(texts)
  BY DEF PartsOK
<1>2. /\ Append(parts, text) \in Seq(Parts) /\ Append(texts, text) \in Seq(Parts)
      /\ Append(gaps, between) \in Seq(Gaps)
      /\ Len(Append(gaps, between)) = Len(Append(texts, text))
      /\ Len(Append(gaps, between)) = Len(gaps) + 1
      /\ Append(gaps, between)[Len(gaps) + 1] = between
      /\ \A n \in DOMAIN gaps : Append(gaps, between)[n] = gaps[n] /\ n \in 1..(Len(gaps) + 1)
      /\ DOMAIN Append(gaps, between) = 1..(Len(gaps) + 1) /\ Len(gaps) + 1 \in 1..(Len(gaps) + 1)
  BY <1>1
<1>3. Kept(Append(parts, text), "text", Append(texts, text))
  BY <1>1, WantedAppended DEF PartsOK
<1>4. Kept(Append(parts, text), "mark", marks)
  BY <1>1, OtherAppended DEF PartsOK
<1>5. /\ Places(Append(parts, text), "text") = places \cup {next}
      /\ places \in SUBSET Nat /\ next \in Nat /\ next \in 1..(Len(parts) + 1) /\ next \notin places
      /\ \A i \in places : i \in Nat /\ i < next /\ i \in 1..(Len(parts) + 1)
  BY <1>1, PlacesOfAppend DEF Places
<1>6. Rank(places \cup {next}, next) = Len(gaps) + 1
  <2>1. \A k \in places \cup {next} : k <= next
    BY <1>5
  <2>2. Cardinality(places \cup {next}) = Len(Append(texts, text))
    BY <1>3, <1>5 DEF Kept
  <2> QED
    BY <1>1, <1>2, <1>5, <2>1, <2>2, RankOfLast
<1> HIDE DEF places, next
<1>7. ASSUME NEW i \in places, NEW j \in places, i < j
      PROVE  /\ Rank(places \cup {next}, j) \in DOMAIN Append(gaps, between)
             /\ Apart(Append(parts, text), i, j, Append(gaps, between)[Rank(places \cup {next}, j)])
  <2>1. /\ Rank(places, j) \in DOMAIN gaps
        /\ Apart(parts, i, j, gaps[Rank(places, j)])
    BY <1>7 DEF PartsOK, GapsKept, places
  <2>2. Rank(places \cup {next}, j) = Rank(places, j)
    BY <1>5, RankStays
  <2>3. Apart(Append(parts, text), i, j, gaps[Rank(places, j)])
    BY <1>1, <1>5, <2>1, ApartStays
  <2> QED
    BY <1>2, <2>1, <2>2, <2>3
<1>8. ASSUME NEW i \in places
      PROVE  Apart(Append(parts, text), i, next, between)
  <2>1. Apart(parts, i, next, between)
    BY DEF PartsOK, GapOpen, places, next
  <2> QED
    BY <1>1, <1>5, <2>1, ApartStays
<1>9. ASSUME NEW i \in places \cup {next}, NEW j \in places \cup {next}, i < j
      PROVE  /\ Rank(places \cup {next}, j) \in DOMAIN Append(gaps, between)
             /\ Apart(Append(parts, text), i, j, Append(gaps, between)[Rank(places \cup {next}, j)])
  <2>1. i \in places
    BY <1>5, <1>9
  <2>2. CASE j = next
    BY <1>2, <1>6, <1>8, <2>1, <2>2
  <2>3. CASE j \in places
    BY <1>7, <1>9, <2>1, <2>3
  <2> QED
    BY <2>2, <2>3
<1>10. GapsKept(Append(parts, text), Append(gaps, between))
  BY <1>5, <1>9 DEF GapsKept
<1>11. GapOpen(Append(parts, text), "none")
  BY DEF GapOpen, Apart
<1> QED
  BY <1>1, <1>2, <1>3, <1>4, <1>10, <1>11 DEF PartsOK, Gaps

\* A blank after something that is no text changes nothing.
LEMMA BlankSkipped ==
    ASSUME NEW parts, NEW texts, NEW marks, NEW gaps,
           PartsOK(parts, texts, marks, gaps, "none"),
           parts # << >> => Last(parts).kind # "text"
    PROVE  PartsOK(parts, texts, marks, gaps, "blank")
<1>1. parts \in Seq(Parts)
  BY DEF PartsOK
<1>2. ASSUME NEW i \in Places(parts, "text")
      PROVE  Apart(parts, i, Len(parts) + 1, "blank")
  <2>1. i \in 1..Len(parts) /\ parts[i].kind = "text"
    BY <1>1 DEF Places
  <2>2. parts[Len(parts)].kind # "text"
    BY <1>1, <2>1 DEF Last
  <2>3. Len(parts) \in (i + 1)..(Len(parts) + 1 - 1)
    BY <1>1, <2>1, <2>2
  <2> QED
    BY <2>3 DEF Apart
<1>3. GapOpen(parts, "blank")
  BY <1>2 DEF GapOpen
<1> QED
  BY <1>3 DEF PartsOK, Gaps

-----------------------------------------------------------------------------
(* The elements that are open, and what the extractor knows of them        *)

Elements == [tag : Tags, items : Nat]
OpenLists == [tag : LISTS, index : Nat]

Hiding(open) == {i \in DOMAIN open : open[i].tag \in Hides}

\* The lists that are open outside of what is dropped.
Shown(open) == {i \in DOMAIN open : /\ open[i].tag \in LISTS
                                    /\ \A k \in 1..i : open[k].tag \notin Hides}

Listed(element) == [tag |-> element.tag,
                    index |-> IF element.tag = "ol" THEN element.items ELSE 0]

NestOK(skip, lists, open) ==
    /\ open \in Seq(Elements) /\ lists \in Seq(OpenLists) /\ skip \in Nat
    /\ skip = Cardinality(Hiding(open))
    /\ Cardinality(Shown(open)) = Len(lists)
    /\ \A i \in Shown(open) : lists[Rank(Shown(open), i)] = Listed(open[i])

LEMMA TagsDiffer ==
    /\ Hides \cap BLOCK = {} /\ LISTS \cap Hides = {} /\ HEADINGS \cap Hides = {}
    /\ LISTS \cap HEADINGS = {} /\ "li" \notin LISTS \cup HEADINGS \cup Hides
    /\ LISTS \cup HEADINGS \cup {"li", "br"} \subseteq BLOCK
    /\ "br" \notin LISTS \cup HEADINGS \cup Hides \cup {"li"} /\ "body" \notin LISTS
  BY DEF Hides, DROP, FURNITURE, BLOCK, LISTS, HEADINGS

LEMMA NestPlaces ==
    ASSUME NEW open \in Seq(Elements)
    PROVE  /\ Hiding(open) \in SUBSET DOMAIN open /\ IsFiniteSet(Hiding(open))
           /\ Shown(open) \in SUBSET DOMAIN open /\ IsFiniteSet(Shown(open))
           /\ Cardinality(Hiding(open)) \in Nat /\ Cardinality(Shown(open)) \in Nat
<1>1. Hiding(open) \in SUBSET DOMAIN open /\ Shown(open) \in SUBSET DOMAIN open
  BY DEF Hiding, Shown
<1> QED
  BY <1>1, PlacesFinite

\* Nothing is skipped exactly while nothing that is open hides its content.
LEMMA NothingHides ==
    ASSUME NEW skip, NEW lists, NEW open, NestOK(skip, lists, open)
    PROVE  skip = 0 <=> \A i \in DOMAIN open : open[i].tag \notin Hides
<1>1. skip = 0 <=> Hiding(open) = {}
  BY NestPlaces, FS_EmptySet DEF NestOK
<1> QED
  BY <1>1 DEF Hiding

LEMMA HidingOfAppend ==
    ASSUME NEW open \in Seq(Elements), NEW e \in Elements
    PROVE  /\ e.tag \in Hides => Cardinality(Hiding(Append(open, e))) = Cardinality(Hiding(open)) + 1
           /\ e.tag \notin Hides => Hiding(Append(open, e)) = Hiding(open)
<1> DEFINE next == Len(open) + 1
<1>1. /\ DOMAIN Append(open, e) = DOMAIN open \cup {next} /\ next \notin DOMAIN open
      /\ \A i \in DOMAIN open : Append(open, e)[i] = open[i]
      /\ Append(open, e)[next] = e
  OBVIOUS
<1> HIDE DEF next
<1>2. e.tag \notin Hides => Hiding(Append(open, e)) = Hiding(open)
  BY <1>1 DEF Hiding
<1>3. e.tag \in Hides => Hiding(Append(open, e)) = Hiding(open) \cup {next}
  BY <1>1 DEF Hiding
<1>4. next \notin Hiding(open)
  BY <1>1 DEF Hiding
<1> QED
  BY <1>2, <1>3, <1>4, NestPlaces, FS_AddElement

LEMMA ShownOfAppend ==
    ASSUME NEW open \in Seq(Elements), NEW e \in Elements
    PROVE  Shown(Append(open, e))
             = IF e.tag \in LISTS /\ Hiding(open) = {} THEN Shown(open) \cup {Len(open) + 1}
               ELSE Shown(open)
<1> DEFINE next == Len(open) + 1
<1>1. /\ DOMAIN Append(open, e) = DOMAIN open \cup {next} /\ next \notin DOMAIN open
      /\ \A i \in DOMAIN open : Append(open, e)[i] = open[i]
      /\ Append(open, e)[next] = e
      /\ 1..next = DOMAIN open \cup {next} /\ \A i \in DOMAIN open : 1..i \subseteq DOMAIN open
  OBVIOUS
<1> HIDE DEF next
<1>2. ASSUME NEW i \in DOMAIN open
      PROVE  i \in Shown(Append(open, e)) <=> i \in Shown(open)
  <2>1. \A k \in 1..i : Append(open, e)[k] = open[k]
    BY <1>1
  <2> QED
    BY <1>1, <2>1 DEF Shown
<1>3. next \in Shown(Append(open, e)) <=> e.tag \in LISTS /\ Hiding(open) = {}
  <2>1. next \in Shown(Append(open, e))
          <=> e.tag \in LISTS /\ e.tag \notin Hides /\ \A k \in DOMAIN open : open[k].tag \notin Hides
    BY <1>1 DEF Shown
  <2> QED
    BY <2>1, TagsDiffer DEF Hiding
<1>4. Shown(Append(open, e)) \subseteq DOMAIN open \cup {next} /\ Shown(open) \subseteq DOMAIN open
  BY <1>1 DEF Shown
<1> QED
  BY <1>1, <1>2, <1>3, <1>4, SMTT(40) DEF next

\* An element that is no list to be shown leaves the lists as they are, when it
\* is opened and when it is closed.
LEMMA NestOther ==
    ASSUME NEW lists, NEW open \in Seq(Elements), NEW e \in Elements,
           NEW skip \in Nat, NEW all \in Nat,
           e.tag \notin LISTS \/ Hiding(open) # {},
           all = IF e.tag \in Hides THEN skip + 1 ELSE skip
    PROVE  NestOK(skip, lists, open) <=> NestOK(all, lists, Append(open, e))
<1>1. Append(open, e) \in Seq(Elements)
  OBVIOUS
<1>2. Shown(Append(open, e)) = Shown(open)
  BY ShownOfAppend
<1>3. all = Cardinality(Hiding(Append(open, e))) <=> skip = Cardinality(Hiding(open))
  BY HidingOfAppend, NestPlaces
<1>4. \A i \in Shown(open) : Append(open, e)[i] = open[i]
  BY DEF Shown
<1> QED
  BY <1>1, <1>2, <1>3, <1>4 DEF NestOK

\* A list outside of what is dropped is the last of the lists.
LEMMA NestList ==
    ASSUME NEW lists \in Seq(OpenLists), NEW open \in Seq(Elements), NEW e \in Elements,
           e.tag \in LISTS, NestOK(0, lists, open)
    PROVE  NestOK(0, Append(lists, Listed(e)), Append(open, e))
<1> DEFINE next == Len(open) + 1
           shown == Shown(open)
           more == Append(lists, Listed(e))
<1>1. Listed(e) \in OpenLists
  BY DEF Listed, OpenLists, Elements
<1>2. /\ Append(open, e) \in Seq(Elements) /\ more \in Seq(OpenLists)
      /\ Len(more) = Len(lists) + 1 /\ more[Len(lists) + 1] = Listed(e)
      /\ \A n \in 1..Len(lists) : more[n] = lists[n]
      /\ Append(open, e)[next] = e /\ \A i \in DOMAIN open : Append(open, e)[i] = open[i]
  BY <1>1
<1>3. /\ shown \in SUBSET DOMAIN open /\ shown \in SUBSET Nat /\ next \in Nat
      /\ next \notin shown /\ IsFiniteSet(shown) /\ Cardinality(shown) \in Nat
      /\ \A i \in shown : i \in Nat /\ i < next /\ i \in DOMAIN open
  <2>1. shown \in SUBSET DOMAIN open /\ IsFiniteSet(shown) /\ Cardinality(shown) \in Nat
    BY NestPlaces
  <2>2. DOMAIN open = 1..Len(open) /\ Len(open) \in Nat
    OBVIOUS
  <2> HIDE DEF shown
  <2> QED
    BY <2>1, <2>2
<1>4. Hiding(open) = {} /\ Shown(Append(open, e)) = shown \cup {next}
  <2>1. Hiding(open) = {}
    BY NestPlaces, FS_EmptySet DEF NestOK
  <2> QED
    BY <2>1, ShownOfAppend
<1>5. Cardinality(Hiding(Append(open, e))) = 0
  BY <1>4, TagsDiffer, HidingOfAppend, FS_EmptySet
<1>6. Cardinality(shown) = Len(lists) /\ Cardinality(shown \cup {next}) = Len(more)
  <2>1. Cardinality(shown) = Len(lists)
    BY DEF NestOK
  <2>2. Cardinality(shown \cup {next}) = Cardinality(shown) + 1
    BY <1>3, FS_AddElement
  <2> QED
    BY <1>2, <2>1, <2>2
<1>7. ASSUME NEW i \in shown
      PROVE  more[Rank(shown \cup {next}, i)] = Listed(Append(open, e)[i])
  <2>1. Rank(shown, i) \in 1..Len(lists)
    BY <1>3, <1>6, RankBounded
  <2>2. Rank(shown \cup {next}, i) = Rank(shown, i)
    BY <1>3, RankStays
  <2>3. lists[Rank(shown, i)] = Listed(open[i])
    BY DEF NestOK
  <2> QED
    BY <1>2, <1>3, <2>1, <2>2, <2>3
<1>8. Rank(shown \cup {next}, next) = Len(lists) + 1
  <2>1. \A k \in shown \cup {next} : k <= next
    BY <1>3
  <2> QED
    BY <1>2, <1>3, <1>6, <2>1, RankOfLast
<1> HIDE DEF next, shown, more
<1>9. \A i \in shown \cup {next} : more[Rank(shown \cup {next}, i)] = Listed(Append(open, e)[i])
  BY <1>2, <1>7, <1>8
<1>10. NestOK(0, more, Append(open, e))
  BY <1>2, <1>4, <1>5, <1>6, <1>9 DEF NestOK
<1> QED
  BY <1>10 DEF more

\* When it is closed it was the last of the lists, and the others stay.
LEMMA NestListEnds ==
    ASSUME NEW lists, NEW open \in Seq(Elements), NEW e \in Elements,
           e.tag \in LISTS, NestOK(0, lists, Append(open, e))
    PROVE  /\ lists # << >> /\ Last(lists) = Listed(e)
           /\ NestOK(0, Front(lists), open)
<1> DEFINE next == Len(open) + 1
           shown == Shown(open)
<1>1. /\ lists \in Seq(OpenLists)
      /\ Append(open, e)[next] = e /\ \A i \in DOMAIN open : Append(open, e)[i] = open[i]
  BY DEF NestOK
<1>2. /\ shown \in SUBSET DOMAIN open /\ shown \in SUBSET Nat /\ next \in Nat
      /\ next \notin shown /\ IsFiniteSet(shown) /\ Cardinality(shown) \in Nat
      /\ \A i \in shown : i \in Nat /\ i < next /\ i \in DOMAIN open
  <2>1. shown \in SUBSET DOMAIN open /\ IsFiniteSet(shown) /\ Cardinality(shown) \in Nat
    BY NestPlaces
  <2>2. DOMAIN open = 1..Len(open) /\ Len(open) \in Nat
    OBVIOUS
  <2> HIDE DEF shown
  <2> QED
    BY <2>1, <2>2
<1>3. Hiding(open) = {} /\ Shown(Append(open, e)) = shown \cup {next}
  <2>1. Hiding(Append(open, e)) = Hiding(open) /\ Cardinality(Hiding(open)) = 0
    BY TagsDiffer, HidingOfAppend DEF NestOK
  <2>2. Hiding(open) = {}
    BY <2>1, NestPlaces, FS_EmptySet
  <2> QED
    BY <2>2, ShownOfAppend
<1>4. Len(lists) = Cardinality(shown) + 1
  <2>1. Cardinality(shown \cup {next}) = Len(lists)
    BY <1>3 DEF NestOK
  <2>2. Cardinality(shown \cup {next}) = Cardinality(shown) + 1
    BY <1>2, FS_AddElement
  <2> QED
    BY <2>1, <2>2
<1>5. /\ Front(lists) \in Seq(OpenLists) /\ Len(Front(lists)) = Cardinality(shown)
      /\ \A n \in 1..Cardinality(shown) : Front(lists)[n] = lists[n]
      /\ lists # << >>
  BY <1>1, <1>2, <1>4 DEF Front
<1>6. \A i \in shown \cup {next} : lists[Rank(shown \cup {next}, i)] = Listed(Append(open, e)[i])
  BY <1>3 DEF NestOK
<1>7. Rank(shown \cup {next}, next) = Len(lists)
  <2>1. \A k \in shown \cup {next} : k <= next
    BY <1>2
  <2>2. Cardinality(shown \cup {next}) = Len(lists)
    BY <1>2, <1>4, FS_AddElement
  <2> QED
    BY <1>2, <2>1, <2>2, RankOfLast
<1>8. Last(lists) = Listed(e)
  BY <1>1, <1>6, <1>7 DEF Last
<1>9. ASSUME NEW i \in shown
      PROVE  Front(lists)[Rank(shown, i)] = Listed(open[i])
  <2>1. Rank(shown, i) \in 1..Cardinality(shown)
    BY <1>2, RankBounded
  <2>2. Rank(shown \cup {next}, i) = Rank(shown, i)
    BY <1>2, RankStays
  <2> QED
    BY <1>1, <1>2, <1>5, <1>6, <2>1, <2>2
<1>10. Cardinality(Hiding(open)) = 0
  BY <1>3, FS_EmptySet
<1> HIDE DEF next, shown
<1>11. NestOK(0, Front(lists), open)
  BY <1>5, <1>9, <1>10 DEF NestOK, shown
<1> QED
  BY <1>5, <1>8, <1>11

\* A non-empty sequence is one with an element appended.
LEMMA LastOne ==
    ASSUME NEW S, NEW s \in Seq(S), s # << >>
    PROVE  Front(s) \in Seq(S) /\ Last(s) \in S /\ s = Append(Front(s), Last(s))
<1>1. Len(s) \in Nat /\ Len(s) # 0 /\ \A i \in 1..Len(s) : s[i] \in S
  OBVIOUS
<1>2. Front(s) \in Seq(S) /\ Len(Front(s)) = Len(s) - 1
      /\ \A i \in 1..(Len(s) - 1) : Front(s)[i] = s[i]
  <2>1. Len(s) - 1 \in Nat /\ 1..(Len(s) - 1) \subseteq 1..Len(s)
    BY <1>1
  <2>2. /\ SubSeq(s, 1, Len(s) - 1) \in Seq(S)
        /\ Len(SubSeq(s, 1, Len(s) - 1)) = IF 1 <= Len(s) - 1 THEN Len(s) - 1 - 1 + 1 ELSE 0
        /\ \A i \in 1 .. Len(s) - 1 - 1 + 1 : SubSeq(s, 1, Len(s) - 1)[i] = s[1 + i - 1]
    <3>1. 1 \in Int /\ Len(s) - 1 \in Int /\ \A i \in 1 .. Len(s) - 1 : s[i] \in S
      BY <1>1, <2>1
    <3> QED
      BY <3>1, SubSeqProperties
  <2>3. /\ (IF 1 <= Len(s) - 1 THEN Len(s) - 1 - 1 + 1 ELSE 0) = Len(s) - 1
        /\ Len(s) - 1 - 1 + 1 = Len(s) - 1 /\ \A i \in 1..(Len(s) - 1) : 1 + i - 1 = i
    <3>1. \A n \in Nat : /\ (IF 1 <= n THEN n - 1 + 1 ELSE 0) = n /\ n - 1 + 1 = n
                        /\ \A i \in 1..n : 1 + i - 1 = i
      OBVIOUS
    <3> QED
      BY <2>1, <3>1, Zenon
  <2> QED
    BY <2>2, <2>3 DEF Front
<1>3. Last(s) = s[Len(s)] /\ Last(s) \in S
  BY <1>1 DEF Last
<1> DEFINE front == Front(s)
           last == Last(s)
<1> HIDE DEF front, last
<1>4. /\ Append(front, last) \in Seq(S) /\ Len(Append(front, last)) = Len(s)
      /\ \A i \in 1..Len(s) : Append(front, last)[i] = s[i]
  BY <1>1, <1>2, <1>3 DEF front, last
<1>5. Append(front, last) = s
  BY <1>4
<1> QED
  BY <1>2, <1>3, <1>5 DEF front, last

WithLast(s, x, y) == [Append(s, x) EXCEPT ![Len(s) + 1] = y]

LEMMA LastChanged ==
    ASSUME NEW S, NEW s \in Seq(S), NEW x \in S, NEW y \in S
    PROVE  WithLast(s, x, y) = Append(s, y)
<1> DEFINE changed == [Append(s, x) EXCEPT ![Len(s) + 1] = y]
<1>1. changed \in Seq(S) /\ Append(s, y) \in Seq(S)
  OBVIOUS
<1>2. Len(changed) = Len(s) + 1 /\ Len(Append(s, y)) = Len(s) + 1
  OBVIOUS
<1>3. \A i \in 1..(Len(s) + 1) : changed[i] = Append(s, y)[i]
  <2>1. /\ DOMAIN Append(s, x) = 1..(Len(s) + 1)
        /\ \A i \in 1..(Len(s) + 1) :
              /\ Append(s, x)[i] = IF i = Len(s) + 1 THEN x ELSE s[i]
              /\ Append(s, y)[i] = IF i = Len(s) + 1 THEN y ELSE s[i]
    OBVIOUS
  <2> QED
    BY <2>1
<1> HIDE DEF changed
<1>4. changed = Append(s, y)
  BY <1>1, <1>2, <1>3
<1> QED
  BY <1>4 DEF changed, WithLast

\* Another item of the innermost list.
Counted(e) == [e EXCEPT !.items = @ + 1]

LEMMA CountedIsElement ==
    ASSUME NEW e \in Elements
    PROVE  /\ Counted(e) \in Elements /\ Counted(e).tag = e.tag /\ Counted(e).items = e.items + 1
           /\ e.items \in Nat /\ e.tag \in Tags
  BY DEF Counted, Elements

LEMMA NestItem ==
    ASSUME NEW skip, NEW lists, NEW open \in Seq(Elements), NEW e \in Elements,
           e.tag \in LISTS, NestOK(skip, lists, Append(open, e))
    PROVE  /\ skip # 0 => NestOK(skip, lists, Append(open, Counted(e)))
           /\ skip = 0 => /\ lists # << >> /\ Last(lists) = Listed(e)
                          /\ NestOK(0, Append(Front(lists), Listed(Counted(e))),
                                    Append(open, Counted(e)))
<1>1. Counted(e) \in Elements /\ Counted(e).tag = e.tag /\ e.tag \notin Hides
  BY CountedIsElement, TagsDiffer
<1>2. ASSUME skip # 0
      PROVE  NestOK(skip, lists, Append(open, Counted(e)))
  <2>1. skip \in Nat /\ Hiding(open) # {}
    <3>1. skip \in Nat /\ skip = Cardinality(Hiding(open))
      BY <1>1, HidingOfAppend DEF NestOK
    <3> QED
      BY <1>2, <3>1, FS_EmptySet
  <2>2. NestOK(skip, lists, open)
    BY <1>1, <2>1, NestOther
  <2> QED
    BY <1>1, <2>1, <2>2, NestOther
<1>3. ASSUME skip = 0
      PROVE  /\ lists # << >> /\ Last(lists) = Listed(e)
             /\ NestOK(0, Append(Front(lists), Listed(Counted(e))), Append(open, Counted(e)))
  <2>1. NestOK(0, lists, Append(open, e))
    BY <1>3
  <2>2. /\ lists # << >> /\ Last(lists) = Listed(e)
        /\ NestOK(0, Front(lists), open)
    BY <2>1, NestListEnds
  <2>3. Front(lists) \in Seq(OpenLists)
    BY <2>2 DEF NestOK
  <2> QED
    BY <1>1, <2>2, <2>3, NestList
<1> QED
  BY <1>2, <1>3

\* The lists that are open, when none of them is in what is dropped.
LEMMA ShownLists ==
    ASSUME NEW skip, NEW lists, NEW m, NestOK(skip, lists, m.open), skip = 0
    PROVE  Lists(m) = Len(lists)
<1>1. \A i \in DOMAIN m.open : m.open[i].tag \notin Hides
  BY NothingHides
<1>2. m.open \in Seq(Elements) /\ \A i \in DOMAIN m.open : 1..i \subseteq DOMAIN m.open
  BY DEF NestOK
<1>3. Shown(m.open) = {i \in DOMAIN m.open : m.open[i].tag \in LISTS}
  BY <1>1, <1>2 DEF Shown
<1> QED
  BY <1>3 DEF Lists, NestOK

-----------------------------------------------------------------------------
(* The extractor and the fragment agree                                    *)

Extractors == [pc : {"idle", "fed"}, parts : Seq(Parts), skip : Nat, lists : Seq(OpenLists)]
Fragments == [open : Seq(Elements), size : Nat, texts : Seq(Parts), marks : Seq(Parts),
              between : Gaps, gaps : Seq(Gaps)]

FragmentOK(x, m) ==
    /\ x \in Extractors /\ m \in Fragments
    /\ NestOK(x.skip, x.lists, m.open)
    /\ PartsOK(x.parts, m.texts, m.marks, m.gaps, m.between)

HtmlInv == FragmentOK(html, markup)

LEMMA EmptyOK ==
    ASSUME NEW x, x \in Extractors, x.parts = << >>, x.skip = 0, x.lists = << >>
    PROVE  FragmentOK(x, NoMarkup)
<1>1. /\ NoMarkup \in Fragments
      /\ NoMarkup.open = << >> /\ NoMarkup.texts = << >> /\ NoMarkup.marks = << >>
      /\ NoMarkup.gaps = << >> /\ NoMarkup.between = "none"
  BY DEF NoMarkup, Fragments, Gaps
<1>2. Places(<< >>, "text") = {} /\ Places(<< >>, "mark") = {}
      /\ Hiding(<< >>) = {} /\ Shown(<< >>) = {}
  BY DEF Places, Hiding, Shown
<1>3. Cardinality({}) = 0
  BY FS_EmptySet
<1>4. NestOK(0, << >>, << >>)
  BY <1>2, <1>3, SMTT(40) DEF NestOK
<1>5. PartsOK(<< >>, << >>, << >>, << >>, "none")
  <2>1. Kept(<< >>, "text", << >>) /\ Kept(<< >>, "mark", << >>)
    BY <1>2, <1>3 DEF Kept
  <2>2. GapsKept(<< >>, << >>) /\ GapOpen(<< >>, "none")
    BY <1>2 DEF GapsKept, GapOpen
  <2>3. << >> \in Seq(Parts) /\ << >> \in Seq(Gaps) /\ "none" \in Gaps
    BY DEF Gaps
  <2> QED
    BY <2>1, <2>2, <2>3 DEF PartsOK
<1> QED
  BY <1>1, <1>4, <1>5 DEF FragmentOK

LEMMA EmitOne ==
    ASSUME NEW x \in Extractors, NEW p \in Parts
    PROVE  Emit(x, <<p>>) = [x EXCEPT !.parts = Append(x.parts, p)]
<1>1. x.parts \in Seq(Parts)
  BY DEF Extractors
<1>2. x.parts \o <<p>> = Append(x.parts, p)
  BY <1>1
<1> QED
  BY <1>2 DEF Emit

LEMMA EmitTwo ==
    ASSUME NEW x \in Extractors, NEW p \in Parts, NEW q \in Parts
    PROVE  Emit(x, <<p, q>>) = [x EXCEPT !.parts = Append(Append(x.parts, p), q)]
<1>1. x.parts \in Seq(Parts)
  BY DEF Extractors
<1>2. x.parts \o <<p, q>> = Append(Append(x.parts, p), q)
  BY <1>1
<1> QED
  BY <1>2 DEF Emit

LEMMA PartTypes ==
    /\ Newline \in Parts /\ Space \in Parts /\ \A n \in Nat : TextPart(n) \in Parts
    /\ \A tag \in HEADINGS : Mark(tag, 0) \in Parts
    /\ \A n, d \in Nat : Mark(n, d) \in Parts
  BY DEF Parts

\* The element that is innermost.
LEMMA TopIsLast ==
    ASSUME FragmentOK(html, markup), markup.open # << >>
    PROVE  /\ Front(markup.open) \in Seq(Elements) /\ Top \in Elements
           /\ markup.open = Append(Front(markup.open), Top)
<1>1. markup.open \in Seq(Elements) /\ Top = Last(markup.open)
  BY DEF FragmentOK, Fragments, Top
<1> QED
  BY <1>1, LastOne

LEMMA HiddenIsSkipped ==
    ASSUME NEW x, NEW m, FragmentOK(x, m)
    PROVE  /\ x.skip \in Nat
           /\ Hidden(m) <=> x.skip # 0
<1>1. x.skip \in Nat
  BY DEF FragmentOK, Extractors
<1>2. x.skip = 0 <=> \A i \in DOMAIN m.open : m.open[i].tag \notin Hides
  BY NothingHides DEF FragmentOK
<1> QED
  BY <1>1, <1>2 DEF Hidden, Hides

-----------------------------------------------------------------------------
(* What each call of the parser makes of the extractor                     *)

Extractor(pc, parts, skip, lists) ==
    [pc |-> pc, parts |-> parts, skip |-> skip, lists |-> lists]
Fragment(open, size, texts, marks, between, gaps) ==
    [open |-> open, size |-> size, texts |-> texts, marks |-> marks, between |-> between,
     gaps |-> gaps]

LEMMA Rebuilt ==
    ASSUME NEW pc \in {"idle", "fed"}, NEW parts, NEW skip, NEW lists, NEW open,
           NEW size \in Nat, NEW texts, NEW marks, NEW between, NEW gaps,
           NestOK(skip, lists, open), PartsOK(parts, texts, marks, gaps, between)
    PROVE  FragmentOK(Extractor(pc, parts, skip, lists),
                      Fragment(open, size, texts, marks, between, gaps))
<1>1. Extractor(pc, parts, skip, lists) \in Extractors
  BY DEF Extractor, Extractors, NestOK, PartsOK
<1>2. Fragment(open, size, texts, marks, between, gaps) \in Fragments
  BY DEF Fragment, Fragments, NestOK, PartsOK
<1> QED
  BY <1>1, <1>2 DEF FragmentOK, Extractor, Fragment

LEMMA Typed ==
    ASSUME NEW x, NEW m, FragmentOK(x, m)
    PROVE  /\ x = Extractor(x.pc, x.parts, x.skip, x.lists)
           /\ m = Fragment(m.open, m.size, m.texts, m.marks, m.between, m.gaps)
           /\ x \in Extractors /\ x.pc \in {"idle", "fed"} /\ x.parts \in Seq(Parts)
           /\ x.skip \in Nat /\ x.lists \in Seq(OpenLists)
           /\ m.open \in Seq(Elements) /\ m.size \in Nat /\ m.texts \in Seq(Parts)
           /\ m.marks \in Seq(Parts) /\ m.between \in Gaps /\ m.gaps \in Seq(Gaps)
           /\ NestOK(x.skip, x.lists, m.open)
           /\ PartsOK(x.parts, m.texts, m.marks, m.gaps, m.between)
  BY DEF FragmentOK, Extractors, Fragments, Extractor, Fragment

LEMMA FieldSet ==
    ASSUME NEW x \in Extractors, NEW new
    PROVE  /\ [x EXCEPT !.parts = new] = Extractor(x.pc, new, x.skip, x.lists)
           /\ [x EXCEPT !.skip = new] = Extractor(x.pc, x.parts, new, x.lists)
           /\ [x EXCEPT !.lists = new] = Extractor(x.pc, x.parts, x.skip, new)
  BY DEF Extractor, Extractors

\* The extractor with one or two parts more.
LEMMA OneMore ==
    ASSUME NEW x \in Extractors, NEW p \in Parts
    PROVE  Emit(x, <<p>>) = Extractor(x.pc, Append(x.parts, p), x.skip, x.lists)
  BY EmitOne, FieldSet

LEMMA TwoMore ==
    ASSUME NEW x \in Extractors, NEW p \in Parts, NEW q \in Parts
    PROVE  Emit(x, <<p, q>>) = Extractor(x.pc, Append(Append(x.parts, p), q), x.skip, x.lists)
<1> DEFINE new == Append(Append(x.parts, p), q)
<1>1. Emit(x, <<p, q>>) = [x EXCEPT !.parts = new]
  BY EmitTwo, ZenonT(40)
<1> HIDE DEF new
<1>2. [x EXCEPT !.parts = new] = Extractor(x.pc, new, x.skip, x.lists)
  BY FieldSet
<1> QED
  BY <1>1, <1>2 DEF new

LEMMA StartOfHidden ==
    ASSUME NEW x \in Extractors, NEW tag, tag \in Hides
    PROVE  StartTag(x, tag) = Extractor(x.pc, x.parts, x.skip + 1, x.lists)
<1>1. tag \in DROP \cup FURNITURE /\ tag \notin BLOCK /\ tag \notin HEADINGS /\ tag \notin LISTS
      /\ tag # "li"
  BY TagsDiffer DEF Hides
<1>2. StartTag(x, tag) = [x EXCEPT !.skip = x.skip + 1]
  BY <1>1 DEF StartTag
<1> QED
  BY <1>2, FieldSet

LEMMA StartSkipped ==
    ASSUME NEW x \in Extractors, NEW tag, tag \notin Hides, x.skip # 0
    PROVE  StartTag(x, tag) = x
<1>1. x.skip > 0
  BY DEF Extractors
<1> QED
  BY <1>1 DEF StartTag, Hides

LEMMA StartOfHeading ==
    ASSUME NEW x \in Extractors, NEW tag, tag \in HEADINGS, x.skip = 0
    PROVE  StartTag(x, tag)
             = Extractor(x.pc, Append(Append(x.parts, Newline), Mark(tag, 0)), x.skip, x.lists)
<1>1. tag \notin DROP \cup FURNITURE /\ tag \notin LISTS /\ tag # "li"
  BY TagsDiffer DEF Hides
<1>2. StartTag(x, tag) = Emit(x, <<Newline, Mark(tag, 0)>>)
  BY <1>1 DEF StartTag
<1>3. Newline \in Parts /\ Mark(tag, 0) \in Parts
  BY PartTypes
<1> QED
  BY <1>2, <1>3, TwoMore

LEMMA StartOfList ==
    ASSUME NEW x \in Extractors, NEW tag, tag \in LISTS, x.skip = 0
    PROVE  StartTag(x, tag)
             = Extractor(x.pc, IF x.lists = << >> THEN Append(x.parts, Newline) ELSE x.parts,
                         x.skip, Append(x.lists, [tag |-> tag, index |-> 0]))
<1>1. tag \notin DROP \cup FURNITURE /\ tag \notin HEADINGS /\ tag # "li"
  BY TagsDiffer DEF Hides
<1>2. StartTag(x, tag) = OpenList(IF x.lists = << >> THEN Emit(x, <<Newline>>) ELSE x, tag)
  BY <1>1 DEF StartTag
<1>3. CASE x.lists = << >>
  <2>1. Emit(x, <<Newline>>) = Extractor(x.pc, Append(x.parts, Newline), x.skip, x.lists)
    BY PartTypes, OneMore
  <2>2. StartTag(x, tag) = OpenList(Extractor(x.pc, Append(x.parts, Newline), x.skip, x.lists), tag)
    BY <1>2, <1>3, <2>1
  <2> QED
    BY <1>3, <2>2 DEF OpenList, Extractor
<1>4. CASE x.lists # << >>
  <2>1. StartTag(x, tag) = [x EXCEPT !.lists = Append(x.lists, [tag |-> tag, index |-> 0])]
    BY <1>2, <1>4 DEF OpenList
  <2> QED
    BY <1>4, <2>1, FieldSet
<1> QED
  BY <1>3, <1>4

LEMMA StartOfItem ==
    ASSUME NEW x \in Extractors, x.skip = 0, x.lists # << >>
    PROVE  LET last == Last(x.lists)
               counted == [tag |-> last.tag,
                           index |-> IF last.tag = "ol" THEN last.index + 1 ELSE last.index]
           IN  StartTag(x, "li")
                 = Extractor(x.pc,
                     Append(Append(x.parts, Newline),
                            Mark(IF last.tag = "ol" THEN last.index + 1 ELSE 0, Len(x.lists) - 1)),
                     x.skip, Append(Front(x.lists), counted))
<1> DEFINE last == Last(x.lists)
           counted == [tag |-> last.tag,
                       index |-> IF last.tag = "ol" THEN last.index + 1 ELSE last.index]
           lists == Append(Front(x.lists), counted)
           mark == Mark(IF last.tag = "ol" THEN last.index + 1 ELSE 0, Len(x.lists) - 1)
<1>1. /\ x.lists \in Seq(OpenLists) /\ Len(x.lists) \in Nat /\ Len(x.lists) # 0
      /\ Front(x.lists) \in Seq(OpenLists) /\ last \in OpenLists
      /\ x.lists = Append(Front(x.lists), last)
  BY LastOne DEF Extractors
<1>2. /\ last.index \in Nat /\ last = [tag |-> last.tag, index |-> last.index]
      /\ counted \in OpenLists
  BY <1>1 DEF OpenLists
<1>3. StartTag(x, "li") = StartItem(x)
  <2>1. "li" \notin DROP \cup FURNITURE /\ "li" \notin HEADINGS /\ "li" \notin LISTS
    BY TagsDiffer DEF Hides
  <2> QED
    BY <2>1 DEF StartTag
<1>4. mark \in Parts
  <2>1. Len(x.lists) - 1 \in Nat /\ last.index + 1 \in Nat
    BY <1>1, <1>2
  <2> QED
    BY <2>1, PartTypes
<1>5. CASE last.tag = "ol"
  <2> DEFINE y == [x EXCEPT !.lists[Len(x.lists)].index = @ + 1]
  <2>1. [x.lists EXCEPT ![Len(x.lists)].index = @ + 1] = lists
    <3> DEFINE front == Front(x.lists)
               l == last
    <3>1. /\ front \in Seq(OpenLists) /\ l \in OpenLists /\ x.lists = Append(front, l)
          /\ counted = [l EXCEPT !.index = @ + 1] /\ counted \in OpenLists
      BY <1>1, <1>2, <1>5
    <3> HIDE DEF front, l, counted
    <3>2. Len(x.lists) = Len(front) + 1 /\ x.lists[Len(x.lists)] = l
      BY <3>1
    <3>3. [Append(front, l) EXCEPT ![Len(front) + 1] = counted] = Append(front, counted)
      <4>1. WithLast(front, l, counted) = Append(front, counted)
        BY <3>1, LastChanged
      <4> QED
        BY <4>1 DEF WithLast
    <3>4. [x.lists EXCEPT ![Len(x.lists)].index = @ + 1]
            = [x.lists EXCEPT ![Len(x.lists)] = [l EXCEPT !.index = @ + 1]]
      BY <3>2
    <3> QED
      BY <3>1, <3>2, <3>3, <3>4 DEF front
  <2>2. y = Extractor(x.pc, x.parts, x.skip, lists)
    <3>1. y = [x EXCEPT !.lists = [x.lists EXCEPT ![Len(x.lists)].index = @ + 1]]
      OBVIOUS
    <3> HIDE DEF y, lists
    <3> QED
      BY <2>1, <3>1, FieldSet
  <2>3. y \in Extractors /\ y.lists = lists /\ y.parts = x.parts /\ y.pc = x.pc /\ y.skip = x.skip
    <3>1. lists \in Seq(OpenLists)
      BY <1>1, <1>2
    <3> QED
      BY <2>2, <3>1 DEF Extractor, Extractors
  <2>4. Last(y.lists).index = last.index + 1
    BY <1>1, <1>2, <1>5, <2>3 DEF Last
  <2>5. StartItem(x) = Emit(y, <<Newline, mark>>)
    BY <1>1, <1>5, <2>4 DEF StartItem
  <2> HIDE DEF y, lists, mark
  <2>6. Emit(y, <<Newline, mark>>)
          = Extractor(y.pc, Append(Append(y.parts, Newline), mark), y.skip, y.lists)
    BY <1>4, <2>3, PartTypes, TwoMore
  <2>7. StartTag(x, "li") = Extractor(x.pc, Append(Append(x.parts, Newline), mark), x.skip, lists)
    BY <1>3, <2>3, <2>5, <2>6
  <2> QED
    BY <2>7 DEF mark, lists
<1>6. CASE last.tag # "ol"
  <2>1. counted = last /\ lists = x.lists
    BY <1>1, <1>2, <1>6
  <2>2. StartItem(x) = Emit(x, <<Newline, mark>>)
    BY <1>1, <1>6 DEF StartItem
  <2> HIDE DEF lists, mark
  <2>3. Emit(x, <<Newline, mark>>)
          = Extractor(x.pc, Append(Append(x.parts, Newline), mark), x.skip, x.lists)
    BY <1>4, PartTypes, TwoMore
  <2>4. StartTag(x, "li") = Extractor(x.pc, Append(Append(x.parts, Newline), mark), x.skip, lists)
    BY <1>3, <2>1, <2>2, <2>3
  <2> QED
    BY <2>4 DEF mark, lists
<1> QED
  BY <1>5, <1>6

LEMMA StartOfBlock ==
    ASSUME NEW x \in Extractors, NEW tag, x.skip = 0,
           tag \in BLOCK \ (HEADINGS \cup LISTS \cup {"li"})
    PROVE  StartTag(x, tag) = Extractor(x.pc, Append(x.parts, Newline), x.skip, x.lists)
<1>1. tag \notin DROP \cup FURNITURE
  BY TagsDiffer DEF Hides
<1>2. StartTag(x, tag) = Emit(x, <<Newline>>)
  BY <1>1 DEF StartTag
<1> QED
  BY <1>2, PartTypes, OneMore

LEMMA StartOfInline ==
    ASSUME NEW x \in Extractors, NEW tag, x.skip = 0, tag \notin BLOCK \cup Hides
    PROVE  StartTag(x, tag) = x
<1>1. tag \notin DROP \cup FURNITURE /\ tag \notin HEADINGS /\ tag \notin LISTS /\ tag # "li"
  BY TagsDiffer DEF Hides
<1> QED
  BY <1>1 DEF StartTag

LEMMA EndOfHidden ==
    ASSUME NEW x \in Extractors, NEW tag, tag \in Hides, x.skip # 0
    PROVE  EndTag(x, tag) = Extractor(x.pc, x.parts, x.skip - 1, x.lists)
<1>1. EndTag(x, tag) = EndSkip(x)
  BY DEF EndTag, Hides
<1> QED
  BY <1>1 DEF EndSkip, Extractor, Extractors

LEMMA EndSkipped ==
    ASSUME NEW x \in Extractors, NEW tag, tag \notin Hides, x.skip # 0
    PROVE  EndTag(x, tag) = x
<1>1. x.skip > 0
  BY DEF Extractors
<1> QED
  BY <1>1 DEF EndTag, Hides

LEMMA EndOfList ==
    ASSUME NEW x \in Extractors, NEW tag, tag \in LISTS, x.skip = 0, x.lists # << >>
    PROVE  EndTag(x, tag)
             = Extractor(x.pc, IF Front(x.lists) = << >> THEN Append(x.parts, Newline) ELSE x.parts,
                         x.skip, Front(x.lists))
<1> DEFINE y == [x EXCEPT !.lists = Front(@)]
<1>1. tag \notin DROP \cup FURNITURE
  BY TagsDiffer DEF Hides
<1>2. EndTag(x, tag) = EndList(x)
  BY <1>1 DEF EndTag
<1>3. Front(x.lists) \in Seq(OpenLists)
  BY LastOne DEF Extractors
<1>4. y = Extractor(x.pc, x.parts, x.skip, Front(x.lists))
  BY DEF Extractor, Extractors
<1>5. /\ y \in Extractors /\ y.lists = Front(x.lists) /\ y.parts = x.parts
      /\ y.pc = x.pc /\ y.skip = x.skip
  BY <1>3, <1>4 DEF Extractor, Extractors
<1>6. EndList(x) = IF y.lists = << >> THEN Emit(y, <<Newline>>) ELSE y
  BY DEF EndList
<1>7. Emit(y, <<Newline>>) = Extractor(y.pc, Append(y.parts, Newline), y.skip, y.lists)
  BY <1>5, PartTypes, OneMore
<1> HIDE DEF y
<1> QED
  BY <1>2, <1>4, <1>5, <1>6, <1>7

LEMMA EndOfBlock ==
    ASSUME NEW x \in Extractors, NEW tag, x.skip = 0, tag \in BLOCK \ (LISTS \cup {"li"})
    PROVE  EndTag(x, tag) = Extractor(x.pc, Append(x.parts, Newline), x.skip, x.lists)
<1>1. tag \notin DROP \cup FURNITURE
  BY TagsDiffer DEF Hides
<1>2. EndTag(x, tag) = Emit(x, <<Newline>>)
  BY <1>1 DEF EndTag
<1> QED
  BY <1>2, PartTypes, OneMore

LEMMA EndOfOther ==
    ASSUME NEW x \in Extractors, NEW tag, x.skip = 0, tag \notin Hides,
           tag \notin BLOCK \/ tag = "li"
    PROVE  EndTag(x, tag) = x
<1>1. tag \notin DROP \cup FURNITURE /\ tag \notin LISTS
  BY TagsDiffer DEF Hides
<1> QED
  BY <1>1 DEF EndTag

-----------------------------------------------------------------------------
(* What each piece of markup makes of the fragment                         *)

\* The mark an element asks for when it begins.
OpeningMark(tag) ==
    IF tag = "li" THEN <<Mark(IF Top.tag = "ol" THEN Top.items + 1 ELSE 0, Lists(markup) - 1)>>
    ELSE IF tag \in HEADINGS THEN <<Mark(tag, 0)>> ELSE << >>
Child(tag) == [tag |-> tag, items |-> 0]

LEMMA SameOpen ==
    ASSUME NEW m, NEW n, m.open = n.open
    PROVE  Hidden(m) = Hidden(n) /\ Lists(m) = Lists(n)
  BY DEF Hidden, Lists

LEMMA OpenedIs ==
    ASSUME FragmentOK(html, markup), NEW tag, tag = "li" => markup.open # << >>
    PROVE  Opened(tag)
             = Fragment(Append(IF tag = "li" THEN Append(Front(markup.open), Counted(Top))
                               ELSE markup.open, Child(tag)),
                        markup.size + 1, markup.texts,
                        IF Hidden(markup) THEN markup.marks ELSE markup.marks \o OpeningMark(tag),
                        IF Breaks(markup, tag) /\ ~Hidden(markup) THEN "block" ELSE markup.between,
                        markup.gaps)
<1> DEFINE m == [IF Breaks(markup, tag) THEN Between(markup, "block") ELSE markup
                   EXCEPT !.size = @ + 1]
           number == IF Top.tag = "ol" THEN Top.items + 1 ELSE 0
           mark == IF tag = "li" THEN <<Mark(number, Lists(m) - 1)>>
                   ELSE IF tag \in HEADINGS THEN <<Mark(tag, 0)>> ELSE << >>
           parent == IF tag = "li" THEN [m EXCEPT !.open[Len(m.open)].items = @ + 1] ELSE m
           between == IF Breaks(markup, tag) /\ ~Hidden(markup) THEN "block" ELSE markup.between
           open == IF tag = "li" THEN Append(Front(markup.open), Counted(Top)) ELSE markup.open
           marks == IF Hidden(markup) THEN markup.marks ELSE markup.marks \o mark
<1>1. Opened(tag) = [parent EXCEPT !.open = Append(@, Child(tag)),
                                   !.marks = IF Hidden(m) THEN @ ELSE @ \o mark]
  BY DEF Opened, Child
<1>2. m = Fragment(markup.open, markup.size + 1, markup.texts, markup.marks, between, markup.gaps)
  <2>1. markup \in Fragments
    BY DEF FragmentOK
  <2>2. CASE Breaks(markup, tag)
    <3>1. m = [Between(markup, "block") EXCEPT !.size = @ + 1]
      BY <2>2
    <3> HIDE DEF m
    <3> QED
      BY <2>1, <2>2, <3>1 DEF Between, Fragment, Fragments
  <2>3. CASE ~Breaks(markup, tag)
    <3>1. m = [markup EXCEPT !.size = @ + 1]
      BY <2>3
    <3> HIDE DEF m
    <3> QED
      BY <2>1, <2>3, <3>1 DEF Fragment, Fragments
  <2> QED
    BY <2>2, <2>3
<1> HIDE DEF m
<1>3. m.open = markup.open /\ m.marks = markup.marks
  BY <1>2 DEF Fragment
<1>4. Hidden(m) = Hidden(markup) /\ Lists(m) = Lists(markup)
  BY <1>3, SameOpen
<1>5. mark = OpeningMark(tag)
  BY <1>4 DEF OpeningMark
<1> HIDE DEF mark
<1>6. parent = Fragment(open, markup.size + 1, markup.texts, markup.marks, between, markup.gaps)
  <2>1. CASE tag = "li"
    <3> DEFINE front == Front(markup.open)
    <3>1. front \in Seq(Elements) /\ Top \in Elements /\ markup.open = Append(front, Top)
      BY <2>1, TopIsLast
    <3>2. Counted(Top) \in Elements /\ Counted(Top) = [Top EXCEPT !.items = @ + 1]
      BY <3>1, CountedIsElement DEF Counted
    <3>3. parent = [m EXCEPT !.open = [m.open EXCEPT ![Len(m.open)]
                                         = [m.open[Len(m.open)] EXCEPT !.items = @ + 1]]]
      BY <2>1
    <3> HIDE DEF front
    <3>4. Len(m.open) = Len(front) + 1 /\ m.open[Len(m.open)] = Top /\ m.open = Append(front, Top)
      BY <1>3, <3>1
    <3>5. [m.open EXCEPT ![Len(m.open)] = Counted(Top)] = Append(front, Counted(Top))
      <4>1. WithLast(front, Top, Counted(Top)) = Append(front, Counted(Top))
        <5> DEFINE top == Top
                   counted == Counted(Top)
        <5>1. front \in Seq(Elements) /\ top \in Elements /\ counted \in Elements
          BY <3>1, <3>2
        <5> HIDE DEF top, counted
        <5>2. WithLast(front, top, counted) = Append(front, counted)
          BY <5>1, LastChanged
        <5> QED
          BY <5>2 DEF top, counted
      <4> QED
        BY <3>4, <4>1 DEF WithLast
    <3>6. parent = [m EXCEPT !.open = Append(front, Counted(Top))]
      BY <3>2, <3>3, <3>4, <3>5
    <3>7. open = Append(front, Counted(Top))
      BY <2>1 DEF front
    <3> HIDE DEF parent, open, between
    <3> QED
      BY <1>2, <3>6, <3>7 DEF Fragment
  <2>2. CASE tag # "li"
    BY <1>2, <2>2
  <2> QED
    BY <2>1, <2>2
<1> HIDE DEF parent, open, between
<1>7. Opened(tag) = Fragment(Append(open, Child(tag)), markup.size + 1, markup.texts,
                             IF Hidden(m) THEN markup.marks ELSE markup.marks \o mark,
                             between, markup.gaps)
  BY <1>1, <1>6 DEF Fragment
<1> QED
  BY <1>4, <1>5, <1>7 DEF open, between

LEMMA ClosedIs ==
    ASSUME FragmentOK(html, markup), NEW m, m = [markup EXCEPT !.open = Front(@)]
    PROVE  /\ m.open = Front(markup.open)
           /\ Closed = Fragment(Front(markup.open), markup.size, markup.texts, markup.marks,
                                IF Breaks(m, Top.tag) /\ Top.tag # "li" /\ ~Hidden(m) THEN "block"
                                ELSE markup.between, markup.gaps)
<1>1. m = Fragment(Front(markup.open), markup.size, markup.texts, markup.marks, markup.between,
                   markup.gaps)
  BY DEF FragmentOK, Fragments, Fragment
<1>2. Closed = IF Breaks(m, Top.tag) /\ Top.tag # "li" THEN Between(m, "block") ELSE m
  BY DEF Closed
<1>3. Between(m, "block") = [m EXCEPT !.between = IF Hidden(m) THEN m.between ELSE "block"]
  BY DEF Between
<1> QED
  BY <1>1, <1>2, <1>3 DEF Fragment

-----------------------------------------------------------------------------
(* The steps                                                               *)

LEMMA ChildTyped ==
    ASSUME NEW tag \in Tags
    PROVE  Child(tag) \in Elements /\ Child(tag).tag = tag /\ Child(tag).items = 0
  BY DEF Child, Elements

\* What begins inside of what is dropped, or begins to drop.
LEMMA StartInHidden ==
    ASSUME FragmentOK(html, markup), NEW tag \in Tags, HandleStart(tag),
           tag \in Hides \/ html.skip # 0
    PROVE  FragmentOK(html', markup')
<1> DEFINE e == Child(tag)
           open == IF tag = "li" THEN Append(Front(markup.open), Counted(Top)) ELSE markup.open
<1>1. html' = StartTag(html, tag) /\ markup' = Opened(tag) /\ Fits(tag)
  BY DEF HandleStart
<1>2. /\ html \in Extractors /\ html = Extractor(html.pc, html.parts, html.skip, html.lists)
      /\ html.pc \in {"idle", "fed"} /\ html.skip \in Nat /\ html.lists \in Seq(OpenLists)
      /\ markup.open \in Seq(Elements) /\ markup.size \in Nat /\ markup.size + 1 \in Nat
      /\ markup.marks \in Seq(Parts)
      /\ NestOK(html.skip, html.lists, markup.open)
      /\ PartsOK(html.parts, markup.texts, markup.marks, markup.gaps, markup.between)
  BY Typed
<1>3. e \in Elements /\ e.tag = tag
  BY ChildTyped
<1>4. tag = "li" => markup.open # << >> /\ Top.tag \in LISTS
  <2>1. tag = "li" => Top.tag \in LISTS
    BY <1>1 DEF Fits
  <2>2. markup.open = << >> => Top.tag = "body"
    BY DEF Top
  <2> QED
    BY <2>1, <2>2, TagsDiffer
<1>5. markup' = Fragment(Append(open, e), markup.size + 1, markup.texts,
                   IF Hidden(markup) THEN markup.marks ELSE markup.marks \o OpeningMark(tag),
                   IF Breaks(markup, tag) /\ ~Hidden(markup) THEN "block" ELSE markup.between,
                   markup.gaps)
  BY <1>1, <1>4, OpenedIs
<1>6. CASE tag \in Hides
  <2>1. /\ tag # "li" /\ tag \notin HEADINGS /\ tag \notin LISTS /\ ~Breaks(markup, tag)
    BY <1>6, TagsDiffer DEF Breaks
  <2>2. markup.marks \o OpeningMark(tag) = markup.marks
    BY <1>2, <2>1 DEF OpeningMark
  <2>3. markup' = Fragment(Append(markup.open, e), markup.size + 1, markup.texts, markup.marks,
                           markup.between, markup.gaps)
    BY <1>5, <2>1, <2>2
  <2>4. html' = Extractor(html.pc, html.parts, html.skip + 1, html.lists)
    BY <1>1, <1>2, <1>6, StartOfHidden
  <2>5. NestOK(html.skip + 1, html.lists, Append(markup.open, e))
    <3>1. html.skip + 1 \in Nat /\ e.tag \in Hides /\ e.tag \notin LISTS
      BY <1>2, <1>3, <1>6, <2>1
    <3> HIDE DEF e
    <3> QED
      BY <1>2, <1>3, <3>1, NestOther
  <2> QED
    BY <1>2, <2>3, <2>4, <2>5, Rebuilt
<1>7. CASE tag \notin Hides /\ html.skip # 0
  <2>1. Hidden(markup)
    BY <1>7, HiddenIsSkipped
  <2>2. markup' = Fragment(Append(open, e), markup.size + 1, markup.texts, markup.marks,
                           markup.between, markup.gaps)
    BY <1>5, <2>1
  <2>3. html' = Extractor(html.pc, html.parts, html.skip, html.lists)
    BY <1>1, <1>2, <1>7, StartSkipped
  <2>4. open \in Seq(Elements) /\ NestOK(html.skip, html.lists, open)
    <3>1. CASE tag = "li"
      <4> DEFINE front == Front(markup.open)
                 top == Top
      <4>1. /\ front \in Seq(Elements) /\ top \in Elements /\ top.tag \in LISTS
            /\ markup.open = Append(front, top) /\ open = Append(front, Counted(top))
        BY <1>4, <3>1, TopIsLast
      <4> HIDE DEF front, top, open
      <4>2. NestOK(html.skip, html.lists, Append(front, top))
        BY <1>2, <4>1
      <4>3. NestOK(html.skip, html.lists, open)
        BY <1>7, <4>1, <4>2, NestItem
      <4> QED
        BY <4>3 DEF NestOK
    <3>2. CASE tag # "li"
      BY <1>2, <3>2
    <3> QED
      BY <3>1, <3>2
  <2> HIDE DEF e, open
  <2>5. Hiding(open) # {}
    BY <1>7, <2>4, FS_EmptySet DEF NestOK
  <2>6. NestOK(html.skip, html.lists, Append(open, e))
    BY <1>2, <1>3, <1>7, <2>4, <2>5, NestOther
  <2> QED
    BY <1>2, <2>2, <2>3, <2>6, Rebuilt
<1> QED
  BY <1>6, <1>7

\* What begins where it is seen: headings, blocks and inline markup.
LEMMA StartElement ==
    ASSUME FragmentOK(html, markup), NEW tag \in Tags, HandleStart(tag),
           tag \notin Hides \cup LISTS \cup {"li"}, html.skip = 0
    PROVE  FragmentOK(html', markup')
<1> DEFINE e == Child(tag)
           between == IF Breaks(markup, tag) THEN "block" ELSE markup.between
           marks == markup.marks \o OpeningMark(tag)
<1>1. html' = StartTag(html, tag) /\ markup' = Opened(tag)
  BY DEF HandleStart
<1>2. /\ html \in Extractors /\ html = Extractor(html.pc, html.parts, html.skip, html.lists)
      /\ html.pc \in {"idle", "fed"} /\ html.skip \in Nat
      /\ markup.open \in Seq(Elements) /\ markup.size + 1 \in Nat /\ markup.marks \in Seq(Parts)
      /\ NestOK(html.skip, html.lists, markup.open)
      /\ PartsOK(html.parts, markup.texts, markup.marks, markup.gaps, markup.between)
  BY Typed
<1>3. e \in Elements /\ e.tag = tag
  BY ChildTyped
<1>4. markup' = Fragment(Append(markup.open, e), markup.size + 1, markup.texts, marks, between,
                         markup.gaps)
  <2>1. ~Hidden(markup)
    BY HiddenIsSkipped
  <2> QED
    BY <1>1, <2>1, OpenedIs
<1>5. NestOK(html.skip, html.lists, Append(markup.open, e))
  <2>1. e.tag \notin Hides /\ e.tag \notin LISTS
    BY <1>3
  <2> HIDE DEF e
  <2> QED
    BY <1>2, <1>3, <2>1, NestOther
<1> HIDE DEF e
<1>6. CASE tag \in HEADINGS
  <2> DEFINE mark == Mark(tag, 0)
  <2>1. mark \in Parts /\ mark.kind = "mark" /\ "block" \in Gaps
    BY <1>6, PartTypes, Kinds DEF Gaps
  <2>2. between = "block"
    BY <1>6, TagsDiffer DEF Breaks
  <2>3. marks = Append(markup.marks, mark)
    BY <1>2, <1>6, <2>1 DEF OpeningMark
  <2>4. html' = Extractor(html.pc, Append(Append(html.parts, Newline), mark), html.skip, html.lists)
    BY <1>1, <1>2, <1>6, StartOfHeading
  <2> HIDE DEF mark, marks, between
  <2>5. PartsOK(Append(html.parts, Newline), markup.texts, markup.marks, markup.gaps, "block")
    BY <1>2, <2>1, NewlineAppended
  <2>6. PartsOK(Append(Append(html.parts, Newline), mark), markup.texts, marks, markup.gaps, between)
    BY <2>1, <2>2, <2>3, <2>5, MarkAppended
  <2> QED
    BY <1>2, <1>4, <1>5, <2>4, <2>6, Rebuilt
<1>7. CASE tag \notin HEADINGS
  <2>1. marks = markup.marks
    <3>1. OpeningMark(tag) = << >>
      BY <1>7 DEF OpeningMark
    <3>2. markup.marks \o << >> = markup.marks
      BY <1>2
    <3> QED
      BY <3>1, <3>2
  <2>2. CASE tag \in BLOCK
    <3>1. between = "block" /\ "block" \in Gaps
      BY <2>2 DEF Breaks, Gaps
    <3>2. html' = Extractor(html.pc, Append(html.parts, Newline), html.skip, html.lists)
      BY <1>1, <1>2, <1>7, <2>2, StartOfBlock
    <3> HIDE DEF marks, between
    <3>3. PartsOK(Append(html.parts, Newline), markup.texts, marks, markup.gaps, between)
      BY <1>2, <2>1, <3>1, NewlineAppended
    <3> QED
      BY <1>2, <1>4, <1>5, <3>2, <3>3, Rebuilt
  <2>3. CASE tag \notin BLOCK
    <3>1. between = markup.between
      BY <2>3 DEF Breaks
    <3>2. html' = Extractor(html.pc, html.parts, html.skip, html.lists)
      BY <1>1, <1>2, <2>3, StartOfInline
    <3> HIDE DEF marks, between
    <3> QED
      BY <1>2, <1>4, <1>5, <2>1, <3>1, <3>2, Rebuilt
  <2> QED
    BY <2>2, <2>3
<1> QED
  BY <1>6, <1>7

LEMMA StartList ==
    ASSUME FragmentOK(html, markup), NEW tag \in Tags, HandleStart(tag),
           tag \in LISTS, html.skip = 0
    PROVE  FragmentOK(html', markup')
<1> DEFINE e == Child(tag)
           between == IF html.lists = << >> THEN "block" ELSE markup.between
           parts == IF html.lists = << >> THEN Append(html.parts, Newline) ELSE html.parts
<1>1. html' = StartTag(html, tag) /\ markup' = Opened(tag)
  BY DEF HandleStart
<1>2. /\ html \in Extractors /\ html.pc \in {"idle", "fed"} /\ html.lists \in Seq(OpenLists)
      /\ markup.open \in Seq(Elements) /\ markup.size + 1 \in Nat /\ markup.marks \in Seq(Parts)
      /\ NestOK(html.skip, html.lists, markup.open)
      /\ PartsOK(html.parts, markup.texts, markup.marks, markup.gaps, markup.between)
  BY Typed
<1>3. e \in Elements /\ e.tag = tag /\ Listed(e) = [tag |-> tag, index |-> 0]
  BY ChildTyped DEF Listed
<1>4. Breaks(markup, tag) <=> html.lists = << >>
  <2>1. Lists(markup) = Len(html.lists)
    BY <1>2, ShownLists
  <2> QED
    BY <1>2, <2>1, TagsDiffer DEF Breaks
<1>5. markup' = Fragment(Append(markup.open, e), markup.size + 1, markup.texts, markup.marks, between,
                         markup.gaps)
  <2>1. ~Hidden(markup)
    BY HiddenIsSkipped
  <2>2. tag # "li" /\ markup.marks \o OpeningMark(tag) = markup.marks
    <3>1. tag # "li" /\ tag \notin HEADINGS
      BY TagsDiffer
    <3> QED
      BY <1>2, <3>1 DEF OpeningMark
  <2> QED
    BY <1>1, <1>4, <2>1, <2>2, OpenedIs
<1>6. html' = Extractor(html.pc, parts, html.skip, Append(html.lists, Listed(e)))
  BY <1>1, <1>2, <1>3, StartOfList
<1> HIDE DEF e
<1>7. NestOK(html.skip, Append(html.lists, Listed(e)), Append(markup.open, e))
  BY <1>2, <1>3, NestList
<1>8. PartsOK(parts, markup.texts, markup.marks, markup.gaps, between)
  <2>1. "block" \in Gaps
    BY DEF Gaps
  <2>2. PartsOK(Append(html.parts, Newline), markup.texts, markup.marks, markup.gaps, "block")
    BY <1>2, <2>1, NewlineAppended
  <2> QED
    BY <1>2, <2>2
<1> HIDE DEF parts, between
<1> QED
  BY <1>2, <1>5, <1>6, <1>7, <1>8, Rebuilt

LEMMA StartAnItem ==
    ASSUME FragmentOK(html, markup), "li" \in Tags, HandleStart("li"), html.skip = 0
    PROVE  FragmentOK(html', markup')
<1> DEFINE e == Child("li")
           front == Front(markup.open)
           top == Top
           number == IF top.tag = "ol" THEN top.items + 1 ELSE 0
           mark == Mark(number, Len(html.lists) - 1)
           lists == Append(Front(html.lists), Listed(Counted(top)))
<1>1. html' = StartTag(html, "li") /\ markup' = Opened("li") /\ Fits("li")
  BY DEF HandleStart
<1>2. /\ html \in Extractors /\ html.pc \in {"idle", "fed"} /\ html.lists \in Seq(OpenLists)
      /\ markup.size + 1 \in Nat /\ markup.marks \in Seq(Parts)
      /\ NestOK(html.skip, html.lists, markup.open)
      /\ PartsOK(html.parts, markup.texts, markup.marks, markup.gaps, markup.between)
  BY Typed
<1>3. e \in Elements /\ e.tag = "li"
  BY ChildTyped
<1>4. markup.open # << >> /\ top.tag \in LISTS
  <2>1. Top.tag \in LISTS
    BY <1>1 DEF Fits
  <2>2. markup.open = << >> => Top.tag = "body"
    BY DEF Top
  <2> QED
    BY <2>1, <2>2, TagsDiffer
<1>5. front \in Seq(Elements) /\ top \in Elements /\ markup.open = Append(front, top)
  BY <1>4, TopIsLast
<1>6. /\ Counted(top) \in Elements /\ Counted(top).tag = top.tag
      /\ Counted(top).items = top.items + 1 /\ top.items \in Nat
  BY <1>5, CountedIsElement
<1>7. Lists(markup) = Len(html.lists)
  BY <1>2, ShownLists
<1>8. markup' = Fragment(Append(Append(front, Counted(top)), e), markup.size + 1, markup.texts,
                         Append(markup.marks, mark), "block", markup.gaps)
  <2>1. ~Hidden(markup)
    BY HiddenIsSkipped
  <2>2. Breaks(markup, "li")
    BY TagsDiffer DEF Breaks
  <2>3. OpeningMark("li") = <<mark>>
    BY <1>7 DEF OpeningMark
  <2>4. markup' = Fragment(Append(Append(front, Counted(top)), e), markup.size + 1, markup.texts,
                           markup.marks \o <<mark>>, "block", markup.gaps)
    BY <1>1, <1>4, <2>1, <2>2, <2>3, OpenedIs
  <2> HIDE DEF mark
  <2>5. markup.marks \o <<mark>> = Append(markup.marks, mark)
    BY <1>2
  <2> QED
    BY <2>4, <2>5
<1> HIDE DEF front, top, e
<1>9. /\ html.lists # << >> /\ Last(html.lists) = Listed(top)
      /\ NestOK(0, lists, Append(front, Counted(top)))
  <2>1. NestOK(html.skip, html.lists, Append(front, top))
    BY <1>2, <1>5
  <2> QED
    BY <1>4, <1>5, <2>1, NestItem
<1>10. NestOK(html.skip, lists, Append(Append(front, Counted(top)), e))
  <2>1. e.tag \notin Hides /\ e.tag \notin LISTS /\ 0 \in Nat
    BY <1>3, TagsDiffer
  <2>2. Append(front, Counted(top)) \in Seq(Elements)
    BY <1>5, <1>6
  <2> HIDE DEF lists
  <2> QED
    BY <1>3, <1>9, <2>1, <2>2, NestOther
<1>11. html' = Extractor(html.pc, Append(Append(html.parts, Newline), mark), html.skip, lists)
  <2> DEFINE last == Last(html.lists)
             counted == [tag |-> last.tag,
                         index |-> IF last.tag = "ol" THEN last.index + 1 ELSE last.index]
             its == Mark(IF last.tag = "ol" THEN last.index + 1 ELSE 0, Len(html.lists) - 1)
  <2>1. html' = Extractor(html.pc, Append(Append(html.parts, Newline), its), html.skip,
                          Append(Front(html.lists), counted))
    BY <1>1, <1>2, <1>9, StartOfItem
  <2>2. last.tag = top.tag /\ (top.tag = "ol" => last.index = top.items)
        /\ (top.tag # "ol" => last.index = 0)
    BY <1>9 DEF Listed
  <2>3. counted = Listed(Counted(top))
    BY <1>6, <2>2 DEF Listed
  <2>4. its = mark
    BY <2>2
  <2> HIDE DEF its, counted
  <2> QED
    BY <2>1, <2>3, <2>4
<1>12. mark \in Parts /\ mark.kind = "mark" /\ "block" \in Gaps
  <2>1. number \in Nat /\ Len(html.lists) - 1 \in Nat
    BY <1>2, <1>6, <1>9
  <2> QED
    BY <2>1, PartTypes, Kinds DEF Gaps
<1> HIDE DEF mark, lists
<1>13. PartsOK(Append(html.parts, Newline), markup.texts, markup.marks, markup.gaps, "block")
  BY <1>2, <1>12, NewlineAppended
<1>14. PartsOK(Append(Append(html.parts, Newline), mark), markup.texts, Append(markup.marks, mark),
               markup.gaps, "block")
  BY <1>12, <1>13, MarkAppended
<1> QED
  BY <1>2, <1>8, <1>10, <1>11, <1>14, Rebuilt

LEMMA HandleStartOK ==
    ASSUME FragmentOK(html, markup), NEW tag \in Tags, HandleStart(tag)
    PROVE  FragmentOK(html', markup')
<1>1. CASE tag \in Hides \/ html.skip # 0
  BY <1>1, StartInHidden
<1>2. CASE tag \notin Hides /\ html.skip = 0 /\ tag \in LISTS
  BY <1>2, StartList
<1>3. CASE html.skip = 0 /\ tag = "li"
  BY <1>3, StartAnItem
<1>4. CASE tag \notin Hides \cup LISTS \cup {"li"} /\ html.skip = 0
  BY <1>4, StartElement
<1> QED
  BY <1>1, <1>2, <1>3, <1>4

LEMMA HandleEndOK ==
    ASSUME FragmentOK(html, markup), HandleEnd
    PROVE  FragmentOK(html', markup')
<1> DEFINE front == Front(markup.open)
           top == Top
           m == [markup EXCEPT !.open = Front(@)]
           between == IF Breaks(m, top.tag) /\ top.tag # "li" /\ ~Hidden(m) THEN "block"
                      ELSE markup.between
<1>1. html' = EndTag(html, top.tag) /\ markup' = Closed /\ markup.open # << >>
  BY DEF HandleEnd
<1>2. /\ html \in Extractors /\ html = Extractor(html.pc, html.parts, html.skip, html.lists)
      /\ html.pc \in {"idle", "fed"} /\ html.skip \in Nat /\ markup.size \in Nat
      /\ NestOK(html.skip, html.lists, markup.open)
      /\ PartsOK(html.parts, markup.texts, markup.marks, markup.gaps, markup.between)
  BY Typed
<1>3. front \in Seq(Elements) /\ top \in Elements /\ markup.open = Append(front, top)
  BY <1>1, TopIsLast
<1>4. m.open = front
  BY ClosedIs
<1>5. markup' = Fragment(front, markup.size, markup.texts, markup.marks, between, markup.gaps)
  BY <1>1, ClosedIs
<1> HIDE DEF front, top, m
<1>6. NestOK(html.skip, html.lists, Append(front, top))
  BY <1>2, <1>3
<1>7. \A skip, lists : NestOK(skip, lists, front) => (Hidden(m) <=> skip # 0)
  <2>1. Hidden(m) <=> \E i \in DOMAIN front : front[i].tag \in Hides
    BY <1>4 DEF Hidden, Hides
  <2> QED
    BY <2>1, NothingHides
<1>8. CASE top.tag \in Hides
  <2>1. top.tag \notin LISTS /\ ~Breaks(m, top.tag)
    BY <1>8, TagsDiffer DEF Breaks
  <2>2. between = markup.between
    BY <2>1
  <2>3. html.skip - 1 \in Nat /\ html.skip # 0
    <3>1. html.skip = Cardinality(Hiding(front)) + 1 /\ Cardinality(Hiding(front)) \in Nat
      BY <1>3, <1>6, <1>8, HidingOfAppend, NestPlaces DEF NestOK
    <3> QED
      BY <3>1
  <2>4. html' = Extractor(html.pc, html.parts, html.skip - 1, html.lists)
    BY <1>1, <1>2, <1>8, <2>3, EndOfHidden
  <2>5. NestOK(html.skip - 1, html.lists, front)
    <3>1. html.skip = html.skip - 1 + 1
      BY <1>2
    <3> QED
      BY <1>2, <1>3, <1>6, <1>8, <2>1, <2>3, <3>1, NestOther
  <2> HIDE DEF between
  <2> QED
    BY <1>2, <1>5, <2>2, <2>4, <2>5, Rebuilt
<1>9. CASE top.tag \notin Hides /\ html.skip # 0
  <2>1. html' = Extractor(html.pc, html.parts, html.skip, html.lists)
    BY <1>1, <1>2, <1>9, EndSkipped
  <2>2. Hiding(front) # {}
    <3>1. html.skip = Cardinality(Hiding(front))
      BY <1>3, <1>6, <1>9, HidingOfAppend DEF NestOK
    <3> QED
      BY <1>9, <3>1, FS_EmptySet
  <2>3. NestOK(html.skip, html.lists, front)
    BY <1>2, <1>3, <1>6, <1>9, <2>2, NestOther
  <2>4. Hidden(m)
    BY <1>7, <1>9, <2>3
  <2>5. between = markup.between
    BY <2>4
  <2> HIDE DEF between
  <2> QED
    BY <1>2, <1>5, <2>1, <2>3, <2>5, Rebuilt
<1>10. CASE html.skip = 0 /\ top.tag \in LISTS
  <2> DEFINE lists == Front(html.lists)
             parts == IF lists = << >> THEN Append(html.parts, Newline) ELSE html.parts
  <2>1. html.lists # << >> /\ NestOK(0, lists, front)
    BY <1>3, <1>6, <1>10, NestListEnds
  <2>2. html' = Extractor(html.pc, parts, html.skip, lists)
    BY <1>1, <1>2, <1>10, <2>1, EndOfList
  <2> HIDE DEF lists
  <2>3. ~Hidden(m)
    BY <1>7, <2>1
  <2>4. Breaks(m, top.tag) <=> lists = << >>
    <3>1. Lists(m) = Len(lists)
      <4>1. NestOK(0, lists, m.open)
        BY <1>4, <2>1
      <4> QED
        BY <4>1, ShownLists
    <3>2. lists \in Seq(OpenLists)
      BY <2>1 DEF NestOK
    <3> QED
      BY <1>10, <3>1, <3>2, TagsDiffer DEF Breaks
  <2>5. between = IF lists = << >> THEN "block" ELSE markup.between
    <3>1. top.tag # "li"
      BY <1>10, TagsDiffer
    <3> QED
      BY <2>3, <2>4, <3>1
  <2> HIDE DEF between
  <2>6. PartsOK(parts, markup.texts, markup.marks, markup.gaps, between)
    <3>1. "block" \in Gaps
      BY DEF Gaps
    <3>2. PartsOK(Append(html.parts, Newline), markup.texts, markup.marks, markup.gaps, "block")
      BY <1>2, <3>1, NewlineAppended
    <3> QED
      BY <1>2, <2>5, <3>2
  <2>7. NestOK(html.skip, lists, front)
    BY <1>10, <2>1
  <2> HIDE DEF parts
  <2> QED
    BY <1>2, <1>5, <2>2, <2>6, <2>7, Rebuilt
<1>11. CASE html.skip = 0 /\ top.tag \notin Hides \cup LISTS
  <2>1. NestOK(html.skip, html.lists, front)
    BY <1>2, <1>3, <1>6, <1>11, NestOther
  <2>2. ~Hidden(m)
    BY <1>7, <1>11, <2>1
  <2>3. CASE top.tag \in BLOCK /\ top.tag # "li"
    <3>1. between = "block" /\ "block" \in Gaps
      BY <1>11, <2>2, <2>3 DEF Breaks, Gaps
    <3>2. html' = Extractor(html.pc, Append(html.parts, Newline), html.skip, html.lists)
      BY <1>1, <1>2, <1>11, <2>3, EndOfBlock
    <3> HIDE DEF between
    <3>3. PartsOK(Append(html.parts, Newline), markup.texts, markup.marks, markup.gaps, between)
      BY <1>2, <3>1, NewlineAppended
    <3> QED
      BY <1>2, <1>5, <2>1, <3>2, <3>3, Rebuilt
  <2>4. CASE top.tag \notin BLOCK \/ top.tag = "li"
    <3>1. between = markup.between
      BY <2>4 DEF Breaks
    <3>2. html' = Extractor(html.pc, html.parts, html.skip, html.lists)
      BY <1>1, <1>2, <1>11, <2>4, EndOfOther
    <3> HIDE DEF between
    <3> QED
      BY <1>2, <1>5, <2>1, <3>1, <3>2, Rebuilt
  <2> QED
    BY <2>3, <2>4
<1> QED
  BY <1>8, <1>9, <1>10, <1>11

LEMMA BetweenIs ==
    ASSUME FragmentOK(html, markup), NEW what
    PROVE  [Between(markup, what) EXCEPT !.size = @ + 1]
             = Fragment(markup.open, markup.size + 1, markup.texts, markup.marks,
                        IF Hidden(markup) THEN markup.between ELSE what, markup.gaps)
<1> DEFINE between == IF Hidden(markup) THEN markup.between ELSE what
<1>1. markup = Fragment(markup.open, markup.size, markup.texts, markup.marks, markup.between,
                        markup.gaps)
  BY Typed
<1>2. Between(markup, what) = [markup EXCEPT !.between = between]
  BY DEF Between
<1> HIDE DEF between
<1>3. [markup EXCEPT !.between = between]
        = Fragment(markup.open, markup.size, markup.texts, markup.marks, between, markup.gaps)
  BY <1>1 DEF Fragment
<1>4. [Between(markup, what) EXCEPT !.size = @ + 1]
        = Fragment(markup.open, markup.size + 1, markup.texts, markup.marks, between, markup.gaps)
  <2> DEFINE m == Between(markup, what)
  <2>1. m = Fragment(markup.open, markup.size, markup.texts, markup.marks, between, markup.gaps)
    BY <1>2, <1>3
  <2> HIDE DEF m
  <2>2. [m EXCEPT !.size = @ + 1]
          = Fragment(markup.open, markup.size + 1, markup.texts, markup.marks, between, markup.gaps)
    BY <2>1 DEF Fragment
  <2> QED
    BY <2>2 DEF m
<1> QED
  BY <1>4 DEF between

\* A line break: its start is a newline, and so is its end.
LEMMA HandleBreakOK ==
    ASSUME FragmentOK(html, markup), HandleBreak
    PROVE  FragmentOK(html', markup')
<1>1. /\ html' = StartTag(html, "br") \/ html' = EndTag(StartTag(html, "br"), "br")
      /\ markup' = [Between(markup, "block") EXCEPT !.size = @ + 1]
  BY DEF HandleBreak
<1>2. /\ html \in Extractors /\ html = Extractor(html.pc, html.parts, html.skip, html.lists)
      /\ html.pc \in {"idle", "fed"} /\ html.skip \in Nat /\ markup.size + 1 \in Nat
      /\ NestOK(html.skip, html.lists, markup.open)
      /\ PartsOK(html.parts, markup.texts, markup.marks, markup.gaps, markup.between)
  BY Typed
<1>3. "br" \notin Hides /\ "br" \in BLOCK \ (HEADINGS \cup LISTS \cup {"li"})
      /\ "br" \in BLOCK \ (LISTS \cup {"li"}) /\ "block" \in Gaps
  BY TagsDiffer DEF Gaps
<1>4. CASE html.skip # 0
  <2>1. html' = html
    BY <1>1, <1>2, <1>3, <1>4, StartSkipped, EndSkipped
  <2>2. Hidden(markup)
    BY <1>4, HiddenIsSkipped
  <2>3. markup' = Fragment(markup.open, markup.size + 1, markup.texts, markup.marks,
                           markup.between, markup.gaps)
    BY <1>1, <2>2, BetweenIs
  <2>4. html' = Extractor(html.pc, html.parts, html.skip, html.lists)
    BY <1>2, <2>1
  <2> QED
    BY <1>2, <2>3, <2>4, Rebuilt
<1>5. CASE html.skip = 0
  <2> DEFINE one == Append(html.parts, Newline)
             two == Append(one, Newline)
  <2>1. markup' = Fragment(markup.open, markup.size + 1, markup.texts, markup.marks, "block",
                           markup.gaps)
    <3>1. ~Hidden(markup)
      BY <1>5, HiddenIsSkipped
    <3> QED
      BY <1>1, <3>1, BetweenIs
  <2>2. PartsOK(one, markup.texts, markup.marks, markup.gaps, "block")
    BY <1>2, <1>3, NewlineAppended
  <2>3. PartsOK(two, markup.texts, markup.marks, markup.gaps, "block")
    BY <1>3, <2>2, NewlineAppended
  <2>4. StartTag(html, "br") = Extractor(html.pc, one, html.skip, html.lists)
    BY <1>2, <1>3, <1>5, StartOfBlock
  <2> HIDE DEF one
  <2>5. EndTag(StartTag(html, "br"), "br") = Extractor(html.pc, two, html.skip, html.lists)
    <3> DEFINE x == Extractor(html.pc, one, html.skip, html.lists)
    <3>1. x \in Extractors
      BY <1>2, <2>2 DEF Extractor, Extractors, NestOK, PartsOK
    <3>2. x.pc = html.pc /\ x.parts = one /\ x.skip = html.skip /\ x.lists = html.lists
      BY DEF Extractor
    <3> HIDE DEF x
    <3>3. EndTag(x, "br") = Extractor(x.pc, Append(x.parts, Newline), x.skip, x.lists)
      BY <1>3, <1>5, <3>1, <3>2, EndOfBlock
    <3> QED
      BY <2>4, <3>2, <3>3 DEF x
  <2> HIDE DEF two
  <2>6. CASE html' = StartTag(html, "br")
    BY <1>2, <2>1, <2>2, <2>4, <2>6, Rebuilt
  <2>7. CASE html' = EndTag(StartTag(html, "br"), "br")
    BY <1>2, <2>1, <2>3, <2>5, <2>7, Rebuilt
  <2> QED
    BY <1>1, <2>6, <2>7
<1> QED
  BY <1>4, <1>5

LEMMA HandleDataOK ==
    ASSUME FragmentOK(html, markup), HandleData
    PROVE  FragmentOK(html', markup')
<1> DEFINE m == [markup EXCEPT !.size = @ + 1]
           text == TextPart(markup.size + 1)
<1>1. html' = WordData(html, markup.size + 1) /\ markup' = Said
  BY DEF HandleData
<1>2. /\ html \in Extractors /\ html = Extractor(html.pc, html.parts, html.skip, html.lists)
      /\ html.pc \in {"idle", "fed"} /\ html.skip \in Nat /\ markup.size + 1 \in Nat
      /\ markup = Fragment(markup.open, markup.size, markup.texts, markup.marks, markup.between,
                           markup.gaps)
      /\ NestOK(html.skip, html.lists, markup.open)
      /\ PartsOK(html.parts, markup.texts, markup.marks, markup.gaps, markup.between)
  BY Typed
<1>3. /\ m = Fragment(markup.open, markup.size + 1, markup.texts, markup.marks, markup.between,
                      markup.gaps)
      /\ m.open = markup.open /\ m.size = markup.size + 1 /\ m.between = markup.between
  BY <1>2 DEF Fragment
<1>4. Said = IF Hidden(m) THEN m
             ELSE [m EXCEPT !.texts = Append(@, TextPart(m.size)), !.gaps = Append(@, m.between),
                            !.between = "none"]
  BY DEF Said
<1> HIDE DEF m
<1>5. Hidden(m) <=> html.skip # 0
  BY <1>3, SameOpen, HiddenIsSkipped
<1>6. CASE html.skip # 0
  <2>1. html' = Extractor(html.pc, html.parts, html.skip, html.lists) /\ markup' = m
    BY <1>1, <1>2, <1>4, <1>5, <1>6 DEF WordData
  <2> QED
    BY <1>2, <1>3, <2>1, Rebuilt
<1>7. CASE html.skip = 0
  <2>1. text \in Parts /\ text.kind = "text"
    BY <1>2, PartTypes, Kinds
  <2>2. markup' = Fragment(markup.open, markup.size + 1, Append(markup.texts, text), markup.marks,
                           "none", Append(markup.gaps, markup.between))
    BY <1>1, <1>3, <1>4, <1>5, <1>7 DEF Fragment
  <2>3. WordData(html, markup.size + 1) = Emit(html, <<text>>)
    BY <1>7 DEF WordData
  <2> HIDE DEF text
  <2>4. html' = Extractor(html.pc, Append(html.parts, text), html.skip, html.lists)
    BY <1>1, <1>2, <2>1, <2>3, OneMore
  <2>5. PartsOK(Append(html.parts, text), Append(markup.texts, text), markup.marks,
                Append(markup.gaps, markup.between), "none")
    BY <1>2, <2>1, TextAppended
  <2> QED
    BY <1>2, <2>2, <2>4, <2>5, Rebuilt
<1> QED
  BY <1>2, <1>6, <1>7

LEMMA HandleBlankOK ==
    ASSUME FragmentOK(html, markup), HandleBlank
    PROVE  FragmentOK(html', markup')
<1> DEFINE what == IF markup.between = "none" THEN "blank" ELSE markup.between
<1>1. html' = BlankData(html) /\ markup' = [Between(markup, what) EXCEPT !.size = @ + 1]
  BY DEF HandleBlank
<1>2. /\ html \in Extractors /\ html = Extractor(html.pc, html.parts, html.skip, html.lists)
      /\ html.pc \in {"idle", "fed"} /\ html.skip \in Nat /\ markup.size + 1 \in Nat
      /\ markup.between \in Gaps
      /\ NestOK(html.skip, html.lists, markup.open)
      /\ PartsOK(html.parts, markup.texts, markup.marks, markup.gaps, markup.between)
  BY Typed
<1>3. /\ what \in Gaps
      /\ what # "block" \/ markup.between = "block"
      /\ markup.between # "none" => what = markup.between
      /\ markup.between = "none" => what = "blank"
  BY <1>2 DEF Gaps
<1> HIDE DEF what
<1>4. Hidden(markup) <=> html.skip # 0
  BY HiddenIsSkipped
<1>5. markup' = Fragment(markup.open, markup.size + 1, markup.texts, markup.marks,
                         IF Hidden(markup) THEN markup.between ELSE what, markup.gaps)
  BY <1>1, BetweenIs
<1>6. CASE html.skip # 0
  <2>1. html' = Extractor(html.pc, html.parts, html.skip, html.lists)
    BY <1>1, <1>2, <1>6 DEF BlankData
  <2> QED
    BY <1>2, <1>4, <1>5, <1>6, <2>1, Rebuilt
<1>7. CASE /\ html.skip = 0 /\ html.parts # << >>
           /\ Last(html.parts).kind \notin {"space", "newline", "mark"}
  <2>1. BlankData(html) = Emit(html, <<Space>>)
    BY <1>7 DEF BlankData
  <2>2. html' = Extractor(html.pc, Append(html.parts, Space), html.skip, html.lists)
    BY <1>1, <1>2, <2>1, PartTypes, OneMore
  <2>3. PartsOK(Append(html.parts, Space), markup.texts, markup.marks, markup.gaps, what)
    BY <1>2, <1>3, SpaceAppended
  <2> QED
    BY <1>2, <1>4, <1>5, <1>7, <2>2, <2>3, Rebuilt
<1>8. CASE /\ html.skip = 0
           /\ html.parts = << >> \/ Last(html.parts).kind \in {"space", "newline", "mark"}
  <2>1. html' = Extractor(html.pc, html.parts, html.skip, html.lists)
    BY <1>1, <1>2, <1>8 DEF BlankData
  <2>2. html.parts # << >> => Last(html.parts).kind # "text"
    BY <1>8
  <2>3. PartsOK(html.parts, markup.texts, markup.marks, markup.gaps, what)
    <3>1. CASE markup.between = "none"
      BY <1>2, <1>3, <2>2, <3>1, BlankSkipped
    <3>2. CASE markup.between # "none"
      BY <1>2, <1>3, <3>2
    <3> QED
      BY <3>1, <3>2
  <2> QED
    BY <1>2, <1>4, <1>5, <1>8, <2>1, <2>3, Rebuilt
<1> QED
  BY <1>6, <1>7, <1>8

-----------------------------------------------------------------------------
(* The invariant and what follows from it                                  *)

LEMMA HtmlInitOK == Init => HtmlInv
<1> SUFFICES ASSUME Init
             PROVE  HtmlInv
  OBVIOUS
<1>1. html = NoExtractor /\ markup = NoMarkup
  BY DEF Init, HtmlInit
<1>2. NoExtractor \in Extractors /\ NoExtractor.parts = << >> /\ NoExtractor.skip = 0
      /\ NoExtractor.lists = << >>
  BY DEF NoExtractor, Extractors
<1> QED
  BY <1>1, <1>2, EmptyOK DEF HtmlInv

LEMMA HtmlNextOK == HtmlInv /\ [Next]_offlineVars => HtmlInv'
<1> SUFFICES ASSUME FragmentOK(html, markup), [Next]_offlineVars
             PROVE  FragmentOK(html', markup')
  BY DEF HtmlInv
<1>1. ASSUME Feed \/ Close
      PROVE  FragmentOK(html', markup')
  <2>1. html' \in {NoExtractor, [NoExtractor EXCEPT !.pc = "fed"]} /\ markup' = NoMarkup
    BY <1>1 DEF Feed, Close
  <2>2. html' \in Extractors /\ html'.parts = << >> /\ html'.skip = 0 /\ html'.lists = << >>
    <3>1. NoExtractor = Extractor("idle", << >>, 0, << >>)
          /\ [NoExtractor EXCEPT !.pc = "fed"] = Extractor("fed", << >>, 0, << >>)
      BY DEF NoExtractor, Extractor
    <3>2. \A pc \in {"idle", "fed"} :
             LET x == Extractor(pc, << >>, 0, << >>)
             IN  x \in Extractors /\ x.parts = << >> /\ x.skip = 0 /\ x.lists = << >>
      BY DEF Extractor, Extractors
    <3> QED
      BY <2>1, <3>1, <3>2
  <2> QED
    BY <2>1, <2>2, EmptyOK
<1>2. ASSUME HtmlNext
      PROVE  FragmentOK(html', markup')
  <2>1. CASE TidyText \/ TidyReturns
    BY <2>1 DEF TidyText, TidyReturns
  <2>2. CASE \E tag \in Tags : HandleStart(tag)
    BY <2>2, HandleStartOK
  <2> QED
    BY <1>1, <1>2, <2>1, <2>2, HandleBreakOK, HandleEndOK, HandleDataOK, HandleBlankOK DEF HtmlNext
<1>3. CASE UNCHANGED html /\ UNCHANGED markup
  BY <1>3
<1>4. HtmlNext \/ (UNCHANGED html /\ UNCHANGED markup)
  BY DEF Next, HtmlRests, htmlVars, offlineVars
<1> QED
  BY <1>2, <1>3, <1>4

LEMMA HtmlInvariance == Spec => []HtmlInv
  BY HtmlInitOK, HtmlNextOK, PTL DEF Spec

\* The texts and marks of a fragment are what the extractor keeps of it (PartsKept of
\* Html), for fragments of any size and elements nested to any depth: skip counts the
\* open elements whose content is dropped, and the lists of _TextExtractor with their
\* indexes are those that are open.
THEOREM AllPartsKept == Spec => []PartsKept
<1>1. HtmlInv => PartsKept
  BY DEF HtmlInv, FragmentOK, PartsOK, PartsKept
<1> QED
  BY <1>1, HtmlInvariance, PTL

\* A text that begins a block or follows the end of one is on a line of its own, but
\* for one that goes on with an item after a list inside it, and words with white space
\* between them stay apart (TextsApart of Html).
THEOREM AllTextsApart == Spec => []TextsApart
<1>1. HtmlInv => TextsApart
  BY DEF HtmlInv, FragmentOK, PartsOK, GapsKept, TextsApart
<1> QED
  BY <1>1, HtmlInvariance, PTL

-----------------------------------------------------------------------------
(* Ranks: each has one place, and places that are moved keep theirs       *)

\* The later of two places ranks higher.
LEMMA RankGrows ==
    ASSUME NEW P \in SUBSET Nat, IsFiniteSet(P), NEW i \in P, NEW j \in P, i < j
    PROVE  Rank(P, i) < Rank(P, j)
<1> DEFINE first == {k \in P : k <= i}
           both == {k \in P : k <= j}
<1>1. first \in SUBSET both /\ both \in SUBSET P /\ j \in both /\ j \notin first
  <2>1. \A k \in P : k \in Nat /\ (k <= i => k <= j)
    OBVIOUS
  <2>2. j <= j /\ ~(j <= i)
    OBVIOUS
  <2> QED
    BY <2>1, <2>2
<1>2. IsFiniteSet(both) /\ IsFiniteSet(first)
  BY <1>1, FS_Subset
<1>3. Cardinality(both) \in Nat /\ Cardinality(first) \in Nat
  BY <1>2, FS_CardinalityType
<1>4. Cardinality(first) <= Cardinality(both) /\ Cardinality(first) # Cardinality(both)
  BY <1>1, <1>2, FS_Subset
<1> HIDE DEF first, both
<1>5. Cardinality(first) < Cardinality(both)
  BY <1>3, <1>4
<1> QED
  BY <1>5 DEF Rank, first, both

\* No two places have a rank in common, and each rank has a place.
LEMMA RankReached ==
    ASSUME NEW P \in SUBSET Nat, IsFiniteSet(P)
    PROVE  /\ \A i, j \in P : Rank(P, i) = Rank(P, j) => i = j
           /\ \A n \in 1..Cardinality(P) : \E i \in P : Rank(P, i) = n
<1> DEFINE N == 1..Cardinality(P)
           r == [i \in P |-> Rank(P, i)]
<1>1. Cardinality(P) \in Nat
  BY FS_CardinalityType
<1>2. IsFiniteSet(N) /\ Cardinality(N) = Cardinality(P)
  <2>1. IsFiniteSet(1..Cardinality(P))
        /\ Cardinality(1..Cardinality(P)) = IF 1 > Cardinality(P) THEN 0 ELSE Cardinality(P) - 1 + 1
    BY <1>1, FS_Interval
  <2> QED
    BY <1>1, <2>1
<1>3. \A i \in P : Rank(P, i) \in N
  BY RankInside
<1>4. \A i, j \in P : Rank(P, i) = Rank(P, j) => i = j
  <2>1. SUFFICES ASSUME NEW i \in P, NEW j \in P, Rank(P, i) = Rank(P, j), i < j
                 PROVE  FALSE
    OBVIOUS
  <2>2. Rank(P, i) < Rank(P, j) /\ Rank(P, i) \in Nat
    BY <1>3, <2>1, RankGrows
  <2> QED
    BY <2>1, <2>2
<1> HIDE DEF N
<1>5. r \in Injection(P, N)
  <2>1. r \in [P -> N]
    BY <1>3
  <2>2. \A i, j \in P : r[i] = r[j] => i = j
    BY <1>4
  <2> QED
    BY <2>1, <2>2 DEF Injection, IsInjective
<1> HIDE DEF r
<1>6. r \in Surjection(P, N)
  BY <1>2, <1>5, FS_Injection
<1>7. \A n \in N : \E i \in P : Rank(P, i) = n
  BY <1>6 DEF Surjection, r
<1> QED
  BY <1>4, <1>7 DEF N

LEMMA NthIs ==
    ASSUME NEW P \in SUBSET Nat, IsFiniteSet(P)
    PROVE  /\ \A n \in 1..Cardinality(P) : Nth(P, n) \in P /\ Rank(P, Nth(P, n)) = n
           /\ \A i \in P : Nth(P, Rank(P, i)) = i
           /\ \A m, n \in 1..Cardinality(P) : m < n => Nth(P, m) < Nth(P, n)
<1>1. ASSUME NEW n \in 1..Cardinality(P)
      PROVE  Nth(P, n) \in P /\ Rank(P, Nth(P, n)) = n
  <2>1. \E i \in P : Rank(P, i) = n
    BY RankReached
  <2> QED
    BY <2>1 DEF Nth
<1>2. ASSUME NEW i \in P
      PROVE  Nth(P, Rank(P, i)) = i
  <2>1. Rank(P, i) \in 1..Cardinality(P)
    BY RankInside
  <2>2. Nth(P, Rank(P, i)) \in P /\ Rank(P, Nth(P, Rank(P, i))) = Rank(P, i)
    BY <1>1, <2>1
  <2>3. \A k, l \in P : Rank(P, k) = Rank(P, l) => k = l
    BY RankReached
  <2> QED
    BY <2>2, <2>3
<1>3. ASSUME NEW m \in 1..Cardinality(P), NEW n \in 1..Cardinality(P), m < n
      PROVE  Nth(P, m) < Nth(P, n)
  <2> DEFINE a == Nth(P, m)
             b == Nth(P, n)
  <2>1. a \in P /\ b \in P /\ Rank(P, a) = m /\ Rank(P, b) = n /\ a \in Nat /\ b \in Nat
    BY <1>1
  <2> HIDE DEF a, b
  <2>2. ~(b < a)
    BY <1>3, <2>1, RankGrows
  <2>3. a # b
    BY <1>3, <2>1
  <2> QED
    BY <2>1, <2>2, <2>3 DEF a, b
<1> QED
  BY <1>1, <1>2, <1>3

\* Places that are moved, none past another, keep their ranks.
LEMMA RankOfImage ==
    ASSUME NEW Q \in SUBSET Nat, IsFiniteSet(Q), NEW R \in SUBSET Nat, NEW f \in [Q -> R],
           \A a, b \in Q : a < b => f[a] < f[b],
           \A r \in R : \E q \in Q : f[q] = r
    PROVE  /\ IsFiniteSet(R) /\ Cardinality(R) = Cardinality(Q)
           /\ \A q \in Q : Rank(R, f[q]) = Rank(Q, q)
<1>1. \A a \in Q : a \in Nat /\ f[a] \in R /\ f[a] \in Nat
  OBVIOUS
<1>5. ASSUME NEW a \in Q, NEW b \in Q
      PROVE  /\ f[a] = f[b] => a = b
             /\ a <= b <=> f[a] <= f[b]
  <2>1. a \in Nat /\ b \in Nat /\ f[a] \in Nat /\ f[b] \in Nat
    BY <1>1
  <2>2. (a < b => f[a] < f[b]) /\ (b < a => f[b] < f[a])
    OBVIOUS
  <2>3. a = b => f[a] = f[b]
    OBVIOUS
  <2> QED
    BY <2>1, <2>2, <2>3
<1>2. f \in Bijection(Q, R)
  BY <1>5 DEF Bijection, Injection, Surjection, IsInjective
<1>3. IsFiniteSet(R) /\ Cardinality(R) = Cardinality(Q)
  BY <1>2, FS_Bijection DEF ExistsBijection
<1>4. ASSUME NEW q \in Q
      PROVE  Rank(R, f[q]) = Rank(Q, q)
  <2> DEFINE Q1 == {k \in Q : k <= q}
             R1 == {k \in R : k <= f[q]}
             g == [k \in Q1 |-> f[k]]
  <2>1. \A k \in Q : k <= q <=> f[k] <= f[q]
    BY <1>5
  <2>2. g \in [Q1 -> R1]
    BY <2>1
  <2>3. \A a, b \in Q1 : g[a] = g[b] => a = b
    BY <1>5
  <2>4. \A r \in R1 : \E k \in Q1 : g[k] = r
    BY <2>1
  <2>5. IsFiniteSet(Q1)
    BY FS_Subset
  <2> HIDE DEF Q1, R1, g
  <2>6. g \in Bijection(Q1, R1)
    BY <2>2, <2>3, <2>4 DEF Bijection, Injection, Surjection, IsInjective
  <2>7. Cardinality(R1) = Cardinality(Q1)
    BY <2>5, <2>6, FS_Bijection DEF ExistsBijection
  <2> QED
    BY <2>7 DEF Rank, Q1, R1
<1> QED
  BY <1>3, <1>4

\* Some of the first places have a first and a last one.
LEMMA EndsOfSome ==
    ASSUME NEW n \in Nat, NEW I \in SUBSET (1..n), I # {}
    PROVE  /\ Min(I) \in I /\ \A i \in I : Min(I) <= i
           /\ Max(I) \in I /\ \A i \in I : i <= Max(I)
<1>1. \E x \in I : \A y \in I : x =< y
  <2>1. I \subseteq Nat
    OBVIOUS
  <2>2. PICK x \in I : \A y \in I : ~(<<y, x>> \in OpToRel(<, Nat))
    BY <2>1, NatLessThanWellFounded, WFMin
  <2>3. \A y \in I : ~(y < x)
    BY <2>1, <2>2 DEF OpToRel
  <2>4. \A y \in I : y \in Nat /\ x \in Nat
    OBVIOUS
  <2> QED
    BY <2>3, <2>4
<1>2. \E x \in I : \A y \in I : x >= y
  <2> DEFINE T == {n - i : i \in I}
  <2>0. \A i \in I : i \in Nat /\ i <= n /\ n - i \in Nat
    OBVIOUS
  <2>1. T \subseteq Nat /\ T # {}
    BY <2>0
  <2>2. PICK x \in T : \A y \in T : ~(<<y, x>> \in OpToRel(<, Nat))
    BY <2>1, NatLessThanWellFounded, WFMin
  <2>3. \A y \in T : ~(y < x)
    BY <2>1, <2>2 DEF OpToRel
  <2>4. PICK i \in I : x = n - i
    OBVIOUS
  <2>5. ASSUME NEW j \in I
        PROVE  i >= j
    <3>1. n - j \in T /\ ~(n - j < n - i)
      BY <2>3, <2>4
    <3>2. i \in Nat /\ j \in Nat
      OBVIOUS
    <3> QED
      BY <3>1, <3>2
  <2> QED
    BY <2>5
<1>3. Min(I) \in I /\ \A y \in I : Min(I) =< y
  BY <1>1, Zenon DEF Min
<1>4. Max(I) \in I /\ \A y \in I : Max(I) >= y
  BY <1>2, Zenon DEF Max
<1>5. \A y \in I : y \in Nat
  OBVIOUS
<1> DEFINE M == Max(I)
<1>6. M \in I /\ \A y \in I : M >= y
  BY <1>4
<1> HIDE DEF M
<1>7. \A y \in I : y <= M
  BY <1>5, <1>6
<1> QED
  BY <1>3, <1>4, <1>7 DEF M

-----------------------------------------------------------------------------
(* The steps of _tidy, one by one                                          *)

Blank == Line(0, "none", 0)

LEMMA LineTyped ==
    /\ Blank \in Lines /\ Nothing(Blank) /\ Blank.body = "none" /\ Blank.lead = 0 /\ Blank.trail = 0
    /\ \A line \in Lines : /\ line.lead \in Nat /\ line.trail \in Nat /\ line.body \in Bodies
                           /\ line = Line(line.lead, line.body, line.trail)
                           /\ Nothing(line) <=> line = Blank
    /\ \A lead \in Nat, body \in Bodies :
          LET line == Line(lead, body, 0)
          IN  line \in Lines /\ line.lead = lead /\ line.body = body /\ line.trail = 0
  BY DEF Blank, Line, Lines, Nothing, Bodies

LEMMA NoTrailingIs ==
    ASSUME NEW text \in Seq(Lines)
    PROVE  /\ NoTrailing(text) \in Seq(Lines) /\ Len(NoTrailing(text)) = Len(text)
           /\ \A i \in 1..Len(text) :
                /\ NoTrailing(text)[i].body = text[i].body
                /\ text[i].body # "none" => NoTrailing(text)[i].lead = text[i].lead
                /\ text[i].body = "none" /\ i < Len(text) => Nothing(NoTrailing(text)[i])
<1> DEFINE cut(i) == IF i = Len(text) THEN text[i]
                     ELSE IF text[i].body = "none" THEN Blank
                          ELSE Line(text[i].lead, text[i].body, 0)
<1>1. ASSUME NEW i \in 1..Len(text)
      PROVE  /\ NoTrailing(text)[i] = cut(i)
             /\ cut(i) \in Lines /\ cut(i).body = text[i].body
             /\ text[i].body # "none" => cut(i).lead = text[i].lead
             /\ text[i].body = "none" /\ i < Len(text) => Nothing(cut(i))
  <2>1. text[i] \in Lines
    OBVIOUS
  <2>2. [text[i] EXCEPT !.trail = 0] = Line(text[i].lead, text[i].body, 0)
    BY <2>1 DEF Lines, Line
  <2>3. NoTrailing(text)[i] = cut(i)
    BY <2>2 DEF NoTrailing, Blank
  <2> QED
    BY <2>1, <2>3, LineTyped
<1>2. NoTrailing(text) = [i \in 1..Len(text) |-> NoTrailing(text)[i]]
  BY DEF NoTrailing
<1> HIDE DEF cut
<1>3. \A i \in 1..Len(text) : NoTrailing(text)[i] \in Lines
  BY <1>1
<1>4. NoTrailing(text) \in Seq(Lines) /\ Len(NoTrailing(text)) = Len(text)
  BY <1>2, <1>3
<1> QED
  BY <1>1, <1>4

LEMMA SubIs ==
    ASSUME NEW S, NEW text \in Seq(S), NEW places \in SUBSET DOMAIN text
    PROVE  /\ places \in SUBSET Nat /\ IsFiniteSet(places) /\ Cardinality(places) \in Nat
           /\ Sub(text, places) \in Seq(S) /\ Len(Sub(text, places)) = Cardinality(places)
           /\ \A n \in 1..Cardinality(places) : Sub(text, places)[n] = text[Nth(places, n)]
<1>1. places \in SUBSET Nat /\ IsFiniteSet(places) /\ Cardinality(places) \in Nat
  <2>1. DOMAIN text = 1..Len(text)
    OBVIOUS
  <2> QED
    BY <2>1, PlacesFinite
<1>2. \A n \in 1..Cardinality(places) : Nth(places, n) \in DOMAIN text /\ text[Nth(places, n)] \in S
  <2>1. \A n \in 1..Cardinality(places) : Nth(places, n) \in places
    BY <1>1, NthIs
  <2> QED
    BY <2>1
<1> QED
  BY <1>1, <1>2 DEF Sub

LEMMA StripIs ==
    ASSUME NEW line \in Lines
    PROVE  /\ Strip(line) \in Lines /\ Strip(line).trail = 0
           /\ Strip(line).body = IF line.body \in {"none", "nbsp"} THEN "none" ELSE line.body
           /\ Strip(line).lead = IF line.body = "item" THEN line.lead ELSE 0
           /\ Nothing(Strip(line)) <=> line.body \in {"none", "nbsp"}
<1>1. line.lead \in Nat /\ line.body \in Bodies
  BY LineTyped
<1>2. Strip(line) = IF line.body \in {"none", "nbsp"} THEN Line(0, "none", 0)
                    ELSE Line(IF line.body = "item" THEN line.lead ELSE 0, line.body, 0)
  BY DEF Strip
<1> QED
  BY <1>1, <1>2 DEF Line, Lines, Bodies, Nothing

\* A text is what another one holds from low to high, and begins without blanks.
Slice(to, text, low, high) ==
    /\ 1 <= low /\ low <= high /\ high <= Len(text)
    /\ to \in Seq(Lines) /\ Len(to) = high - low + 1
    /\ \A j \in 1..(high - low + 1) :
          /\ to[j].body = text[j + low - 1].body
          /\ to[j].trail = text[j + low - 1].trail
          /\ to[j].lead = IF j = 1 THEN 0 ELSE text[j + low - 1].lead

LEMMA StripEndsIs ==
    ASSUME NEW text \in Seq(Lines), NEW full,
           full = {i \in DOMAIN text : ~Nothing(text[i])}, full # {}
    PROVE  \E low, high \in full : /\ \A i \in full : low <= i /\ i <= high
                                   /\ Slice(StripEnds(text), text, low, high)
<1> DEFINE low == Min(full)
           high == Max(full)
           whole == SubSeq(text, low, high)
<1>1. full \in SUBSET (1..Len(text)) /\ Len(text) \in Nat
  OBVIOUS
<1>2. /\ low \in full /\ high \in full /\ \A i \in full : low <= i /\ i <= high
  BY <1>1, EndsOfSome
<1>3. StripEnds(text) = [whole EXCEPT ![1].lead = 0]
  BY DEF StripEnds
<1> HIDE DEF low, high
<1>4. low \in Nat /\ high \in Nat /\ 1 <= low /\ low <= high /\ high <= Len(text)
  BY <1>1, <1>2
<1>5. /\ whole \in Seq(Lines) /\ Len(whole) = high - low + 1
      /\ \A j \in 1..(high - low + 1) : whole[j] = text[j + low - 1]
  BY <1>4
<1> HIDE DEF whole
<1>6. /\ 1 \in 1..(high - low + 1) /\ \A j \in 1..(high - low + 1) : whole[j] \in Lines
      /\ high - low + 1 \in Nat
  BY <1>4, <1>5
<1>7. ASSUME NEW j \in 1..(high - low + 1)
      PROVE  /\ StripEnds(text)[j] \in Lines
             /\ StripEnds(text)[j].body = whole[j].body
             /\ StripEnds(text)[j].trail = whole[j].trail
             /\ StripEnds(text)[j].lead = IF j = 1 THEN 0 ELSE whole[j].lead
  <2>1. CASE j = 1
    <3>1. StripEnds(text)[j] = [whole[1] EXCEPT !.lead = 0]
      BY <1>3, <1>5, <1>6, <2>1
    <3>2. whole[1] \in Lines
      BY <1>6
    <3> QED
      BY <2>1, <3>1, <3>2, SMTT(40) DEF Lines
  <2>2. CASE j # 1
    <3>1. StripEnds(text)[j] = whole[j]
      BY <1>3, <1>5, <1>6, <2>2
    <3> QED
      BY <1>6, <2>2, <3>1
  <2> QED
    BY <2>1, <2>2
<1> DEFINE ends == StripEnds(text)
           n == high - low + 1
<1>8. ends \in Seq(Lines) /\ Len(ends) = n
  <2>1. DOMAIN whole = 1..n
    BY <1>5
  <2>2. DOMAIN [whole EXCEPT ![1].lead = 0] = DOMAIN whole
    OBVIOUS
  <2>3. ends = [j \in 1..n |-> ends[j]]
    BY <1>3, <2>1
  <2>4. \A j \in 1..n : ends[j] \in Lines
    BY <1>7
  <2> HIDE DEF ends, n
  <2> QED
    BY <1>6, <2>3, <2>4 DEF n
<1>9. \A j \in 1..n : /\ ends[j].body = text[j + low - 1].body
                      /\ ends[j].trail = text[j + low - 1].trail
                      /\ ends[j].lead = IF j = 1 THEN 0 ELSE text[j + low - 1].lead
  BY <1>5, <1>7
<1>10. Slice(ends, text, low, high)
  BY <1>4, <1>8, <1>9 DEF Slice
<1> QED
  BY <1>2, <1>10

Full(text) == {i \in DOMAIN text : ~Nothing(text[i])}

\* The places of a text whose lines stay, and those lines without their blanks.
Stay(text) == DOMAIN NoTrailing(text) \ Again(NoTrailing(text))
Rows(text) == [n \in DOMAIN OneBlank(NoTrailing(text)) |-> Strip(OneBlank(NoTrailing(text))[n])]

\* The rows come from lines of the text, whose places are stay.
RowsOf(rows, text, stay) ==
    /\ rows \in Seq(Lines) /\ Len(rows) = Cardinality(stay)
    /\ \A n \in 1..Len(rows) :
          LET line == text[Nth(stay, n)]
          IN  /\ Nth(stay, n) \in 1..Len(text)
              /\ rows[n].trail = 0
              /\ rows[n].body = IF line.body \in {"none", "nbsp"} THEN "none" ELSE line.body
              /\ rows[n].lead = IF line.body = "item" THEN line.lead ELSE 0
              /\ Nothing(rows[n]) <=> line.body \in {"none", "nbsp"}

LEMMA RowsAre ==
    ASSUME NEW text \in Seq(Lines)
    PROVE  /\ Stay(text) \in SUBSET (1..Len(text)) /\ Stay(text) \in SUBSET Nat
           /\ IsFiniteSet(Stay(text)) /\ Cardinality(Stay(text)) \in Nat
           /\ \A i \in 1..Len(text) : text[i].body # "none" => i \in Stay(text)
           /\ RowsOf(Rows(text), text, Stay(text))
<1> DEFINE cut == NoTrailing(text)
           stay == Stay(text)
           one == OneBlank(cut)
           rows == Rows(text)
<1>1. /\ cut \in Seq(Lines) /\ Len(cut) = Len(text)
      /\ \A i \in 1..Len(text) :
            /\ cut[i].body = text[i].body
            /\ text[i].body # "none" => cut[i].lead = text[i].lead
            /\ text[i].body = "none" /\ i < Len(text) => Nothing(cut[i])
  BY NoTrailingIs
<1>2. rows = [n \in DOMAIN one |-> Strip(one[n])] /\ one = Sub(cut, stay)
      /\ stay = DOMAIN cut \ Again(cut)
  BY DEF Rows, OneBlank, Stay
<1> HIDE DEF cut, rows, one, stay
<1>3. stay \in SUBSET (1..Len(text)) /\ stay \in SUBSET DOMAIN cut /\ Len(text) \in Nat
  BY <1>1, <1>2
<1>4. /\ stay \in SUBSET Nat /\ IsFiniteSet(stay) /\ Cardinality(stay) \in Nat
      /\ one \in Seq(Lines) /\ Len(one) = Cardinality(stay)
      /\ \A n \in 1..Cardinality(stay) : one[n] = cut[Nth(stay, n)]
  BY <1>1, <1>2, <1>3, SubIs
<1>5. ASSUME NEW i \in 1..Len(text), text[i].body # "none"
      PROVE  i \in stay
  BY <1>1, <1>2, <1>5 DEF Again, Nothing
<1>6. ASSUME NEW n \in 1..Cardinality(stay)
      PROVE  LET line == text[Nth(stay, n)]
             IN  /\ Nth(stay, n) \in 1..Len(text) /\ rows[n] \in Lines
                 /\ rows[n].trail = 0
                 /\ rows[n].body = IF line.body \in {"none", "nbsp"} THEN "none" ELSE line.body
                 /\ rows[n].lead = IF line.body = "item" THEN line.lead ELSE 0
                 /\ Nothing(rows[n]) <=> line.body \in {"none", "nbsp"}
  <2> DEFINE i == Nth(stay, n)
  <2>1. i \in stay
    BY <1>4, NthIs
  <2> HIDE DEF i
  <2>2. i \in 1..Len(text) /\ cut[i] \in Lines /\ cut[i].body = text[i].body
        /\ (text[i].body # "none" => cut[i].lead = text[i].lead)
    BY <1>1, <1>3, <2>1
  <2>3. one[n] = cut[i] /\ n \in DOMAIN one
    BY <1>4 DEF i
  <2>4. rows[n] = Strip(cut[i])
    BY <1>2, <2>3
  <2>5. /\ rows[n] \in Lines /\ rows[n].trail = 0
        /\ rows[n].body = IF cut[i].body \in {"none", "nbsp"} THEN "none" ELSE cut[i].body
        /\ rows[n].lead = IF cut[i].body = "item" THEN cut[i].lead ELSE 0
        /\ Nothing(rows[n]) <=> cut[i].body \in {"none", "nbsp"}
    BY <2>2, <2>4, StripIs
  <2> QED
    BY <2>2, <2>5 DEF i
<1>7. rows \in Seq(Lines) /\ Len(rows) = Cardinality(stay)
  <2>1. DOMAIN one = 1..Cardinality(stay)
    BY <1>4
  <2>2. \A n \in 1..Cardinality(stay) : rows[n] \in Lines
    BY <1>6
  <2>3. rows = [n \in 1..Cardinality(stay) |-> rows[n]]
    BY <1>2, <2>1
  <2> QED
    BY <1>4, <2>2, <2>3
<1>8. RowsOf(rows, text, stay)
  BY <1>6, <1>7 DEF RowsOf
<1> QED
  BY <1>3, <1>4, <1>5, <1>8 DEF stay, rows

\* A text is the part of the rows after the first ones that are empty, as many as
\* skipped says, up to the last one that is not.
Inside(to, rows, skipped) ==
    /\ to \in Seq(Lines) /\ skipped \in Nat /\ skipped + Len(to) <= Len(rows)
    /\ to # << >> => 1 \in Full(to) /\ Len(to) \in Full(to)
    /\ \A j \in 1..Len(to) :
          /\ to[j].body = rows[j + skipped].body
          /\ to[j].trail = 0
          /\ to[j].lead = IF j = 1 THEN 0 ELSE rows[j + skipped].lead
          /\ Nothing(to[j]) <=> to[j].body = "none"
          /\ to[j].body # "nbsp" /\ (to[j].body # "item" => to[j].lead = 0)
    /\ \A n \in 1..Len(rows) : ~Nothing(rows[n]) => n - skipped \in 1..Len(to)

LEMMA TidyIs ==
    ASSUME NEW text \in Seq(Lines)
    PROVE  \E skipped \in Nat : Inside(Tidy(text), Rows(text), skipped)
<1> DEFINE rows == Rows(text)
           full == Full(rows)
           to == Tidy(text)
<1>1. rows \in Seq(Lines)
      /\ \A n \in 1..Len(rows) :
            /\ rows[n].trail = 0 /\ rows[n].body # "nbsp"
            /\ rows[n].body # "item" => rows[n].lead = 0
            /\ Nothing(rows[n]) <=> rows[n].body = "none"
  <2>1. RowsOf(rows, text, Stay(text))
    BY RowsAre
  <2> HIDE DEF rows
  <2> QED
    BY <2>1 DEF RowsOf
<1>2. to = StripEnds(rows)
  BY DEF Tidy, Rows
<1>3. full = {i \in DOMAIN rows : ~Nothing(rows[i])} /\ DOMAIN rows = 1..Len(rows) /\ Len(rows) \in Nat
  <2> HIDE DEF rows
  <2> QED
    BY <1>1 DEF Full
<1> HIDE DEF rows, full, to
<1>4. CASE full = {}
  <2>1. to = << >>
    BY <1>2, <1>3, <1>4 DEF StripEnds
  <2>2. Inside(to, rows, 0)
    BY <1>3, <1>4, <2>1 DEF Inside
  <2> QED
    BY <2>2 DEF to, rows
<1>5. CASE full # {}
  <2>1. PICK low \in full, high \in full :
            /\ \A i \in full : low <= i /\ i <= high
            /\ Slice(to, rows, low, high)
    BY <1>1, <1>2, <1>3, <1>5, StripEndsIs
  <2> DEFINE skipped == low - 1
             length == high - low + 1
  <2>2. /\ low \in Nat /\ high \in Nat /\ skipped \in Nat /\ length \in Nat /\ length >= 1
        /\ skipped + length <= Len(rows)
        /\ 1 + skipped = low /\ length + skipped = high
        /\ \A j \in 1..length : j + skipped = j + low - 1 /\ j + skipped \in 1..Len(rows)
        /\ \A i \in full : i - skipped \in 1..length
    BY <1>3, <2>1, SMTT(40) DEF Slice
  <2> HIDE DEF skipped, length
  <2>3. to \in Seq(Lines) /\ Len(to) = length
    BY <2>1 DEF length, Slice
  <2>4. ASSUME NEW j \in 1..length
        PROVE  /\ to[j].body = rows[j + skipped].body
               /\ to[j].trail = 0
               /\ to[j].lead = IF j = 1 THEN 0 ELSE rows[j + skipped].lead
               /\ to[j].body # "nbsp" /\ (to[j].body # "item" => to[j].lead = 0)
               /\ Nothing(to[j]) <=> to[j].body = "none"
    <3>1. j \in 1..(high - low + 1)
      BY DEF length
    <3>0. j + skipped = j + low - 1
      BY <2>2
    <3>2. /\ to[j].body = rows[j + skipped].body
          /\ to[j].trail = rows[j + skipped].trail
          /\ to[j].lead = IF j = 1 THEN 0 ELSE rows[j + skipped].lead
      BY <2>1, <3>0, <3>1 DEF Slice
    <3>3. j + skipped \in 1..Len(rows)
      BY <2>2
    <3> QED
      BY <1>1, <3>2, <3>3 DEF Nothing
  <2>5. 1 \in Full(to) /\ Len(to) \in Full(to)
    <3>1. 1 \in 1..length /\ length \in 1..length /\ DOMAIN to = 1..length
      BY <2>2, <2>3
    <3>2. rows[low].body # "none" /\ rows[high].body # "none"
      BY <1>1, <1>3, <2>1
    <3>3. to[1].body # "none" /\ to[length].body # "none"
      BY <2>2, <2>4, <3>1, <3>2
    <3> QED
      BY <2>3, <3>1, <3>3 DEF Full, Nothing
  <2>6. \A n \in 1..Len(rows) : ~Nothing(rows[n]) => n - skipped \in 1..length
    BY <1>3, <2>2
  <2>7. Inside(to, rows, skipped)
    BY <2>2, <2>3, <2>4, <2>5, <2>6 DEF Inside
  <2> QED
    BY <2>2, <2>7 DEF to, rows
<1> QED
  BY <1>4, <1>5

-----------------------------------------------------------------------------
(* The words of a text, before and after                                   *)

Worded(text) == {i \in DOMAIN text : text[i].body \notin {"none", "nbsp"}}

\* The lines with text on them are those of the other text, in their order.
SameWords(text, to) ==
    /\ Cardinality(Worded(text)) = Cardinality(Full(to))
    /\ \A i \in Worded(text), j \in Full(to) :
          Rank(Worded(text), i) = Rank(Full(to), j) =>
              /\ to[j].body = text[i].body
              /\ to[j].body = "item" /\ j > 1 => to[j].lead = text[i].lead

LEMMA WordsMatch ==
    ASSUME NEW text \in Seq(Lines), NEW to, NEW skipped \in Nat,
           Inside(to, Rows(text), skipped)
    PROVE  SameWords(text, to)
<1> DEFINE stay == Stay(text)
           rows == Rows(text)
           from == Worded(text)
           full == Full(to)
           f == [j \in full |-> Nth(stay, j + skipped)]
<1>1. /\ stay \in SUBSET (1..Len(text)) /\ stay \in SUBSET Nat
      /\ IsFiniteSet(stay) /\ Cardinality(stay) \in Nat
      /\ \A i \in 1..Len(text) : text[i].body # "none" => i \in stay
      /\ RowsOf(rows, text, stay)
  BY RowsAre
<1>2. Inside(to, rows, skipped)
  OBVIOUS
<1> HIDE DEF stay, rows
<1>3. /\ \A n \in 1..Cardinality(stay) : Nth(stay, n) \in stay /\ Rank(stay, Nth(stay, n)) = n
      /\ \A i \in stay : Nth(stay, Rank(stay, i)) = i
      /\ \A m, n \in 1..Cardinality(stay) : m < n => Nth(stay, m) < Nth(stay, n)
  BY <1>1, NthIs
<1>4. /\ to \in Seq(Lines) /\ DOMAIN to = 1..Len(to) /\ Len(to) \in Nat
      /\ Len(rows) = Cardinality(stay)
      /\ from = {i \in 1..Len(text) : text[i].body \notin {"none", "nbsp"}}
      /\ full = {j \in 1..Len(to) : to[j].body # "none"}
  BY <1>1, <1>2 DEF Inside, RowsOf, Worded, Full
<1>5. full \in SUBSET Nat /\ from \in SUBSET Nat /\ IsFiniteSet(full)
  <2>1. full \in SUBSET DOMAIN to /\ full \in SUBSET Nat /\ from \in SUBSET Nat
    BY <1>4
  <2> QED
    BY <1>4, <2>1, PlacesFinite
<1> HIDE DEF from, full
<1>6. ASSUME NEW j \in full
      PROVE  LET i == Nth(stay, j + skipped)
             IN  /\ j + skipped \in 1..Cardinality(stay)
                 /\ i \in from /\ to[j].body = text[i].body
                 /\ to[j].body = "item" /\ j > 1 => to[j].lead = text[i].lead
  <2> DEFINE n == j + skipped
             i == Nth(stay, n)
  <2>1. j \in 1..Len(to) /\ to[j].body # "none" /\ n \in 1..Len(rows)
    BY <1>2, <1>4 DEF Inside
  <2>2. to[j].body = rows[n].body /\ to[j].lead = IF j = 1 THEN 0 ELSE rows[n].lead
    BY <1>2, <2>1 DEF Inside
  <2> HIDE DEF n
  <2>3. /\ i \in 1..Len(text)
        /\ rows[n].body = IF text[i].body \in {"none", "nbsp"} THEN "none" ELSE text[i].body
        /\ rows[n].lead = IF text[i].body = "item" THEN text[i].lead ELSE 0
    BY <1>1, <2>1 DEF RowsOf
  <2> HIDE DEF i
  <2>4. /\ i \in from /\ to[j].body = text[i].body
        /\ to[j].body = "item" /\ j > 1 => to[j].lead = text[i].lead
    BY <1>4, <2>1, <2>2, <2>3
  <2> QED
    BY <1>4, <2>1, <2>4 DEF i, n
<1>7. f \in [full -> from]
  BY <1>6
<1>8. \A a, b \in full : a < b => f[a] < f[b]
  <2> SUFFICES ASSUME NEW a \in full, NEW b \in full, a < b
               PROVE  f[a] < f[b]
    OBVIOUS
  <2>1. a + skipped < b + skipped
    BY <1>5
  <2>2. a + skipped \in 1..Cardinality(stay) /\ b + skipped \in 1..Cardinality(stay)
    BY <1>6
  <2>3. Nth(stay, a + skipped) < Nth(stay, b + skipped)
    BY <1>3, <2>1, <2>2
  <2> QED
    BY <2>3
<1>9. ASSUME NEW i \in from
      PROVE  \E j \in full : f[j] = i
  <2> DEFINE n == Rank(stay, i)
             j == n - skipped
  <2>1. i \in 1..Len(text) /\ text[i].body \notin {"none", "nbsp"} /\ i \in stay
    BY <1>1, <1>4
  <2>2. n \in 1..Len(rows) /\ Nth(stay, n) = i
    BY <1>1, <1>3, <1>4, <2>1, RankInside
  <2> HIDE DEF n
  <2>3. ~Nothing(rows[n]) /\ rows[n].body # "none"
    BY <1>1, <2>1, <2>2 DEF RowsOf
  <2>4. j \in 1..Len(to)
    BY <1>2, <2>2, <2>3 DEF Inside
  <2>5. j + skipped = n
    BY <1>4, <2>2
  <2> HIDE DEF j
  <2>6. to[j].body = rows[n].body
    BY <1>2, <2>4, <2>5 DEF Inside
  <2>7. j \in full
    BY <1>4, <2>3, <2>4, <2>6
  <2> QED
    BY <2>2, <2>5, <2>7
<1> HIDE DEF f
<1>10. \A r \in from : \E q \in full : f[q] = r
  BY <1>9
<1>11. /\ IsFiniteSet(from) /\ Cardinality(from) = Cardinality(full)
       /\ \A j \in full : Rank(from, f[j]) = Rank(full, j)
  BY <1>5, <1>7, <1>8, <1>10, RankOfImage
<1>12. ASSUME NEW i \in from, NEW j \in full, Rank(from, i) = Rank(full, j)
       PROVE  /\ to[j].body = text[i].body
              /\ to[j].body = "item" /\ j > 1 => to[j].lead = text[i].lead
  <2>1. f[j] \in from /\ Rank(from, i) = Rank(from, f[j])
    BY <1>7, <1>11, <1>12
  <2>2. \A k, l \in from : Rank(from, k) = Rank(from, l) => k = l
    BY <1>5, <1>11, RankReached
  <2>3. i = f[j]
    BY <2>1, <2>2
  <2>4. i = Nth(stay, j + skipped)
    BY <2>3 DEF f
  <2> QED
    BY <1>6, <2>4
<1> QED
  BY <1>11, <1>12 DEF SameWords, from, full

-----------------------------------------------------------------------------
(* A tidied text                                                           *)

\* Without the white space that only strip sees, an empty line never follows
\* another one.
LEMMA OneBlankLine ==
    ASSUME NEW text \in Seq(Lines), NEW to, NEW skipped \in Nat,
           Inside(to, Rows(text), skipped),
           \A i \in DOMAIN text : text[i].body # "nbsp"
    PROVE  Again(to) = {}
<1> DEFINE stay == Stay(text)
           rows == Rows(text)
           cut == NoTrailing(text)
<1>1. /\ stay \in SUBSET (1..Len(text)) /\ stay \in SUBSET Nat
      /\ IsFiniteSet(stay) /\ Cardinality(stay) \in Nat
      /\ RowsOf(rows, text, stay)
  BY RowsAre
<1>2. Inside(to, rows, skipped)
  OBVIOUS
<1>3. /\ cut \in Seq(Lines) /\ Len(cut) = Len(text) /\ DOMAIN cut = 1..Len(text)
      /\ \A i \in 1..Len(text) : text[i].body = "none" /\ i < Len(text) => Nothing(cut[i])
  BY NoTrailingIs
<1>4. stay = DOMAIN cut \ Again(cut)
  BY DEF Stay
<1> HIDE DEF stay, rows, cut
<1>5. /\ \A n \in 1..Cardinality(stay) : Nth(stay, n) \in stay /\ Rank(stay, Nth(stay, n)) = n
      /\ \A m, n \in 1..Cardinality(stay) : m < n => Nth(stay, m) < Nth(stay, n)
      /\ \A i \in stay : Rank(stay, i) \in 1..Cardinality(stay)
      /\ \A i, j \in stay : i < j => Rank(stay, i) < Rank(stay, j)
  BY <1>1, NthIs, RankInside, RankGrows
<1>6. /\ to \in Seq(Lines) /\ Len(to) \in Nat /\ Len(rows) = Cardinality(stay)
      /\ skipped + Len(to) <= Len(rows)
  BY <1>1, <1>2 DEF Inside, RowsOf
\* Where an empty line comes from.
<1>7. ASSUME NEW j \in 1..Len(to), Nothing(to[j]), j < Len(to)
      PROVE  LET i == Nth(stay, j + skipped)
             IN  /\ j + skipped \in 1..Cardinality(stay) /\ i \in stay
                 /\ i \in 1..Len(text) /\ i < Len(text) /\ Nothing(cut[i])
  <2> DEFINE n == j + skipped
             i == Nth(stay, n)
             k == Nth(stay, n + 1)
  <2>1. n \in 1..Cardinality(stay) /\ n + 1 \in 1..Cardinality(stay) /\ n < n + 1
    BY <1>6, <1>7
  <2>2. to[j].body = "none" /\ to[j].body = rows[n].body
    BY <1>2, <1>7 DEF Inside
  <2> HIDE DEF n
  <2>3. i \in stay /\ k \in stay /\ i < k
    BY <1>5, <2>1
  <2>4. rows[n].body = IF text[i].body \in {"none", "nbsp"} THEN "none" ELSE text[i].body
    BY <1>1, <1>6, <2>1 DEF RowsOf
  <2> HIDE DEF i, k
  <2>5. i \in 1..Len(text) /\ k \in 1..Len(text) /\ i < Len(text)
    BY <1>1, <2>3
  <2>6. text[i].body = "none"
    BY <2>2, <2>4, <2>5
  <2>7. Nothing(cut[i])
    BY <1>3, <2>5, <2>6
  <2> QED
    BY <2>1, <2>3, <2>5, <2>7 DEF i, n
<1>8. SUFFICES ASSUME NEW j \in 2..Len(to), Nothing(to[j]), Nothing(to[j - 1])
               PROVE  FALSE
  BY DEF Again
<1>9. j \in 1..Len(to) /\ j - 1 \in 1..Len(to) /\ j - 1 < Len(to) /\ j < Len(to)
  <2>1. Len(to) \in Full(to)
    BY <1>2, <1>6, <1>8 DEF Inside
  <2>2. ~Nothing(to[Len(to)])
    BY <2>1 DEF Full
  <2> QED
    BY <1>6, <1>8, <2>2
<1> DEFINE m == (j - 1) + skipped
           p == Nth(stay, m)
           q == Nth(stay, m + 1)
<1>10. m + 1 = j + skipped /\ m \in Nat
  BY <1>9
<1>11. /\ m \in 1..Cardinality(stay) /\ p \in stay /\ p \in 1..Len(text)
       /\ p < Len(text) /\ Nothing(cut[p])
  BY <1>7, <1>8, <1>9
<1>12. /\ m + 1 \in 1..Cardinality(stay) /\ q \in stay /\ q \in 1..Len(text)
       /\ q < Len(text) /\ Nothing(cut[q])
  BY <1>7, <1>8, <1>9, <1>10
<1> HIDE DEF m
<1>13. p < q /\ Rank(stay, p) = m /\ Rank(stay, q) = m + 1
  BY <1>5, <1>10, <1>11, <1>12
<1> HIDE DEF p, q
<1>14. q - 1 \in 1..Len(text) /\ q \in 2..Len(text)
  BY <1>11, <1>12, <1>13
<1>15. Nothing(cut[q - 1])
  <2>1. CASE q - 1 = p
    BY <1>11, <2>1
  <2>2. CASE q - 1 # p
    <3>1. p < q - 1 /\ q - 1 < q
      BY <1>11, <1>12, <1>13, <2>2
    <3>2. q - 1 \notin stay
      <4>1. SUFFICES ASSUME q - 1 \in stay PROVE FALSE
        OBVIOUS
      <4>2. m < Rank(stay, q - 1) /\ Rank(stay, q - 1) < m + 1 /\ Rank(stay, q - 1) \in Nat
        BY <1>5, <1>11, <1>12, <1>13, <3>1, <4>1
      <4> QED
        BY <1>10, <4>2
    <3>3. q - 1 \in Again(cut)
      BY <1>3, <1>4, <1>14, <3>2
    <3> QED
      BY <3>3 DEF Again
  <2> QED
    BY <2>1, <2>2
<1>16. q \in Again(cut)
  BY <1>3, <1>12, <1>14, <1>15 DEF Again
<1> QED
  BY <1>4, <1>12, <1>16

\* A text that _tidy may return: it leaves it as it is.
LEMMA TidyKeeps ==
    ASSUME NEW text \in Seq(Lines), Again(text) = {},
           text # << >> => 1 \in Full(text) /\ Len(text) \in Full(text) /\ text[1].lead = 0,
           \A j \in 1..Len(text) :
              /\ text[j].trail = 0 /\ text[j].body # "nbsp"
              /\ text[j].body # "item" => text[j].lead = 0
    PROVE  Tidy(text) = text
<1> DEFINE n == Len(text)
<1>1. /\ n \in Nat /\ DOMAIN text = 1..n /\ text = [i \in 1..n |-> text[i]]
      /\ \A i \in 1..n : text[i] \in Lines
  OBVIOUS
<1>2. ASSUME NEW i \in 1..n
      PROVE  /\ text[i] = Line(text[i].lead, text[i].body, 0)
             /\ text[i].body = "none" => text[i] = Line(0, "none", 0)
             /\ Strip(text[i]) = text[i]
  <2> DEFINE line == text[i]
  <2>1. /\ line \in Lines /\ line.trail = 0 /\ line.body \in Bodies /\ line.body # "nbsp"
        /\ line.body # "item" => line.lead = 0
    BY <1>1 DEF Lines
  <2> HIDE DEF line
  <2>2. line = Line(line.lead, line.body, 0)
    BY <2>1 DEF Lines, Line
  <2>3. line.body = "none" => line = Line(0, "none", 0)
    BY <2>1, <2>2
  <2>4. Strip(line) = line
    BY <2>1, <2>2, <2>3 DEF Strip
  <2> QED
    BY <2>2, <2>3, <2>4 DEF line
<1>3. NoTrailing(text) = text
  <2> DEFINE cut(i) == IF i = n THEN text[i]
                       ELSE IF text[i].body = "none" THEN Line(0, "none", 0)
                            ELSE [text[i] EXCEPT !.trail = 0]
  <2>1. ASSUME NEW i \in 1..n
        PROVE  cut(i) = text[i]
    <3>1. [text[i] EXCEPT !.trail = 0] = Line(text[i].lead, text[i].body, 0)
      BY <1>1 DEF Lines, Line
    <3> QED
      BY <1>2, <3>1
  <2>2. NoTrailing(text) = [i \in 1..n |-> cut(i)]
    BY <1>1 DEF NoTrailing
  <2> HIDE DEF cut
  <2> QED
    BY <1>1, <2>1, <2>2
<1>4. OneBlank(text) = text
  <2> DEFINE all == 1..n
  <2>1. OneBlank(text) = Sub(text, all)
    BY <1>1 DEF OneBlank
  <2>2. IsFiniteSet(all) /\ Cardinality(all) = n
    <3>1. 1 \in Int /\ n \in Int /\ n >= 0
      BY <1>1
    <3>2. IsFiniteSet(all) /\ Cardinality(all) = IF 1 > n THEN 0 ELSE n - 1 + 1
      BY <3>1, FS_Interval
    <3> HIDE DEF n, all
    <3> QED
      BY <3>1, <3>2
  <2>3. \A i \in all : Rank(all, i) = i
    <3>1. ASSUME NEW i \in all
          PROVE  Rank(all, i) = i
      <4>1. {k \in all : k <= i} = 1..i
        OBVIOUS
      <4>2. i \in Int /\ 1 \in Int /\ i >= 1
        OBVIOUS
      <4>3. Cardinality(1..i) = IF 1 > i THEN 0 ELSE i - 1 + 1
        BY <4>2, FS_Interval
      <4>4. Cardinality(1..i) = i
        BY <4>2, <4>3
      <4> QED
        BY <4>1, <4>4 DEF Rank
    <3> QED
      BY <3>1
  <2>4. \A i \in all : Nth(all, i) = i
    <3>1. \A i \in all : Nth(all, Rank(all, i)) = i
      <4>1. all \in SUBSET Nat
        OBVIOUS
      <4> QED
        BY <2>2, <4>1, NthIs
    <3> QED
      BY <2>3, <3>1
  <2>5. Sub(text, all) = [i \in all |-> text[Nth(all, i)]]
    BY <2>2 DEF Sub
  <2> QED
    BY <1>1, <2>1, <2>4, <2>5
<1>5. Tidy(text) = StripEnds(text)
  <2>1. [i \in DOMAIN text |-> Strip(text[i])] = text
    BY <1>1, <1>2
  <2> QED
    BY <1>3, <1>4, <2>1 DEF Tidy
<1>6. StripEnds(text) = text
  <2>1. CASE text = << >>
    <3>1. {i \in DOMAIN text : ~Nothing(text[i])} = {}
      BY <2>1
    <3> QED
      BY <2>1, <3>1 DEF StripEnds
  <2>2. CASE text # << >>
    <3> DEFINE full == Full(text)
    <3>1. full \in SUBSET (1..n) /\ full # {} /\ 1 \in full /\ n \in full
      BY <2>2 DEF Full
    <3>2. Min(full) = 1 /\ Max(full) = n
      <4> DEFINE low == Min(full)
                 high == Max(full)
      <4>1. low \in full /\ high \in full /\ \A i \in full : low <= i /\ i <= high
        BY <1>1, <3>1, EndsOfSome
      <4> HIDE DEF low, high, full
      <4>2. low \in 1..n /\ high \in 1..n /\ low <= 1 /\ n <= high
        BY <3>1, <4>1
      <4>3. low = 1 /\ high = n
        BY <1>1, <4>2
      <4> QED
        BY <4>3 DEF low, high
    <3>3. SubSeq(text, 1, n) = text
      BY <1>1
    <3>4. StripEnds(text) = [SubSeq(text, Min(full), Max(full)) EXCEPT ![1].lead = 0]
      BY <3>1 DEF StripEnds, Full
    <3>5. StripEnds(text) = [text EXCEPT ![1].lead = 0]
      BY <3>2, <3>3, <3>4
    <3>6. [text EXCEPT ![1].lead = 0] = [text EXCEPT ![1] = [text[1] EXCEPT !.lead = 0]]
      OBVIOUS
    <3>7. [text[1] EXCEPT !.lead = 0] = text[1]
      <4>1. text[1] \in Lines /\ text[1].lead = 0
        BY <1>1, <2>2
      <4> QED
        BY <4>1 DEF Lines
    <3> QED
      BY <1>1, <3>5, <3>6, <3>7
  <2> QED
    BY <2>1, <2>2
<1> QED
  BY <1>5, <1>6

-----------------------------------------------------------------------------

\* All that is known of the text in hand: what it was, and what _tidy made of it.
TidyInv == tidied = NoText \/ (tidied.from \in Seq(Lines) /\ tidied.to = Tidy(tidied.from))

LEMMA TidyNextOK == TidyInv /\ [Next]_offlineVars => TidyInv'
<1> SUFFICES ASSUME TidyInv, [Next]_offlineVars
             PROVE  TidyInv'
  OBVIOUS
<1>1. CASE TidyText
  <2>1. PICK text \in Texts : tidied' = [from |-> text, to |-> Tidy(text)]
    BY <1>1 DEF TidyText
  <2>2. tidied'.from = text /\ tidied'.to = Tidy(text) /\ text \in Seq(Lines)
    BY <2>1, TextsAssumption
  <2> QED
    BY <2>2 DEF TidyInv
<1>2. CASE TidyReturns
  BY <1>2 DEF TidyReturns, TidyInv
<1>3. CASE UNCHANGED tidied
  BY <1>3 DEF TidyInv
<1>4. TidyText \/ TidyReturns \/ UNCHANGED tidied
  BY DEF Next, HtmlNext, HtmlRests, htmlVars, offlineVars, Feed, HandleBreak, HandleEnd, HandleData,
         HandleBlank, Close, HandleStart
<1> QED
  BY <1>1, <1>2, <1>3, <1>4

LEMMA TidyHolds == TidyInv => TidyIsFinal
<1> SUFFICES ASSUME TidyInv
             PROVE  TidyIsFinal
  OBVIOUS
<1> DEFINE text == tidied.from
           to == tidied.to
<1>1. text \in Seq(Lines) /\ to = Tidy(text)
  <2>1. CASE tidied = NoText
    <3>1. text = << >> /\ to = << >>
      BY <2>1 DEF NoText
    <3>2. text \in Seq(Lines) /\ Again(text) = {} /\ Len(text) = 0
      BY <3>1 DEF Again
    <3>3. Tidy(text) = text
      <4> HIDE DEF text
      <4>1. \A j \in 1..Len(text) : FALSE
        BY <3>2
      <4> QED
        BY <3>1, <3>2, <4>1, TidyKeeps
    <3> QED
      BY <3>1, <3>2, <3>3
  <2> QED
    BY <2>1 DEF TidyInv
<1>2. PICK skipped \in Nat : Inside(Tidy(text), Rows(text), skipped)
  BY <1>1, TidyIs
<1>3. Inside(to, Rows(text), skipped)
  BY <1>1, <1>2
<1> HIDE DEF text, to
<1>4. SameWords(text, to)
  BY <1>1, <1>3, WordsMatch
<1>5. /\ to \in Seq(Lines) /\ DOMAIN to = 1..Len(to)
      /\ \A j \in 1..Len(to) : /\ to[j].trail = 0 /\ to[j].body # "nbsp"
                               /\ to[j].body # "item" => to[j].lead = 0
                               /\ j = 1 => to[j].lead = 0
      /\ to # << >> => 1 \in Full(to) /\ Len(to) \in Full(to)
  BY <1>3 DEF Inside
<1>6. ASSUME \A i \in DOMAIN text : text[i].body # "nbsp"
      PROVE  Again(to) = {} /\ Tidy(to) = to
  <2>1. Again(to) = {}
    BY <1>1, <1>3, <1>6, OneBlankLine
  <2>2. to # << >> => 1 \in Full(to) /\ Len(to) \in Full(to) /\ to[1].lead = 0
    BY <1>5
  <2> QED
    BY <1>5, <2>1, <2>2, TidyKeeps
<1> QED
  BY <1>4, <1>5, <1>6 DEF TidyIsFinal, SameWords, Worded, Full, text, to

\* What _tidy returns (TidyIsFinal of Html), for every text: its lines with text on
\* them are those it was given, in their order and at their depth, no blank is left
\* at an end, and, where there is no white space but spaces and tabs, no two empty
\* lines stand together and another _tidy changes nothing.
THEOREM TidyFinal == Spec => []TidyIsFinal
<1>1. Init => TidyInv
  BY DEF Init, HtmlInit, TidyInv
<1> QED
  BY <1>1, TidyNextOK, TidyHolds, PTL DEF Spec
=============================================================================
