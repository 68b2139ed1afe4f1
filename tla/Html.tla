-------------------------------- MODULE Html --------------------------------
(***************************************************************************)
(* app/retrieval/clean.py: an HTML fragment becomes text with markdown     *)
(* headings and lists, and the text is tidied.                             *)
(*                                                                         *)
(* The editor of the backend writes well-formed fragments: elements are    *)
(* closed in order, lists hold items, paragraphs and headings hold inline  *)
(* markup.  Each action is one call HTMLParser makes.  The parts are       *)
(* newlines, spaces, marks of headings and items, and texts, of which all  *)
(* that counts is which of the fragment's they are.                        *)
(***************************************************************************)
EXTENDS Naturals, SequencesExt, Places

CONSTANTS Tags,         \* the elements in use
          MaxEvents,    \* bound of the model: tags and texts of a fragment
          Texts         \* texts to tidy

DROP == {"script", "style", "noscript", "head", "iframe", "svg", "template"}
FURNITURE == {"nav", "footer", "header", "aside", "menu", "form"}
HEADINGS == {"h1", "h2", "h3", "h4", "h5", "h6"}
LISTS == {"ul", "ol"}
BLOCK == {"p", "div", "section", "article", "br", "hr", "tr", "table", "blockquote",
          "pre", "li", "dl", "dt", "dd"} \cup HEADINGS \cup LISTS
INLINE == {"b", "br"}

VARIABLES
    html,   \* the _TextExtractor: parts, skip, lists (with the index of the last
            \* item of each); pc is "idle" when there is none
    markup, \* the fragment so far: its open elements (each with its items so far),
            \* the texts and marks it asks for, what stands before each text, and
            \* since the last one: "none", "blank" or "block"
    resumed,\* which of the texts, by number, go on with an item after a list inside it
    tidied  \* a text before and after _tidy

htmlVars == <<html, markup, resumed, tidied>>

NoExtractor == [pc |-> "idle", parts |-> << >>, skip |-> 0, lists |-> << >>]
NoMarkup == [open |-> << >>, size |-> 0, texts |-> << >>, marks |-> << >>,
             between |-> "none", gaps |-> << >>]

NoText == [from |-> << >>, to |-> << >>]

HtmlInit == html = NoExtractor /\ markup = NoMarkup /\ resumed = {} /\ tidied = NoText

-----------------------------------------------------------------------------
(* _TextExtractor *)

Newline == [kind |-> "newline", what |-> 0, depth |-> 0]
Space == [kind |-> "space", what |-> 0, depth |-> 0]
TextPart(n) == [kind |-> "text", what |-> n, depth |-> 0]
\* The mark of a heading ("h2") or of an item: its number in an ol, or 0.
Mark(what, depth) == [kind |-> "mark", what |-> what, depth |-> depth]

Emit(x, parts) == [x EXCEPT !.parts = @ \o parts]

\* A slip: the index lives longer than its list.
OpenList_Counted(x, tag) ==
    [x EXCEPT !.lists = Append(@, [tag |-> tag, index |-> IF x.lists = << >> THEN 0
                                                          ELSE Last(x.lists).index])]
OpenList(x, tag) == [x EXCEPT !.lists = Append(@, [tag |-> tag, index |-> 0])]

StartItem(x) ==
    LET ordered == x.lists # << >> /\ Last(x.lists).tag = "ol"
        depth == IF x.lists = << >> THEN 0 ELSE Len(x.lists) - 1
        y == IF ordered THEN [x EXCEPT !.lists[Len(x.lists)].index = @ + 1] ELSE x
    IN  Emit(y, <<Newline, Mark(IF ordered THEN Last(y.lists).index ELSE 0, depth)>>)

StartTag(x, tag) ==
    CASE tag \in DROP \cup FURNITURE -> [x EXCEPT !.skip = @ + 1]
      [] tag \notin DROP \cup FURNITURE /\ x.skip > 0 -> x
      [] x.skip = 0 /\ tag \in HEADINGS -> Emit(x, <<Newline, Mark(tag, 0)>>)
      [] x.skip = 0 /\ tag \in LISTS ->
            OpenList(IF x.lists = << >> THEN Emit(x, <<Newline>>) ELSE x, tag)
      [] x.skip = 0 /\ tag = "li" -> StartItem(x)
      [] x.skip = 0 /\ tag \in BLOCK \ (HEADINGS \cup LISTS \cup {"li"}) -> Emit(x, <<Newline>>)
      [] OTHER -> x

EndSkip(x) == [x EXCEPT !.skip = IF @ = 0 THEN 0 ELSE @ - 1]

EndList(x) ==
    LET y == IF x.lists = << >> THEN x ELSE [x EXCEPT !.lists = Front(@)]
    IN  IF y.lists = << >> THEN Emit(y, <<Newline>>) ELSE y

EndTag(x, tag) ==
    CASE tag \in DROP \cup FURNITURE -> EndSkip(x)
      [] tag \notin DROP \cup FURNITURE /\ x.skip > 0 -> x
      [] x.skip = 0 /\ tag \in LISTS -> EndList(x)
      [] x.skip = 0 /\ tag \in BLOCK \ (LISTS \cup {"li"}) -> Emit(x, <<Newline>>)
      [] OTHER -> x

\* A slip: blank data is nothing.
BlankData_None(x) == x
BlankData(x) == IF x.skip = 0 /\ x.parts # << >>
                      /\ Last(x.parts).kind \notin {"space", "newline", "mark"}
                  THEN Emit(x, <<Space>>) ELSE x

WordData(x, n) == IF x.skip = 0 THEN Emit(x, <<TextPart(n)>>) ELSE x

-----------------------------------------------------------------------------
(* The fragment *)

Top == IF markup.open = << >> THEN [tag |-> "body", items |-> 0] ELSE Last(markup.open)

Hidden(m) == \E i \in DOMAIN m.open : m.open[i].tag \in DROP \cup FURNITURE

\* Which element the editor puts where.
Fits(tag) ==
    /\ Top.tag \in LISTS <=> tag = "li"
    /\ Top.tag \in HEADINGS \cup {"p", "b"} => tag \in INLINE
    /\ Top.tag \notin DROP

Between(m, what) == [m EXCEPT !.between = IF Hidden(m) THEN @ ELSE what]

Lists(m) == Cardinality({i \in DOMAIN m.open : m.open[i].tag \in LISTS})

\* Whether the element begins and ends a block of its own.  A list inside an item
\* does not: its items begin theirs, and what follows its end is noted in resumed.
Breaks(m, tag) == tag \in BLOCK /\ (tag \in LISTS => Lists(m) = 0)

Opened(tag) ==
    LET m == [IF Breaks(markup, tag) THEN Between(markup, "block") ELSE markup
                EXCEPT !.size = @ + 1]
        number == IF Top.tag = "ol" THEN Top.items + 1 ELSE 0
        mark == IF tag = "li" THEN <<Mark(number, Lists(m) - 1)>>
                ELSE IF tag \in HEADINGS THEN <<Mark(tag, 0)>> ELSE << >>
        parent == IF tag = "li" THEN [m EXCEPT !.open[Len(m.open)].items = @ + 1] ELSE m
    IN  [parent EXCEPT !.open = Append(@, [tag |-> tag, items |-> 0]),
                       !.marks = IF Hidden(m) THEN @ ELSE @ \o mark]

Closed == LET m == [markup EXCEPT !.open = Front(@)]
          IN  IF Breaks(m, Top.tag) /\ Top.tag # "li" THEN Between(m, "block") ELSE m

\* The innermost element is a list inside an item, where it is seen.
InnerList == LET m == [markup EXCEPT !.open = Front(@)]
             IN  Top.tag \in LISTS /\ Lists(m) # 0 /\ ~Hidden(m)

Said == LET m == [markup EXCEPT !.size = @ + 1]
        IN  IF Hidden(m) THEN m
            ELSE [m EXCEPT !.texts = Append(@, TextPart(m.size)), !.gaps = Append(@, m.between),
                           !.between = "none"]

-----------------------------------------------------------------------------

HtmlIdle == html.pc = "idle" /\ tidied = NoText

Feed == /\ HtmlIdle
        /\ html' = [NoExtractor EXCEPT !.pc = "fed"]
        /\ markup' = NoMarkup /\ resumed' = {}
        /\ UNCHANGED tidied

Grows == html.pc = "fed" /\ markup.size < MaxEvents

HandleStart(tag) == /\ Grows /\ Fits(tag) /\ tag # "br"
                    /\ html' = StartTag(html, tag) /\ markup' = Opened(tag)
                    /\ UNCHANGED <<resumed, tidied>>

\* <br> is a start tag, and <br/> one and its end.
HandleBreak == /\ Grows /\ "br" \in Tags /\ Fits("br")
               /\ \/ html' = StartTag(html, "br")
                  \/ html' = EndTag(StartTag(html, "br"), "br")
               /\ markup' = [Between(markup, "block") EXCEPT !.size = @ + 1]
               /\ UNCHANGED <<resumed, tidied>>

HandleEnd == /\ html.pc = "fed" /\ markup.open # << >>
             /\ html' = EndTag(html, Top.tag) /\ markup' = Closed
             /\ resumed' = resumed \cup IF InnerList THEN {Len(markup.texts) + 1} ELSE {}
             /\ UNCHANGED tidied

HandleData == /\ Grows /\ Top.tag \notin LISTS
              /\ html' = WordData(html, markup.size + 1) /\ markup' = Said
              /\ UNCHANGED <<resumed, tidied>>

HandleBlank ==
    /\ Grows /\ Top.tag \notin LISTS
    /\ html' = BlankData(html)
    /\ markup' = [Between(markup, IF markup.between = "none" THEN "blank" ELSE markup.between)
                    EXCEPT !.size = @ + 1]
    /\ UNCHANGED <<resumed, tidied>>

Close == /\ html.pc = "fed" /\ markup.open = << >>
         /\ html' = NoExtractor /\ markup' = NoMarkup /\ resumed' = {}
         /\ UNCHANGED tidied

-----------------------------------------------------------------------------
(* _tidy: a text is a sequence of lines, each with its blanks before and     *)
(* after (\t and space) and its body: "none", "word", "item" (a list item)  *)
(* or "nbsp" (white space that is neither a space nor a tab).               *)

Bodies == {"none", "word", "item", "nbsp"}
Lines == [lead : Nat, body : Bodies, trail : Nat]

ASSUME TextsAssumption == Texts \subseteq Seq(Lines)

Line(lead, body, trail) == [lead |-> lead, body |-> body, trail |-> trail]
Nothing(line) == line.body = "none" /\ line.lead = 0 /\ line.trail = 0

\* _TRAILING_SPACE: the last line has no newline after it.
NoTrailing(text) ==
    [i \in DOMAIN text |->
        IF i = Len(text) THEN text[i]
        ELSE IF text[i].body = "none" THEN Line(0, "none", 0) ELSE [text[i] EXCEPT !.trail = 0]]

\* The empty lines that follow another one.
Again(text) == {i \in 2..Len(text) : Nothing(text[i]) /\ Nothing(text[i - 1])}

\* _MULTI_NEWLINE; the empty lines at the edges of a text are dropped later on.
OneBlank(text) == Sub(text, DOMAIN text \ Again(text))

Strip(line) == IF line.body \in {"none", "nbsp"} THEN Line(0, "none", 0)
               ELSE Line(IF line.body = "item" THEN line.lead ELSE 0, line.body, 0)

\* str.strip of the whole text.
StripEnds(text) ==
    LET full == {i \in DOMAIN text : ~Nothing(text[i])}
    IN  IF full = {} THEN << >>
        ELSE [SubSeq(text, Min(full), Max(full)) EXCEPT ![1].lead = 0]

\* A slip: blank lines are collapsed before they are known to be blank.
Tidy_BlankFirst(text) ==
    LET lines == NoTrailing(OneBlank(text))
    IN  StripEnds([i \in DOMAIN lines |-> Strip(lines[i])])
Tidy(text) ==
    LET lines == OneBlank(NoTrailing(text))
    IN  StripEnds([i \in DOMAIN lines |-> Strip(lines[i])])

TidyText == /\ HtmlIdle
            /\ \E text \in Texts : tidied' = [from |-> text, to |-> Tidy(text)]
            /\ UNCHANGED <<html, markup, resumed>>

TidyReturns == tidied # NoText /\ tidied' = NoText /\ UNCHANGED <<html, markup, resumed>>

HtmlNext == \/ Feed \/ HandleBreak \/ HandleEnd \/ HandleData \/ HandleBlank \/ Close
            \/ \E tag \in Tags : HandleStart(tag)
            \/ TidyText \/ TidyReturns

-----------------------------------------------------------------------------
(* Properties *)

Places(parts, kind) == {i \in DOMAIN parts : parts[i].kind = kind}

\* The parts of a kind are those asked for, in their order.
Kept(parts, kind, wanted) ==
    LET places == Places(parts, kind)
    IN  /\ Cardinality(places) = Len(wanted)
        /\ \A i \in places : parts[i] = wanted[Rank(places, i)]

\* Text of scripts and page furniture never reaches the knowledge base, and no
\* other text is lost, repeated or moved, however elements are nested.  Headings and
\* items keep their marks: items of an ol are numbered from 1 on, a list inside an
\* item starts anew and does not disturb the count outside of it.
PartsKept == /\ Kept(html.parts, "text", markup.texts)
             /\ Kept(html.parts, "mark", markup.marks)

\* What stands between two neighbouring texts is the gap asked for.
Apart(parts, i, j, gap) ==
    LET between == {parts[k].kind : k \in (i + 1)..(j - 1)}
    IN  "text" \notin between => /\ gap = "block" => "newline" \in between
                                 /\ gap = "blank" => between # {}

\* A text that begins a block, an item or a heading, or follows the end of a block,
\* is on a line of its own, and white space between two words of a line stays
\* (clean.py:121).  Nothing is said of the text that goes on with an item after a
\* list inside it: see ItemsResume.
TextsApart ==
    LET places == Places(html.parts, "text")
    IN  \A i, j \in places :
            i < j => LET n == Rank(places, j)
                     IN  n \in DOMAIN markup.gaps /\ Apart(html.parts, i, j, markup.gaps[n])

\* A text that goes on with an item after a list inside it is not on the line of the
\* inner list's last item: the structure of lists is kept (clean.py:1).
ItemsResume ==
    LET places == Places(html.parts, "text")
    IN  \A i, j \in places :
            i < j /\ Rank(places, j) \in resumed => Apart(html.parts, i, j, "block")

\* What _tidy returns has no blank at the end of a line, no two empty lines
\* together and none at an end, has lost no line with text on it nor the depth of
\* an item, and is left as it is by another _tidy.
TidyIsFinal ==
    LET from == {i \in DOMAIN tidied.from : tidied.from[i].body \notin {"none", "nbsp"}}
        to == {j \in DOMAIN tidied.to : ~Nothing(tidied.to[j])}
    IN  /\ Cardinality(from) = Cardinality(to)
        /\ \A i \in from, j \in to :
              Rank(from, i) = Rank(to, j) =>
                  /\ tidied.to[j].body = tidied.from[i].body
                  /\ tidied.to[j].body = "item" /\ j > 1 => tidied.to[j].lead = tidied.from[i].lead
        /\ \A j \in DOMAIN tidied.to : tidied.to[j].trail = 0
        /\ tidied.to # << >> => 1 \in to /\ Len(tidied.to) \in to
        /\ (\A i \in DOMAIN tidied.from : tidied.from[i].body # "nbsp") =>
              /\ Again(tidied.to) = {}
              /\ Tidy(tidied.to) = tidied.to
=============================================================================
