------------------------------ MODULE Normalize -----------------------------
(***************************************************************************)
(* app/retrieval/normalize.py.  A text is a sequence of atoms: the pieces  *)
(* of Persian words the rules know ("mi" and "nemi", the prefixes; "stem", *)
(* a stem on VERB_STEMS; "ha", a suffix), other words ("noun", "o" of one  *)
(* letter, "latin"), Persian punctuation ("mark"), spellings that are      *)
(* folded, and the white space and invisible characters between them.      *)
(***************************************************************************)
EXTENDS Naturals, SequencesExt, Places

CONSTANT Writings       \* texts to normalise

PREFIXES == {"mi", "nemi"}
\* What [\u0600-\u06ff] matches: the letters and, in the same class, a question mark,
\* comma or semicolon.
PERSIAN == PREFIXES \cup {"stem", "ha", "noun", "o", "mark"}
INVISIBLE == {"kashida", "zwsp"}                    \* translated to nothing
DIACRITICS == {"fatha"}
LETTERS == [arabic |-> "noun", digits |-> "latin"]  \* _LETTERS, _DIGITS
GAP == {"sp", "zwnj"}                               \* [ \u200c]
Atoms == PERSIAN \cup INVISIBLE \cup DIACRITICS \cup DOMAIN LETTERS \cup GAP
         \cup {"latin", "nl", "tab", "nbsp"}

ASSUME WritingsAssumption == Writings \subseteq Seq(Atoms)

VARIABLE normalized     \* a text before and after

-----------------------------------------------------------------------------
(* Regular expressions *)

At(text, i) == IF i \in DOMAIN text THEN text[i] ELSE "edge"

\* The run of a set of atoms around position i.
RunStart(text, i, set) == Min({j \in 1..i : \A k \in j..i : text[k] \in set})
RunEnd(text, i, set) == Max({j \in i..Len(text) : \A k \in i..j : text[k] \in set})

-----------------------------------------------------------------------------
(* The passes, in their order *)

\* NFKC turns a no-break space into a space; a slip leaves it to the last passes.
Compose_None(text) == text
Compose(text) == [i \in DOMAIN text |-> IF text[i] = "nbsp" THEN "sp" ELSE text[i]]

Fold(text) ==
    LET visible == Sub(text, {i \in DOMAIN text : text[i] \notin INVISIBLE \cup DIACRITICS})
    IN  [i \in DOMAIN visible |-> IF visible[i] \in DOMAIN LETTERS THEN LETTERS[visible[i]]
                                                                   ELSE visible[i]]

\* The rules take the edges of a run of the class for those of a word.
StartsWord(text, i) == At(text, i - 1) \notin PERSIAN
EndsWord(text, i) == At(text, i + 1) \notin PERSIAN

\* The runs of gaps at some places become one half-space each.
HalfSpaced(text, gaps) ==
    Sub([i \in DOMAIN text |-> IF i \in gaps THEN "zwnj" ELSE text[i]],
        {i \in DOMAIN text : i \in gaps => i = RunStart(text, i, GAP)})

PrefixSpaced(text) ==
    LET Joins(i) == LET s == RunStart(text, i, GAP)
                        e == RunEnd(text, i, GAP)
                    IN  /\ At(text, s - 1) \in PREFIXES /\ StartsWord(text, s - 1)
                        /\ At(text, e + 1) \in PERSIAN
    IN  HalfSpaced(text, {i \in DOMAIN text : text[i] \in GAP /\ Joins(i)})

\* A half-space after each of some places: of those that could stand after every
\* atom, these are kept.
Attached(text, places) ==
    Sub([n \in 1..(2 * Len(text)) |-> IF n % 2 = 1 THEN text[(n + 1) \div 2] ELSE "zwnj"],
        {2 * i - 1 : i \in DOMAIN text} \cup {2 * i : i \in places})

\* Slips: the prefix is taken for a part of the word, and any word that begins with
\* the letters of the prefix is split.
PrefixAttached_None(text) == text
PrefixAttached_AnyWord(text) ==
    Attached(text, {i \in DOMAIN text : /\ text[i] \in PREFIXES /\ StartsWord(text, i)
                                       /\ At(text, i + 1) \in PERSIAN})
PrefixAttached(text) ==
    Attached(text, {i \in DOMAIN text : /\ text[i] \in PREFIXES /\ StartsWord(text, i)
                                       /\ At(text, i + 1) = "stem" /\ EndsWord(text, i + 1)})

\* A suffix after at least two characters of the class.
SuffixSpaced(text) ==
    LET Joins(i) == LET s == RunStart(text, i, GAP)
                        e == RunEnd(text, i, GAP)
                    IN  /\ At(text, s - 1) \in PERSIAN
                        /\ At(text, s - 1) \notin {"o", "mark"} \/ At(text, s - 2) \in PERSIAN
                        /\ At(text, e + 1) = "ha" /\ EndsWord(text, e + 1)
    IN  HalfSpaced(text, {i \in DOMAIN text : text[i] \in GAP /\ Joins(i)})

ZwnjRun(text) ==
    Sub(text, {i \in DOMAIN text : text[i] = "zwnj" => At(text, i - 1) # "zwnj"})

ZwnjAtEdge(text) ==
    Sub(text, {i \in DOMAIN text : text[i] = "zwnj" => ~StartsWord(text, i) /\ ~EndsWord(text, i)})

\* Tabs, and runs of white space other than newlines.
Spaces(text) ==
    LET blank == {"sp", "tab", "nbsp"}
    IN  Sub([i \in DOMAIN text |-> IF text[i] \in blank THEN "sp" ELSE text[i]],
            {i \in DOMAIN text : text[i] \in blank => At(text, i - 1) \notin blank})

BlankLines(text) ==
    Sub(text, {i \in DOMAIN text :
                  text[i] = "nl" => At(text, i - 1) # "nl" \/ At(text, i - 2) # "nl"})

\* A blank at an end of a line.
AtEdge(text, i) == /\ text[i] = "sp"
                   /\ At(text, i - 1) \in {"nl", "edge"} \/ At(text, i + 1) \in {"nl", "edge"}

\* A slip: the newlines are stripped away with the blanks around them.
StripLines_Joined(text) ==
    Sub(text, {i \in DOMAIN text : text[i] # "nl" /\ ~AtEdge(text, i)})
StripLines(text) == Sub(text, {i \in DOMAIN text : ~AtEdge(text, i)})

StripText(text) ==
    LET full == {i \in DOMAIN text : text[i] \notin {"sp", "nl"}}
    IN  Sub(text, {i \in DOMAIN text : \E j, k \in full : j <= i /\ i <= k})

Normal(text) ==
    LET joined == SuffixSpaced(PrefixAttached(PrefixSpaced(Fold(Compose(text)))))
        half == ZwnjAtEdge(ZwnjRun(joined))
    IN  StripText(StripLines(BlankLines(Spaces(half))))

-----------------------------------------------------------------------------

NoWriting == [from |-> << >>, to |-> << >>]
NormalizeInit == normalized = NoWriting
NormalizeIdle == normalized = NoWriting

Normalizes == /\ NormalizeIdle
              /\ \E text \in Writings \ {<< >>} : normalized' = [from |-> text, to |-> Normal(text)]

NormalizeReturns == normalized # NoWriting /\ normalized' = NoWriting

NormalizeNext == Normalizes \/ NormalizeReturns
=============================================================================
