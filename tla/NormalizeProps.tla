--------------------------- MODULE NormalizeProps ---------------------------
(* What ingest and search rely on when both normalise (§9.3).              *)
EXTENDS Normalize

Words == PERSIAN \cup {"latin"}
WordsAt(text) == {i \in DOMAIN text : text[i] \in Words}

Replaced(text, i, atoms) == SubSeq(text, 1, i - 1) \o atoms \o SubSeq(text, i + 1, Len(text))

\* A single gap at which a prefix and a known stem, or a word and a suffix, meet.
VerbGap(text, i) == /\ text[i] \in GAP
                    /\ At(text, i - 1) \in PREFIXES /\ At(text, i + 1) = "stem"
SuffixGap(text, i) == /\ text[i] \in GAP
                      /\ At(text, i - 1) \in {"noun", "stem"} /\ At(text, i + 1) = "ha"

\* The spellings of such a pair are brought together where no letter or mark stands
\* right before the verb, and no character of a class right after the pair.
Meet(class) ==
    LET text == Fold(Compose(normalized.from))
        Same(i, atoms) == Normal(Replaced(text, i, atoms)) = normalized.to
    IN  \A i \in DOMAIN text : At(text, i + 2) \notin class =>
            /\ VerbGap(text, i) /\ At(text, i - 2) \notin PERSIAN =>
                  Same(i, <<"zwnj">>) /\ Same(i, <<"sp">>) /\ Same(i, << >>)
            /\ SuffixGap(text, i) => Same(i, <<"zwnj">>) /\ Same(i, <<"sp">>)

\* However a verb with its prefix is written (apart, with a half-space, in one),
\* and a word with its suffix (apart or with a half-space), the result is the same,
\* unless a letter or Persian punctuation adjoins: a query finds what was written
\* otherwise (normalize.py:3).
VariantsMeet == Meet(PERSIAN)

\* "A query written one way must match a document written the other"
\* (test_normalize.py:98), at the end of a question or a clause as well.
VariantsMeetBeforeMarks == Meet(PERSIAN \ {"mark"})

\* No letter or mark is lost or moved, and no word is split but a known verb after its
\* prefix (normalize.py:72).
WordsKept ==
    LET from == Fold(Compose(normalized.from))
        to == normalized.to
        f == WordsAt(from)
        t == WordsAt(to)
    IN  /\ Cardinality(f) = Cardinality(t)
        /\ \A i \in f, j \in t : Rank(f, i) = Rank(t, j) => to[j] = from[i]
        /\ \A i \in f, j, k \in t :
              /\ i + 1 \in f /\ Rank(f, i) = Rank(t, j) /\ Rank(f, i + 1) = Rank(t, k)
              => \/ k = j + 1
                 \/ /\ from[i] \in PREFIXES /\ from[i + 1] = "stem"
                    /\ k = j + 2 /\ to[j + 1] = "zwnj"

LineEnds(text, i, j) == \E k \in i..j : text[k] = "nl"

\* Line breaks are preserved (normalize.py:126): two words are on one line of the
\* result exactly when they were on one line.
LinesKept ==
    LET from == Fold(Compose(normalized.from))
        to == normalized.to
        f == WordsAt(from)
        t == WordsAt(to)
    IN  \A i, k \in f, j, l \in t :
           i < k /\ Rank(f, i) = Rank(t, j) /\ Rank(f, k) = Rank(t, l)
           => (LineEnds(from, i, k) <=> LineEnds(to, j, l))

\* "Return the canonical form of Persian text" (normalize.py:122): the result is
\* its own canonical form.
NormalizeCanonical == Normal(normalized.to) = normalized.to

\* It is when the text has neither tabs nor lines of nothing but blanks, which are
\* recognised too late.
CanonicalOfPlain ==
    LET from == normalized.from IN
    (/\ \A i \in DOMAIN from : from[i] # "tab"
     /\ \A i \in DOMAIN from : from[i] \in {"sp", "nbsp", "zwnj"} \cup INVISIBLE \cup DIACRITICS =>
           At(from, i - 1) # "nl" \/ At(from, i + 1) \in Words)
    => NormalizeCanonical
=============================================================================
