----------------------------- MODULE MC_Offline -----------------------------
(* The inputs on which TLC evaluates the sequential parts.                 *)
EXTENDS Offline

SequencesUpTo(n, S) == UNION {[1..k -> S] : k \in 0..n}

TheTags == {"script", "nav", "h2", "p", "ul", "ol", "li", "b", "br"}

SomeLines == {Line(0, "none", 0), Line(1, "none", 0), Line(0, "word", 1), Line(1, "word", 0),
              Line(2, "item", 0), Line(1, "nbsp", 0)}
TheTexts == SequencesUpTo(4, SomeLines)

TheWritings == SequencesUpTo(3, {"mi", "nemi", "stem", "ha", "noun", "o", "latin", "sp", "zwnj",
                                 "nl", "tab", "kashida", "fatha", "arabic", "digits", "nbsp", "mark"})
               \cup SequencesUpTo(4, {"mi", "stem", "ha", "noun", "o", "mark", "sp", "zwnj", "nl",
                                        "tab"})
               \cup SequencesUpTo(6, {"mi", "stem", "ha", "sp", "nl"})

TheAllowlist == {<<"a">>, <<"A", ".", "b">>}
TheHostNames == SequencesUpTo(6, {"a", "A", "b", "."})

ThePrefixed == [id \in {"none", "1", "faq_1", "faq_"} |-> IF id \in {"1", "faq_1"} THEN "faq_1"
                                                                              ELSE "faq_"]
Record == [item |-> FALSE, raw |-> "1", type |-> "none", visibility |-> "none",
           has |-> {"id", "title", "body"}]
Item == [item |-> TRUE, raw |-> "1", type |-> "faq", visibility |-> "public", has |-> REQUIRED]
TheDumps ==
    SequencesUpTo(3, {Record, [Record EXCEPT !.raw = "faq_1"],
                      [Record EXCEPT !.raw = "none", !.has = {"title", "body"}],
                      [Record EXCEPT !.visibility = "secret"], [Record EXCEPT !.has = {"id", "title"}],
                      Item, [Item EXCEPT !.raw = "faq_1"],
                      [Item EXCEPT !.raw = "none", !.has = @ \ {"id"}],
                      [Item EXCEPT !.type = "page"], [Item EXCEPT !.has = @ \ {"updated_at"}]})

TheModels == {<< >>, <<"m1">>, <<"m1", "m2">>}
=============================================================================
