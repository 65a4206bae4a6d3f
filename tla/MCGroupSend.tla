---------------------------- MODULE MCGroupSend -----------------------------
(* Two calls that meet, c1 and c2, or one call of several items, c3.           *)
EXTENDS GroupSend

CONSTANTS c1, c2, c3, o1, o2

\* One group, and a stacked message of another.
MCGroupOf == [x \in Calls \cup Messages |-> IF x = o2 THEN "other" ELSE "group"]

MCOld == <<o1, o2>>

\* A text that quotes next to a picture; a text with a picture, and two items of the loop.
MCItems  == [c \in Calls |-> CASE c = c1 -> <<"text">> [] c = c2 -> <<"media">>
                               [] c = c3 -> <<"mixed", "single", "media">>]
MCQuotes == {<<c1, 1>>, <<c3, 2>>}

\* c3 runs where neither of the others does.
Apart  == pc[c3] = "idle" \/ (pc[c1] = "idle" /\ pc[c2] = "idle")
MCNext == Next /\ Apart'
MCSpec == Init /\ [][MCNext]_vars /\ Fairness
=============================================================================
