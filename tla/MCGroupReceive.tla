--------------------------- MODULE MCGroupReceive ---------------------------
(* A window of two messages.                                                *)
EXTENDS GroupReceive

CONSTANTS n1, n2, n3, at

\* Normal messages and one mention ...
OneKind == [m \in Messages |-> {m # at}]
\* ... which also comes as a normal message.
BothKinds == [m \in Messages |-> IF m = at THEN BOOLEAN ELSE {TRUE}]

\* On windows without repetition, which are the only ones, Others is the filter that
\* the code's loop is.
Windows == {s \in UNION {[1..n -> [id : Messages, normal : BOOLEAN]] : n \in 0..3} :
              \A i, j \in 1..Len(s) : s[i].id = s[j].id => i = j}

ASSUME OthersAssumption ==
  \A s \in Windows, m \in Messages : Others(s, m) = SelectSeq(s, LAMBDA e : e.id # m)
=============================================================================
