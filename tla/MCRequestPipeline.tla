-------------------------- MODULE MCRequestPipeline --------------------------
(* Two requests at a time of two conversations and a connection, beta      *)
(* tokens on one or two lines, and room for two entries in the tracker.    *)
EXTENDS RequestPipeline

CONSTANTS r1, r2, p1, s1, s2, s3, beta, Beta, files, ws, h1, h2

MCSlot == {r1, r2}
MCPoller == {p1}
MCSession == {s1, s2, s3}
MCToken == {beta, Beta, files, ws}
MCNameOf == [t \in MCToken |-> IF t = Beta THEN beta ELSE t]
MCHash == {h1, h2}

Sends(route, off, s, lines, texts) ==
  [route |-> route, off |-> off, session |-> s, lines |-> lines, texts |-> texts]
Unreadable(tokens) == [Plain(tokens) EXCEPT !.readable = FALSE]

(* With stored tokens the second line of s1 is lost, and its unreadable    *)
(* line is.  A connection loses the first of two lines, or the second.     *)
MCRequest ==
  { Sends("messages", FALSE, s1, <<Plain(<<beta>>)>>, {h1}),
    Sends("messages", FALSE, s1, <<Plain(<<files, Beta>>), Plain(<<ws>>)>>, {}),
    Sends("messages", FALSE, s1, <<Unreadable(<<ws>>)>>, {}),
    Sends("messages", FALSE, s2, << >>, {h2}),
    Sends("codex", FALSE, s3, <<Plain(<<beta>>), Plain(<<files>>)>>, {h1}),
    Sends("batch", TRUE, s2, << >>, {}),
    Sends("compress", TRUE, s2, << >>, {}) }

MCSymmetry == Permutations(MCSlot)
=============================================================================
