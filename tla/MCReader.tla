------------------------------ MODULE MCReader ------------------------------
(***************************************************************************)
(* Sessions for Reader: a library, a program and a prompt, of a few lines. *)
(***************************************************************************)
EXTENDS Reader

Source(kind, s) == [kind |-> kind, lines |-> s]

\* The lines of files end with a newline, those of the prompt do not.
Opens     == <<"(", "a", " ">>
Closes    == <<"a", ")", " ">>
Whole     == <<"(", "'", "a", ")", " ">>
Two       == <<"(", ")", "a", " ">>
BlankLine == <<" ">>
Wrong     == <<")", "(", " ">>

UpTo(S, n) == UNION {[1 .. k -> S] : k \in 0 .. n}

Libraries == UpTo({Opens, Closes, Whole}, 1)
Programs  == UpTo({Opens, Closes, Whole, Two, BlankLine, Wrong}, 3)
Prompts   == UpTo({<<"(", "a">>, <<")">>, <<"'", "a">>, <<>>}, 3)

\* The prompt is not closed in the middle of an expression, where the program
\* crashes (PromptMore): every unfinished expression is followed by enough
\* brackets.
RECURSIVE Unfinished(_, _)
Unfinished(s, text) ==
  IF s = <<>> THEN text # <<>>
  ELSE LET t == text \o Head(s) IN
       Unfinished(Tail(s), IF ~ IsValid(t) \/ IsBalanced(t) THEN <<>> ELSE t)

MCSessions ==
  {<<Source("file", l), Source("file", p)>> : l \in Libraries, p \in Programs}
  \cup
  {<<Source("file", l), Source("prompt", q)>> :
     l \in Libraries, q \in {s \in Prompts : ~ Unfinished(s, <<>>)}}
=============================================================================
