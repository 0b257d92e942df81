------------------------------- MODULE Reader -------------------------------
(***************************************************************************)
(* How expressions come to the evaluator: run_lisp of src/repl.c, which    *)
(* interprets a library, a program and what is typed at a prompt, and the  *)
(* readers of src/interpreter.c.                                           *)
(*                                                                         *)
(* A session is a sequence of sources, each a file or a prompt with lines. *)
(* A line is a sequence of characters, the newline a blank; lines are not  *)
(* longer than the buffer that fgets fills.  An expression that is         *)
(* evaluated either has a value or fails; LispMachine says which.          *)
(***************************************************************************)
EXTENDS Texts, SequencesExt

CONSTANTS
  Chars,         \* the characters
  Sessions,      \* the sessions: sequences of sources
  Interrupts     \* whether the user may press ^C

Text == Seq(Chars)

ASSUME ReaderAssumption ==
  /\ {" ", ">"} \subseteq Chars
  /\ Sessions \subseteq Seq([kind : {"file", "prompt"}, lines : Seq(Text)])
  /\ Interrupts \in BOOLEAN

VARIABLES
  sources,       \* the sources still to be opened
  source,        \* the one that is open
  lines,         \* its lines still to be read
  buff,          \* the global buffer, which keeps what was read last
  e,             \* the text of the expression being read
  eof,
  pc,
  handed,        \* the texts that get_expression has returned from this source
  history,       \* what add_history was given
  saved,         \* the history file
  disposed       \* interpreter_dispose has run

vars == <<sources, source, lines, buff, e, eof, pc, handed, history, saved, disposed>>

NoSource == [kind |-> "none", lines |-> <<>>]
InFile   == source.kind = "file"
AtPrompt == source.kind = "prompt"

Init ==
  /\ sources \in Sessions
  /\ source = NoSource /\ lines = <<>>
  /\ buff = <<>> /\ e = <<>>
  /\ eof = FALSE
  /\ pc = "open"
  /\ handed = <<>> /\ history = <<>> /\ saved = <<>>
  /\ disposed = FALSE

session == <<sources, source>>
outcome == <<history, saved, disposed>>

\* interpret_program and interpret_fd begin.
Open ==
  /\ pc = "open" /\ sources # <<>>
  /\ source' = Head(sources) /\ sources' = Tail(sources)
  /\ lines' = source'.lines
  /\ eof' = FALSE
  /\ handed' = <<>>
  /\ pc' = "read"
  /\ UNCHANGED <<buff, e, outcome>>

\* fgets: at the end of the file the buffer is left as it is.
GetLine ==
  IF lines = <<>> THEN eof' = TRUE /\ UNCHANGED <<lines, buff>>
  ELSE buff' = Head(lines) /\ lines' = Tail(lines) /\ eof' = FALSE

\* get_expression_from_file: the first line, and the lines that follow.
FirstLine ==
  /\ pc = "read" /\ InFile
  /\ GetLine
  /\ e' = buff'
  /\ pc' = "check"
  /\ UNCHANGED <<session, handed, outcome>>

\* A mistake: the next line takes the place of those before it.
NextLineAlone ==
  /\ pc = "more" /\ InFile
  /\ GetLine
  /\ e' = buff'
  /\ pc' = "check"
  /\ UNCHANGED <<session, handed, outcome>>

NextLine ==
  /\ pc = "more" /\ InFile
  /\ GetLine
  /\ e' = e \o buff'
  /\ pc' = "check"
  /\ UNCHANGED <<session, handed, outcome>>

\* A file that is at its end, or in error, is closed.
WhenRead == IF eof THEN "close" ELSE "read"

\* A mistake: the file is read to its end before anything is handed out.
CheckFileAtEnd ==
  /\ pc = "check" /\ InFile
  /\ \/ /\ IsValid(e) /\ IsBalanced(e) /\ eof
        /\ handed' = Append(handed, e)
        /\ pc' = "parse"
     \/ ~ IsValid(e) /\ pc' = "close" /\ UNCHANGED handed
     \/ /\ IsValid(e) /\ ~ (IsBalanced(e) /\ eof)
        /\ pc' = IF eof THEN "close" ELSE "more"
        /\ UNCHANGED handed
  /\ UNCHANGED <<session, lines, buff, e, eof, outcome>>

CheckFile ==
  /\ pc = "check" /\ InFile
  /\ \/ /\ IsValid(e) /\ IsBalanced(e)
        /\ handed' = Append(handed, e)
        /\ pc' = "parse"
     \/ ~ IsValid(e) /\ pc' = "close" /\ UNCHANGED handed
     \/ /\ IsValid(e) /\ ~ IsBalanced(e)
        /\ pc' = IF eof THEN "close" ELSE "more"
        /\ UNCHANGED handed
  /\ UNCHANGED <<session, lines, buff, e, eof, outcome>>

\* interpret_program: a text without an expression, for which parse_expression
\* returns NULL, is passed over; the first expression that fails ends the file.
InterpretFile ==
  /\ pc = "parse" /\ InFile
  /\ \/ IsEmpty(e) /\ pc' = WhenRead
     \/ ~ IsEmpty(e) /\ pc' \in {WhenRead, "close"}
  /\ UNCHANGED <<session, lines, buff, e, eof, handed, outcome>>
-----------------------------------------------------------------------------
\* A mistake: the loop does not end where the input does.
PromptAgain ==
  /\ pc = "read" /\ AtPrompt
  /\ IF lines = <<>>
       THEN eof' = TRUE /\ UNCHANGED <<lines, e, pc>>
       ELSE /\ e' = Head(lines)
            /\ lines' = Tail(lines)
            /\ pc' = IF IsEmpty(e') THEN "read" ELSE "check"
            /\ UNCHANGED eof
  /\ UNCHANGED <<session, buff, handed, outcome>>

\* get_expression_from_prompt: blank lines are passed over, and the end of the
\* input ends the loop of interpret_fd.
PromptLine ==
  /\ pc = "read" /\ AtPrompt
  /\ IF lines = <<>>
       THEN eof' = TRUE /\ pc' = "close" /\ UNCHANGED <<lines, e>>
       ELSE /\ e' = Head(lines)
            /\ lines' = Tail(lines)
            /\ pc' = IF IsEmpty(e') THEN "read" ELSE "check"
            /\ UNCHANGED eof
  /\ UNCHANGED <<session, buff, handed, outcome>>

\* What is not valid is dropped ("Invalid expression").
CheckPrompt ==
  /\ pc = "check" /\ AtPrompt
  /\ \/ /\ IsValid(e) /\ IsBalanced(e)
        /\ handed' = Append(handed, e)
        /\ history' = Append(history, e)
        /\ pc' = "parse"
     \/ ~ IsValid(e) /\ pc' = "read" /\ UNCHANGED <<handed, history>>
     \/ /\ IsValid(e) /\ ~ IsBalanced(e)
        /\ pc' = "more"
        /\ UNCHANGED <<handed, history>>
  /\ UNCHANGED <<session, lines, buff, e, eof, saved, disposed>>

\* reprompt uses the buffer for the prompt it shows; at the end of the input
\* there is no line, and its length is asked of NULL.
PromptMore ==
  /\ pc = "more" /\ AtPrompt
  /\ buff' = <<">">>
  /\ IF lines = <<>>
       THEN eof' = TRUE /\ pc' = "crashed" /\ UNCHANGED <<lines, e>>
       ELSE /\ e' = e \o <<" ">> \o Head(lines)
            /\ lines' = Tail(lines)
            /\ pc' = "check"
            /\ UNCHANGED eof
  /\ UNCHANGED <<session, handed, outcome>>

\* interpret_fd: whatever the value, it is printed and the next one is read.
InterpretPrompt ==
  /\ pc = "parse" /\ AtPrompt
  /\ pc' = "read"
  /\ UNCHANGED <<session, lines, buff, e, eof, handed, outcome>>

\* The source is finished; after the prompt the history is written.
Close ==
  /\ pc = "close"
  /\ saved' = IF AtPrompt THEN history ELSE saved
  /\ source' = NoSource
  /\ pc' = "open"
  /\ UNCHANGED <<sources, lines, buff, e, eof, handed, history, disposed>>

Dispose ==
  /\ pc = "open" /\ sources = <<>>
  /\ disposed' = TRUE
  /\ pc' = "done"
  /\ UNCHANGED <<session, lines, buff, e, eof, handed, history, saved>>

\* int_handler disposes of the interpreter that the static pointer `interpreter`
\* points to, which is never assigned: it is NULL.
Interrupt ==
  /\ Interrupts
  /\ pc \notin {"done", "crashed", "interrupted"}
  /\ pc' = "interrupted"
  /\ UNCHANGED <<session, lines, buff, e, eof, handed, outcome>>

Step ==
  \/ Open \/ FirstLine \/ NextLine \/ CheckFile \/ InterpretFile
  \/ PromptLine \/ CheckPrompt \/ PromptMore \/ InterpretPrompt
  \/ Close \/ Dispose

Next == Step \/ Interrupt
Spec == Init /\ [][Next]_vars

\* The input is there when it is asked for; the program does not stop.
FairSpec == Spec /\ WF_vars(Step)
-----------------------------------------------------------------------------
(***************************************************************************)
(* Properties.                                                             *)
(***************************************************************************)
Taken   == SubSeq(source.lines, 1, Len(source.lines) - Len(lines))
Reading == pc \in {"check", "more"}

\* The characters that have left the file: in the texts given to the parser and
\* in the text being put together.
Given == FlattenSeq(handed) \o (IF Reading THEN e ELSE <<>>)

\* While a file is read, by get_expression_from_file: its lines go into the
\* texts for the parser in their order, no line is left out between two texts,
\* and until fgets has met the end none is taken a second time, in this file or
\* from the one before it.  This says nothing of what the parser leaves unread
\* of a text (read_expression parses one expression of it), of what the global
\* buffer adds when fgets fails, and of the prompt.
InOrder ==
  InFile /\ pc \notin {"close", "interrupted"} =>
    /\ IsPrefix(FlattenSeq(Taken), Given)
    /\ ~ eof => Given = FlattenSeq(Taken)

\* A text that is handed out was not complete one line earlier: what is typed
\* or written after a whole expression is never taken into it.
NoLongerThanNeeded ==
  [][Reading /\ e' # e /\ pc' = "check" => ~ (IsValid(e) /\ IsBalanced(e))]_vars

\* The session comes to its end, unless ^C ends it: the memory is given back
\* and what was typed is in the history file.
SessionEnds == <>((disposed /\ saved = history) \/ pc = "interrupted")
=============================================================================
