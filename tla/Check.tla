------------------------------- MODULE Check -------------------------------
(***************************************************************************)
(* One `check` (cmd/regionchecker/subcommands.go:63) from its arguments to *)
(* its exit code: inputs are collected from the command line and a file,   *)
(* each distinct one is classified, and one row is written for it, whether *)
(* Classify succeeds or not.  Text and JSON rows go straight to standard   *)
(* output; CSV rows go through the buffer of encoding/csv, and the last of *)
(* them are written by a deferred Flush whose error nobody reads.          *)
(*                                                                         *)
(* What Classify answers is Classifier's matter; here it is an answer or   *)
(* none.  SIGINT and SIGTERM are no steps: they only cancel the context,   *)
(* the lookups of the remaining hosts fail at once, and the loop goes on.  *)
(***************************************************************************)
EXTENDS Naturals, Sequences, FiniteSets, SequencesExt

CONSTANTS
  Inputs,      \* hosts and addresses
  Skipped,     \* a blank line of the file, or a comment
  Header,      \* the first row of a CSV file
  Torn,        \* a part of a row
  MaxArgs,     \* bound: arguments
  MaxLines,    \* bound: lines of the file
  BufferRows   \* rows that the CSV writer's buffer holds, the header among them

ASSUME CheckAssumption ==
  /\ Skipped \notin Inputs
  /\ Header # Torn /\ {Header, Torn} \cap [input : Inputs, answered : BOOLEAN] = {}
  /\ {MaxArgs, MaxLines} \subseteq Nat
  /\ BufferRows \in Nat \ {0, 1}

VARIABLES
  args,        \* the arguments
  file,        \* the lines of --file, none if it is not given
  format,      \* --output
  pc,
  todo,        \* dedup(inputs), from the one that is next
  row,         \* `r`, the result that is about to be written
  wrote,       \* Writer.wrote: the header is in the buffer or written
  buffer,      \* rows in the CSV writer's buffer
  out,         \* what standard output has got
  full,        \* no space is left behind standard output
  exit         \* the exit code, or "no" while the process runs

checkVars == <<args, file, format, pc, todo, row, wrote, buffer, out, full, exit>>

----------------------------------------------------------------------------
Line == Inputs \cup {Skipped}
Row == [input : Inputs, answered : BOOLEAN]
NoRow == [input |-> Skipped, answered |-> FALSE]

CheckInit ==
  /\ args \in BoundedSeq(Inputs, MaxArgs)
  /\ file \in BoundedSeq(Line, MaxLines)
  /\ format \in {"text", "json", "csv", "unknown"}
  /\ pc = "collect"
  /\ todo = <<>>
  /\ row = NoRow
  /\ wrote = FALSE
  /\ buffer = <<>>
  /\ out = <<>>
  /\ full \in BOOLEAN
  /\ exit = "no"

request == <<args, file, format>>
output == <<wrote, buffer, out>>

----------------------------------------------------------------------------
(* Before the loop.                                                        *)

\* collectInputs: the arguments, then the lines of the file that are not
\* skipped.
Given ==
  LET upTo[n \in 0..Len(file)] ==
        IF n = 0 THEN args
        ELSE IF file[n] = Skipped THEN upTo[n - 1] ELSE Append(upTo[n - 1], file[n])
  IN upTo[Len(file)]

\* dedup: the first of each.
Dedup(s) ==
  LET upTo[n \in 0..Len(s)] ==
        IF n = 0 THEN <<>>
        ELSE IF \E i \in 1..n - 1 : s[i] = s[n] THEN upTo[n - 1]
        ELSE Append(upTo[n - 1], s[n])
  IN upTo[Len(s)]

Exit(code) == pc' = "exited" /\ exit' = code

\* The file cannot be read, there is no input, no snapshot, no database of
\* networks, or no such format: an error before the first row.
Refuse ==
  /\ pc = "collect"
  /\ Exit("1")
  /\ UNCHANGED <<request, todo, row, output, full>>

Start ==
  /\ pc = "collect"
  /\ Given # <<>> /\ format # "unknown"
  /\ todo' = Dedup(Given)
  /\ pc' = "classify"
  /\ UNCHANGED <<request, row, output, full, exit>>

----------------------------------------------------------------------------
(* The loop.                                                               *)

\* Faulty variant: an input that cannot be classified has no row.
ClassifyOrSkip ==
  /\ pc = "classify" /\ todo # <<>>
  /\ todo' = Tail(todo)
  /\ \/ row' = [input |-> Head(todo), answered |-> TRUE] /\ pc' = "write"
     \/ UNCHANGED <<row, pc>>
  /\ UNCHANGED <<request, output, full, exit>>

\* An error of Classify makes a row of its own, with the tier "unknown".
Classify ==
  /\ pc = "classify" /\ todo # <<>>
  /\ todo' = Tail(todo)
  /\ \E answered \in BOOLEAN : row' = [input |-> Head(todo), answered |-> answered]
  /\ pc' = "write"
  /\ UNCHANGED <<request, output, full, exit>>

\* Faulty variant: a row that cannot be written is passed over.
WriteDirectUnchecked ==
  /\ pc = "write" /\ format # "csv"
  /\ out' = IF full THEN out ELSE Append(out, row)
  /\ pc' = "classify"
  /\ row' = NoRow
  /\ UNCHANGED <<request, todo, wrote, buffer, full, exit>>

\* Text and JSON: a row, or a part of it and an error, which ends the command.
WriteDirect ==
  /\ pc = "write" /\ format # "csv"
  /\ \/ ~ full /\ out' = Append(out, row) /\ pc' = "classify" /\ UNCHANGED exit
     \/ full /\ out' \in {out, Append(out, Torn)} /\ Exit("1")
  /\ row' = NoRow
  /\ UNCHANGED <<request, todo, wrote, buffer, full>>

\* What a write of rows to a full output leaves of them.
Partial(rows) ==
  UNION {{SubSeq(rows, 1, n), Append(SubSeq(rows, 1, n), Torn)} : n \in 0..Len(rows) - 1}

\* CSV, the header first.  The buffer is written when the next row does not fit,
\* and before that when the rows are long; then an error ends the command.
WriteBuffered ==
  LET rows == IF wrote THEN <<row>> ELSE <<Header, row>>
      fits == Len(buffer \o rows) <= BufferRows
  IN
  /\ pc = "write" /\ format = "csv"
  /\ \/ /\ fits
        /\ buffer' = buffer \o rows
        /\ pc' = "classify" /\ UNCHANGED <<out, exit>>
     \/ /\ ~ full /\ buffer # <<>>
        /\ out' = out \o buffer /\ buffer' = rows
        /\ pc' = "classify" /\ UNCHANGED exit
     \/ /\ full /\ buffer # <<>>
        /\ \E p \in Partial(buffer) : out' = out \o p
        /\ buffer' = <<>>
        /\ Exit("1")
  /\ wrote' = TRUE
  /\ row' = NoRow
  /\ UNCHANGED <<request, todo, full>>

\* The loop is over: the action returns nil, the deferred Flush writes what it
\* can, and main ends with 0.
Finish ==
  /\ pc = "classify" /\ todo = <<>>
  /\ \/ ~ full /\ out' = out \o buffer
     \/ full /\ buffer # <<>> /\ \E p \in Partial(buffer) : out' = out \o p
     \/ full /\ buffer = <<>> /\ UNCHANGED out
  /\ buffer' = <<>>
  /\ Exit("0")
  /\ UNCHANGED <<request, todo, row, wrote, full>>

----------------------------------------------------------------------------
(* The world.                                                              *)

Running == pc # "exited"

\* The disk behind standard output fills up.
FillUp ==
  /\ Running /\ ~ full
  /\ full' = TRUE
  /\ UNCHANGED <<request, pc, todo, row, output, exit>>

\* SIGKILL, or the SIGPIPE of a reader that has gone, maybe within a row: in the
\* middle of a write, or because the CSV writer's buffer ended there.
Kill ==
  /\ Running
  /\ Exit("killed")
  /\ out' \in {out} \cup
       IF pc = "write" \/ (buffer # <<>> /\ out # <<>>) THEN {Append(out, Torn)} ELSE {}
  /\ UNCHANGED <<request, todo, row, wrote, buffer, full>>

----------------------------------------------------------------------------
Step == Refuse \/ Start \/ Classify \/ WriteDirect \/ WriteBuffered \/ Finish

CheckNext ==
  \/ Step
  \/ FillUp \/ Kill
  \/ (~ Running /\ UNCHANGED checkVars)

CheckSpec == CheckInit /\ [][CheckNext]_checkVars

----------------------------------------------------------------------------
(* Properties.                                                             *)

CheckTypeOK ==
  /\ args \in Seq(Inputs)
  /\ file \in Seq(Line)
  /\ format \in {"text", "json", "csv", "unknown"}
  /\ pc \in {"collect", "classify", "write", "exited"}
  /\ todo \in Seq(Inputs)
  /\ row \in Row \cup {NoRow}
  /\ wrote \in BOOLEAN
  /\ buffer \in Seq(Row \cup {Header})
  /\ out \in Seq(Row \cup {Header, Torn})
  /\ full \in BOOLEAN
  /\ exit \in {"no", "0", "1", "killed"}

\* Where the rows are behind standard output.
RowsAt == {i \in DOMAIN out : out[i] \notin {Header, Torn}}

FirstUse(x) == CHOOSE i \in DOMAIN Given : Given[i] = x /\ \A j \in 1..i - 1 : Given[j] # x

\* The rows are those of the first inputs given, each once and in the order in
\* which they were first given, with no input left out before one that has its
\* row; and nothing follows a torn row.
RowsAnswerInputs ==
  /\ \A i \in RowsAt, x \in Range(Given) :
       FirstUse(x) <= FirstUse(out[i].input)
         <=> \E j \in RowsAt : j <= i /\ out[j].input = x
  /\ \A i, j \in RowsAt : i # j => out[i].input # out[j].input
  /\ \A i \in DOMAIN out : out[i] = Torn => i = Len(out)

\* A check that exits with 0 has answered every input; as CSV, but for a last
\* buffer of rows, whose loss its exit code hides.
ExitZeroWritesAll ==
  exit = "0" =>
    Cardinality(Range(Given) \ {out[i].input : i \in RowsAt})
      <= IF format = "csv" THEN BufferRows ELSE 0
=============================================================================
