--------------------------- MODULE ReverseReadline ---------------------------
(***************************************************************************)
(* reverse_readline of lib/helpers.py: a generator that reads a file in    *)
(* chunks from its end and yields its lines in reverse order, while syslog *)
(* appends to the file and logrotate may truncate it.                      *)
(*                                                                         *)
(* A character is the number of the line it was written with, or NL; so a  *)
(* line that is put together wrongly shows.  A consumer that breaks off    *)
(* the iteration only reads less.                                          *)
(***************************************************************************)
EXTENDS Naturals, SequencesExt

CONSTANTS
  BufSize,      \* buf_size
  MaxLine,      \* bound on the length of a line
  MaxWritten,     \* bound on the number of lines ever written
  MaxTruncates  \* bound on how often the file is truncated

ASSUME ReaderAssumption == /\ BufSize \in Nat \ {0}
                           /\ MaxLine \in Nat /\ MaxWritten \in Nat /\ MaxTruncates \in Nat

NL == 0
Text == Seq(0..MaxWritten)
None == <<NL>>  \* no line or segment contains a newline

VARIABLES
  file,
  written,    \* number of lines written
  truncates,
  pc,         \* "closed", "read", "done" or "raised"
  file_size, offset, remaining_size, segment,
  yielded,    \* the lines yielded since the file was opened
  opened,     \* what the file was then
  whole       \* whether the file has not been truncated since

localVars == <<pc, file_size, offset, remaining_size, segment, yielded>>
readerVars == <<file, written, truncates, pc, file_size, offset, remaining_size, segment,
          yielded, opened, whole>>

ReaderInit ==
  /\ file = <<>> /\ written = 0 /\ truncates = 0
  /\ pc = "closed"
  /\ file_size = 0 /\ offset = 0 /\ remaining_size = 0 /\ segment = None
  /\ yielded = <<>> /\ opened = <<>> /\ whole = TRUE

-----------------------------------------------------------------------------
(* The writers.                                                            *)

\* A line, possibly empty; its newline may be missing as yet.
AppendLine(n) ==
  /\ written < MaxWritten
  /\ written' = written + 1
  /\ \E end \in {<<NL>>, <<>>} : file' = file \o [k \in 1..n |-> written + 1] \o end
  /\ UNCHANGED <<truncates, localVars, opened, whole>>

\* logrotate with copytruncate.
Truncate ==
  /\ truncates < MaxTruncates /\ file # <<>>
  /\ truncates' = truncates + 1
  /\ file' = <<>>
  /\ whole' = FALSE
  /\ UNCHANGED <<written, localVars, opened>>

-----------------------------------------------------------------------------
(* The generator.                                                          *)

Least(m, n) == IF m <= n THEN m ELSE n

\* The members of a set of numbers in their order.
Sorted(S) == [k \in 1..Cardinality(S) |-> CHOOSE n \in S : Cardinality({m \in S : m <= n}) = k]

\* str.split('\n'): one more piece than newlines.
Ends(text) == {i \in DOMAIN text : text[i] = NL} \union {Len(text) + 1}
Split(text) ==
  LET ends == Sorted(Ends(text))
  IN [k \in DOMAIN ends |->
        SubSeq(text, IF k = 1 THEN 1 ELSE ends[k - 1] + 1, ends[k] - 1)]

NonEmpty(lines) ==
  LET kept == Sorted({i \in DOMAIN lines : lines[i] # <<>>})
  IN [k \in DOMAIN kept |-> lines[kept[k]]]

Open ==
  /\ pc # "read"
  /\ pc' = "read"
  /\ file_size' = Len(file) /\ remaining_size' = Len(file)
  /\ offset' = 0 /\ segment' = None
  /\ yielded' = <<>>
  /\ opened' = file /\ whole' = TRUE
  /\ UNCHANGED <<file, written, truncates>>

\* fh.seek(file_size - offset); fh.read(min(remaining_size, buf_size))
buffer ==
  LET start == file_size - Least(file_size, offset + BufSize)
  IN SubSeq(file, start + 1, Least(Len(file), start + Least(remaining_size, BufSize)))

\* A variant: the length is asked for again before each chunk.
LeftOfFile == IF Len(file) > offset + BufSize THEN Len(file) - offset - BufSize ELSE 0

\* remaining_size -= buf_size
Left == IF remaining_size > BufSize THEN remaining_size - BufSize ELSE 0

\* A variant: a chunk is taken to end with a line.
JoinsNever == FALSE

\* The chunk does not end with a newline.
Joins == Last(buffer) # NL

ReadChunk ==
  LET lines == Split(buffer)
      joined == IF segment # None /\ Joins
                THEN [lines EXCEPT ![Len(lines)] = @ \o segment] ELSE lines
  IN /\ pc = "read" /\ remaining_size > 0
     /\ segment # None => buffer # <<>>
     /\ offset' = Least(file_size, offset + BufSize)
     /\ remaining_size' = Left
     /\ segment' = joined[1]
     /\ yielded' = yielded \o (IF segment # None /\ ~Joins THEN <<segment>> ELSE <<>>)
                           \o NonEmpty(Reverse(Tail(joined)))
     /\ UNCHANGED <<file, written, truncates, pc, file_size, opened, whole>>

\* A variant: a chunk that is shorter than the others raises.
IndexErrorAnyChunk ==
  /\ pc = "read" /\ remaining_size > 0
  /\ segment # None /\ Len(buffer) < BufSize
  /\ pc' = "raised"
  /\ UNCHANGED <<file, written, truncates, file_size, offset, remaining_size, segment,
                 yielded, opened, whole>>

\* buffer[-1] of an empty chunk.
IndexError ==
  /\ pc = "read" /\ remaining_size > 0
  /\ segment # None /\ buffer = <<>>
  /\ pc' = "raised"
  /\ UNCHANGED <<file, written, truncates, file_size, offset, remaining_size, segment,
                 yielded, opened, whole>>

Finish ==
  /\ pc = "read" /\ remaining_size = 0
  /\ yielded' = IF segment # None THEN Append(yielded, segment) ELSE yielded
  /\ pc' = "done"
  /\ UNCHANGED <<file, written, truncates, file_size, offset, remaining_size, segment,
                 opened, whole>>

Reader == ReadChunk \/ IndexError \/ Finish

ReaderNext == (\E n \in 0..MaxLine : AppendLine(n)) \/ Truncate \/ Open \/ Reader

ReaderSpec == ReaderInit /\ [][ReaderNext]_readerVars

-----------------------------------------------------------------------------
\* Types of the variables.
ReaderTypeOK ==
  /\ file \in Text /\ opened \in Text
  /\ written \in 0..MaxWritten /\ truncates \in 0..MaxTruncates
  /\ pc \in {"closed", "read", "done", "raised"}
  /\ file_size \in Nat /\ offset \in 0..file_size /\ remaining_size \in 0..file_size
  /\ segment \in Text /\ yielded \in Seq(Text) /\ whole \in BOOLEAN

\* The lines of the file as it was opened, but for empty ones, are yielded from the
\* last to the first, each once and whole, wherever the chunks cut them and whatever
\* is appended meanwhile; at the end none is left (helpers.py:11-34).
Expected == NonEmpty(Reverse(Split(opened)))

LinesInReverse ==
  whole => /\ IsPrefix(NonEmpty(yielded), Expected)
           /\ pc = "done" => NonEmpty(yielded) = Expected

\* The generator raises only if the file was truncated since it was opened.
RaisesOnlyTruncated == pc = "raised" => ~whole

\* The file as long as it is whole, and how much of it is left.
FileOK ==
  /\ whole => IsPrefix(opened, file)
  /\ file_size = Len(opened) /\ offset + remaining_size = file_size

\* The end of the file that was read is split into the segment and what was yielded.
ReadOK ==
  pc = "read" /\ whole =>
    LET pieces == Split(SubSeq(opened, remaining_size + 1, file_size))
    IN IF offset = 0 THEN segment = None /\ yielded = <<>>
       ELSE segment = pieces[1] /\ NonEmpty(yielded) = NonEmpty(Reverse(Tail(pieces)))

\* The inductive invariant.
ReaderIInv == ReaderTypeOK /\ FileOK /\ ReadOK /\ LinesInReverse /\ RaisesOnlyTruncated
=============================================================================
