----------------------------- MODULE CsvWriter ------------------------------
(***************************************************************************)
(* The three files of CsvWriter, each behind a BufWriter.  writeln! gives  *)
(* a row to the BufWriter in several pieces (two here), of which each is   *)
(* buffered; a full buffer is written out first, which may fail half-way,  *)
(* and a process that is killed takes its buffers with it.                 *)
(*                                                                         *)
(* A component of Startup.  State calls write_desc, write_read and         *)
(* write_event; which of them, and in which order, is left open here.      *)
(***************************************************************************)
EXTENDS Integers, Sequences, SequencesExt

CONSTANTS
    Capacity,    \* pieces that a buffer holds
    MaxRows,     \* bound: rows of all files
    Faults       \* what may fail: subset of {"open", "write"}

ASSUME CsvAssumption ==
    /\ Capacity \in Nat \ {0, 1}
    /\ MaxRows \in Nat
    /\ Faults \subseteq {"open", "write"}

\* In the order they are opened in, which is also that of their drop.
Order == <<"event", "read", "desc">>
Files == ToSet(Order)

VARIABLES
    disk,      \* disk[f]: what is in the file
    buf,       \* buf[f]: what is in its BufWriter
    stream,    \* stream[f]: every piece the BufWriter accepted
    failed,    \* failed[f]: the rows not written out to their end
    putting,   \* the file and number of the row being written, in a set
    writers    \* the files that are open, in their order

csvVars == <<disk, buf, stream, failed, putting, writers>>

Piece(n, last) == [row |-> n, last |-> last]
Old == <<Piece(-1, FALSE), Piece(-1, TRUE)>>    \* of an earlier collector
Header == <<Piece(0, FALSE), Piece(0, TRUE)>>

CsvInit ==
    /\ disk = [f \in Files |-> Old]
    /\ buf = [f \in Files |-> <<>>]
    /\ stream = [f \in Files |-> <<>>]
    /\ failed = [f \in Files |-> {}]
    /\ putting = {}
    /\ writers = <<>>

-----------------------------------------------------------------------------
\* Faulty variant: the file is opened without truncate.
OpenFile_Appends ==
    /\ Len(writers) < 3
    /\ writers' = Append(writers, Order[Len(writers) + 1])
    /\ UNCHANGED <<disk, buf, stream, failed, putting>>

OpenFile ==
    /\ Len(writers) < 3
    /\ LET f == Order[Len(writers) + 1] IN
        /\ disk' = [disk EXCEPT ![f] = <<>>]
        /\ writers' = Append(writers, f)
    /\ UNCHANGED <<buf, stream, failed, putting>>

\* The files opened so far are empty and closed, the others are as they were.
OpenFails ==
    /\ "open" \in Faults /\ Len(writers) < 3
    /\ writers' = <<>>
    /\ UNCHANGED <<disk, buf, stream, failed, putting>>

WriteHeaders ==
    /\ Len(writers) = 3
    /\ buf' = [f \in Files |-> Header]
    /\ stream' = buf'
    /\ UNCHANGED <<disk, failed, putting, writers>>

\* BufWriter::write of one piece.
Put(f, p) ==
    LET full == Len(buf[f]) = Capacity IN
    /\ disk' = IF full THEN [disk EXCEPT ![f] = @ \o buf[f]] ELSE disk
    /\ buf' = [buf EXCEPT ![f] = IF full THEN <<p>> ELSE Append(@, p)]
    /\ stream' = [stream EXCEPT ![f] = Append(@, p)]

\* The buffer is full and only its first n pieces can be written out: they
\* leave it, the others stay for the next attempt.
PutFails(f, n) ==
    /\ "write" \in Faults /\ Len(buf[f]) = Capacity
    /\ disk' = [disk EXCEPT ![f] = @ \o SubSeq(buf[f], 1, n)]
    /\ buf' = [buf EXCEPT ![f] = SubSeq(@, n + 1, Capacity)]

\* The rows of f that were begun, the header included, and how many of all.
Rows(f) == ToSet([n \in DOMAIN stream[f] |-> stream[f][n].row]) \cup failed[f]
Begun == Max(Rows("event")) + Max(Rows("read")) + Max(Rows("desc"))

\* write_event, write_read or write_desc is called and puts its first piece.
write_row(f) ==
    /\ putting = {} /\ Begun < MaxRows
    /\ Put(f, Piece(Max(Rows(f)) + 1, FALSE))
    /\ putting' = {<<f, Max(Rows(f)) + 1>>}
    /\ UNCHANGED <<failed, writers>>

\* Its first piece cannot be put: the row is given up.
row_refused(f) ==
    /\ putting = {} /\ Begun < MaxRows
    /\ \E n \in 0 .. Capacity - 1 : PutFails(f, n)
    /\ failed' = [failed EXCEPT ![f] = @ \cup {Max(Rows(f)) + 1}]
    /\ UNCHANGED <<stream, putting, writers>>

\* The rest of the row, with its newline.
end_row ==
    /\ \E p \in putting : Put(p[1], Piece(p[2], TRUE))
    /\ putting' = {}
    /\ UNCHANGED <<failed, writers>>

\* Faulty variant: the row is written again from its start.
row_cut_Again ==
    /\ "write" \in Faults
    /\ \E p \in putting :
          /\ Len(buf[p[1]]) = Capacity
          /\ Put(p[1], Piece(p[2], FALSE))
    /\ UNCHANGED <<failed, putting, writers>>

\* It cannot be put: State prints the error and goes on with the next row.
row_cut ==
    /\ \E p \in putting : \E n \in 0 .. Capacity - 1 :
          /\ PutFails(p[1], n)
          /\ failed' = [failed EXCEPT ![p[1]] = @ \cup {p[2]}]
    /\ putting' = {}
    /\ UNCHANGED <<stream, writers>>

CsvRow == (\E f \in Files : write_row(f) \/ row_refused(f)) \/ end_row \/ row_cut

\* The drop of a BufWriter writes out what it holds, as far as possible; an
\* error is not reported.
DropFile ==
    /\ writers # <<>>
    /\ LET f == Head(writers) IN \E n \in 0 .. Len(buf[f]) :
        /\ n = Len(buf[f]) \/ "write" \in Faults
        /\ disk' = [disk EXCEPT ![f] = @ \o SubSeq(buf[f], 1, n)]
        /\ failed' = [failed EXCEPT ![f] =
                         @ \cup {buf[f][m].row : m \in n + 1 .. Len(buf[f])}]
        /\ buf' = [buf EXCEPT ![f] = <<>>]
    /\ writers' = Tail(writers)
    /\ UNCHANGED <<stream, putting>>

\* The process is killed.
BuffersLost ==
    /\ buf' = [f \in Files |-> <<>>]
    /\ UNCHANGED <<disk, stream, failed, putting, writers>>

-----------------------------------------------------------------------------
Opened(f) == stream[f] # <<>>

\* At every moment, and when the process is killed, each file is a beginning
\* of what was accepted for it, also when writing it out failed half-way: no
\* row of an earlier collector is among it, none is missing or there twice
\* (csv_writer.rs:14-37, truncate and the BufWriters).
FilesAreBeginnings ==
    \A f \in Files : Opened(f) => IsPrefix(disk[f], stream[f])

\* Rows keep their order and a line is torn only at a row whose writeln!
\* failed, and it is the next row that is glued to it (state.rs:69, 73: the
\* error is printed and the next row written).
TornOnlyByFailure ==
    \A f \in Files :
        LET text == disk[f] \o buf[f] IN
        Opened(f) => \A n \in 1 .. Len(text) - 1 :
            \/ text[n + 1].row = text[n].row /\ ~text[n].last /\ text[n + 1].last
            \/ /\ text[n + 1].row > text[n].row /\ ~text[n + 1].last
               /\ text[n].last \/ text[n].row \in failed[f]
=============================================================================
