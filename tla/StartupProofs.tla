---------------------------- MODULE StartupProofs ----------------------------
(***************************************************************************)
(* Proofs about Startup and the files of CsvWriter, for any signals, any   *)
(* size of the buffers, any number of rows and any of the faults.          *)
(***************************************************************************)
EXTENDS Startup, SequenceTheorems, TLAPS

USE CsvAssumption, StartupAssumption

Pieces == [row : Int, last : BOOLEAN]
Texts == Seq(Pieces)

Types ==
    /\ disk \in [Files -> Texts]
    /\ buf \in [Files -> Texts]
    /\ stream \in [Files -> Texts]
    /\ failed \in [Files -> SUBSET Int]
    /\ putting \in SUBSET (Files \X Int)

-----------------------------------------------------------------------------
(* Where main is, and what it owns there.                                  *)

WithQueue == <<"mq">>
WithState == <<"mq", "state">>
WithSignals == <<"mq", "state", "signal_fd">>
WithTimer == <<"mq", "state", "signal_fd", "flush_timer">>
Owned == {<<>>, WithQueue, WithState, WithSignals, WithTimer}

\* The files that are open while they are being opened, and being closed.
OpeningFiles == {<<>>, <<"event">>, <<"event", "read">>, Order}
ClosingFiles == {Order, <<"read", "desc">>, <<"desc">>, <<>>}

BeforeState == at \in {"start", "queue", "events"}
InLoop == at \in {"loop", "handler", "flush"}
WithFiles == at \in {"state", "blocked", "signalfd"} \/ InLoop

\* The locals and the open files are those of the place.
Placed ==
    /\ BeforeState \/ WithFiles \/ Dropping \/ at \in {"ended", "killed"}
    /\ locals \in Owned
    /\ named = (locals # <<>>)
    /\ at = "start" => locals = <<>> /\ writers = <<>>
    /\ at = "queue" => locals = WithQueue /\ writers = <<>>
    /\ at = "events" => locals = WithQueue /\ writers \in OpeningFiles
    /\ at \in {"state", "blocked"} => locals = WithState
    /\ at = "signalfd" => locals = WithSignals
    /\ InLoop => locals \in {WithSignals, WithTimer}
    /\ WithFiles => writers = Order
    /\ Dropping => /\ writers \in ClosingFiles
                   /\ locals \in {<<>>, WithQueue} => writers = <<>>
    /\ at = "ended" => locals = <<>> /\ writers = <<>>

\* SIGINT is blocked before a message can be handled.
Masked ==
    /\ at \in {"blocked", "signalfd"} \/ InLoop \/ handled => "SIGINT" \in mask
    /\ killer # {} => at = "killed"
    /\ "SIGINT" \in killer => ~handled

-----------------------------------------------------------------------------
(* The files.                                                              *)

\* The files whose BufWriter is there.
Live == IF at = "killed" THEN {} ELSE ToSet(writers)

Beginning(d, s) == Len(d) <= Len(s) /\ \A n \in 1 .. Len(d) : d[n] = s[n]

\* Nothing that was accepted is lost while the file is open; afterwards the file
\* has a beginning of it.
Kept(f) ==
    IF f \in Live
    THEN stream[f] = disk[f] \o buf[f]
    ELSE buf[f] = <<>> /\ (stream[f] # <<>> => Beginning(disk[f], stream[f]))

\* What is missing in a file that was closed is of rows that failed.
Missing(f) ==
    at # "killed" /\ f \notin Live =>
        \A n \in 1 .. Len(stream[f]) : stream[f][n].row \in failed[f] \/ n <= Len(disk[f])

\* Piece q may come after piece p when the rows of F failed.
Follows(p, q, F) ==
    \/ q.row = p.row /\ ~p.last /\ q.last
    \/ q.row > p.row /\ ~q.last /\ (p.last \/ p.row \in F)

InOrder(s, F) == \A n \in 1 .. Len(s) - 1 : Follows(s[n], s[n + 1], F)

\* The last piece is the end of a row, or its row failed, or it is the one being
\* put.
EndsIn(f) ==
    stream[f] # <<>> =>
        LET p == stream[f][Len(stream[f])] IN
        IF \E q \in putting : q[1] = f
        THEN <<f, p.row>> \in putting /\ ~p.last
        ELSE p.last \/ p.row \in failed[f]

\* Some row of f is the last one that was begun.
HasLast(f) == stream[f] # <<>> => \E m \in Rows(f) : \A r \in Rows(f) : r <= m

FileOk(f) == /\ Kept(f) /\ Missing(f) /\ InOrder(stream[f], failed[f])
             /\ EndsIn(f) /\ HasLast(f)

FileInv == \A f \in Files : FileOk(f)

\* When there are rows, and when they are being put.
Rowed ==
    /\ BeforeState => \A f \in Files : stream[f] = <<>> /\ failed[f] = {}
    /\ WithFiles => \A f \in Files : stream[f] # <<>>
    /\ putting # {} => at \in {"handler", "flush", "killed"}
    /\ \A p, q \in putting : p = q

IInv == Types /\ Placed /\ Masked /\ FileInv /\ Rowed

-----------------------------------------------------------------------------
(* Sequences of pieces.                                                    *)

\* The three files, and what the orders they are opened and closed in contain.
LEMMA FileNames ==
    /\ Files = {"event", "read", "desc"} /\ ToSet(Order) = Files /\ Len(Order) = 3
    /\ Order[1] = "event" /\ Order[2] = "read" /\ Order[3] = "desc"
    /\ ToSet(<<>>) = {} /\ ToSet(<<"event">>) = {"event"}
    /\ ToSet(<<"event", "read">>) = {"event", "read"}
    /\ ToSet(<<"read", "desc">>) = {"read", "desc"} /\ ToSet(<<"desc">>) = {"desc"}
  <1>1. ToSet(Order) = {"event", "read", "desc"}
    BY DEF Order, ToSet
  <1>2. /\ Len(Order) = 3
        /\ Order[1] = "event" /\ Order[2] = "read" /\ Order[3] = "desc"
    BY DEF Order
  <1>3. /\ ToSet(<<>>) = {} /\ ToSet(<<"event">>) = {"event"}
        /\ ToSet(<<"event", "read">>) = {"event", "read"}
        /\ ToSet(<<"read", "desc">>) = {"read", "desc"} /\ ToSet(<<"desc">>) = {"desc"}
    BY DEF ToSet
  <1> QED
    BY <1>1, <1>2, <1>3 DEF Files

\* A piece more, in the buffer or in front of an empty one.
LEMMA PutText ==
    ASSUME NEW d \in Texts, NEW b \in Texts, NEW p \in Pieces
    PROVE  /\ d \o Append(b, p) = Append(d \o b, p)
           /\ (d \o b) \o <<p>> = Append(d \o b, p)
           /\ d \o b \in Texts /\ Append(d \o b, p) \in Texts
           /\ Append(b, p) \in Texts /\ <<p>> \in Texts
  <1> USE DEF Texts
  <1>1. d \o b \in Seq(Pieces) /\ <<p>> \in Seq(Pieces)
    BY ConcatProperties
  <1>2. Append(b, p) = b \o <<p>> /\ Append(d \o b, p) = (d \o b) \o <<p>>
    BY <1>1, AppendIsConcat
  <1>3. (d \o b) \o <<p>> = d \o (b \o <<p>>)
    BY <1>1, ConcatAssociative
  <1> QED
    BY <1>1, <1>2, <1>3, AppendProperties

\* Concatenation of texts.
LEMMA ConcatTexts ==
    ASSUME NEW d \in Texts, NEW u \in Texts
    PROVE  /\ d \o u \in Texts /\ Len(d \o u) = Len(d) + Len(u)
           /\ \A i \in 1 .. Len(d) + Len(u) :
                 (d \o u)[i] = IF i <= Len(d) THEN d[i] ELSE u[i - Len(d)]
  BY ConcatProperties DEF Texts

\* It does not matter which is done first.
LEMMA ConcatThree ==
    ASSUME NEW d \in Texts, NEW u \in Texts, NEW v \in Texts
    PROVE  (d \o u) \o v = d \o (u \o v)
  <1>1. d \in Seq(Pieces) /\ u \in Seq(Pieces) /\ v \in Seq(Pieces)
    BY DEF Texts
  <1> QED
    BY <1>1, ConcatAssociative

\* Writing out the first n pieces of the buffer moves them to the file.
LEMMA MoveText ==
    ASSUME NEW d \in Texts, NEW b \in Texts, NEW n \in 0 .. Len(b)
    PROVE  /\ SubSeq(b, 1, n) \in Texts /\ SubSeq(b, n + 1, Len(b)) \in Texts
           /\ d \o SubSeq(b, 1, n) \in Texts
           /\ (d \o SubSeq(b, 1, n)) \o SubSeq(b, n + 1, Len(b)) = d \o b
           /\ Len(d \o SubSeq(b, 1, n)) = Len(d) + n
           /\ Beginning(d \o SubSeq(b, 1, n), d \o b)
  <1> USE DEF Texts
  <1>0. PICK u, v : u = SubSeq(b, 1, n) /\ v = SubSeq(b, n + 1, Len(b))
    OBVIOUS
  <1>1. /\ u \in Seq(Pieces) /\ Len(u) = n
        /\ \A i \in 1 .. n : u[i] = b[i]
    BY <1>0, SubSeqProperties
  <1>2. v \in Seq(Pieces)
    BY <1>0, SubSeqProperties
  <1>3. u \o v = b
    <2>1. PICK l \in Nat : l = Len(b)
      OBVIOUS
    <2>2. 1 \in 1 .. l + 1 /\ n \in 1 - 1 .. l /\ l \in n .. l
      BY <2>1
    <2>3. SubSeq(b, 1, n) \o SubSeq(b, n + 1, l) = SubSeq(b, 1, l)
      BY <2>1, <2>2, ConcatAdjacentSubSeq
    <2> QED
      BY <1>0, <2>1, <2>3, SubSeqFull
  <1>4. (d \o u) \o v = d \o b
    <2>1. (d \o u) \o v = d \o (u \o v)
      BY <1>1, <1>2, ConcatThree
    <2> QED
      BY <1>3, <2>1
  <1>5. /\ d \o u \in Seq(Pieces) /\ Len(d \o u) = Len(d) + n
        /\ \A i \in 1 .. Len(d) + n : (d \o u)[i] = IF i <= Len(d) THEN d[i] ELSE u[i - Len(d)]
    BY <1>1, ConcatTexts
  <1>6. /\ Len(d \o b) = Len(d) + Len(b)
        /\ \A i \in 1 .. Len(d) + Len(b) :
              (d \o b)[i] = IF i <= Len(d) THEN d[i] ELSE b[i - Len(d)]
    BY ConcatProperties
  <1>7. Beginning(d \o u, d \o b)
    BY <1>1, <1>5, <1>6 DEF Beginning
  <1> QED
    BY <1>0, <1>1, <1>2, <1>4, <1>5, <1>7

\* A piece that may come after the last one keeps the order, and so does a
\* failure more.
LEMMA OrderKept ==
    ASSUME NEW s \in Texts, NEW F, NEW G, InOrder(s, F), F \subseteq G
    PROVE  /\ InOrder(s, G)
           /\ \A p \in Pieces :
                 (s # <<>> => Follows(s[Len(s)], p, G)) => InOrder(Append(s, p), G)
  <1>1. InOrder(s, G)
    BY DEF InOrder, Follows
  <1>2. ASSUME NEW p \in Pieces, s # <<>> => Follows(s[Len(s)], p, G)
        PROVE  InOrder(Append(s, p), G)
    <2>1. /\ Len(Append(s, p)) = Len(s) + 1 /\ Len(s) \in Nat
          /\ \A n \in 1 .. Len(s) : Append(s, p)[n] = s[n]
          /\ Append(s, p)[Len(s) + 1] = p
      BY AppendProperties DEF Texts
    <2>2. ASSUME NEW n \in 1 .. Len(s)
          PROVE  Follows(Append(s, p)[n], Append(s, p)[n + 1], G)
      <3>1. CASE n = Len(s)
        BY <1>2, <2>1, <3>1
      <3>2. CASE n # Len(s)
        BY <1>1, <2>1, <3>2 DEF InOrder
      <3> QED
        BY <3>1, <3>2
    <2> QED
      BY <2>1, <2>2 DEF InOrder
  <1> QED
    BY <1>1, <1>2

\* The rows of a text.
RowsOf(s) == {s[n].row : n \in 1 .. Len(s)}

LEMMA RowsAre ==
    ASSUME NEW s \in Texts
    PROVE  /\ ToSet([n \in DOMAIN s |-> s[n].row]) = RowsOf(s)
           /\ RowsOf(s) \subseteq Int
           /\ \A p \in Pieces : RowsOf(Append(s, p)) = RowsOf(s) \cup {p.row}
           /\ s # <<>> => s[Len(s)] \in Pieces /\ s[Len(s)].row \in RowsOf(s)
  <1>1. DOMAIN s = 1 .. Len(s) /\ Len(s) \in Nat /\ \A n \in 1 .. Len(s) : s[n] \in Pieces
    BY DEF Texts
  <1>2. ToSet([n \in DOMAIN s |-> s[n].row]) = RowsOf(s)
    BY <1>1 DEF RowsOf, ToSet
  <1>3. RowsOf(s) \subseteq Int
    BY <1>1 DEF RowsOf, Pieces
  <1>4. ASSUME NEW p \in Pieces PROVE RowsOf(Append(s, p)) = RowsOf(s) \cup {p.row}
    <2>1. /\ Len(Append(s, p)) = Len(s) + 1
          /\ \A n \in 1 .. Len(s) : Append(s, p)[n] = s[n]
          /\ Append(s, p)[Len(s) + 1] = p
      BY AppendProperties DEF Texts
    <2>2. 1 .. Len(s) + 1 = (1 .. Len(s)) \cup {Len(s) + 1}
      BY <1>1
    <2> QED
      BY <2>1, <2>2 DEF RowsOf
  <1>5. s # <<>> => s[Len(s)] \in Pieces /\ s[Len(s)].row \in RowsOf(s)
    <2>1. s # <<>> => Len(s) \in 1 .. Len(s)
      BY EmptySeq, <1>1 DEF Texts
    <2> QED
      BY <1>1, <2>1 DEF RowsOf
  <1> QED
    BY <1>2, <1>3, <1>4, <1>5

\* A text with a piece more.
LEMMA AppendText ==
    ASSUME NEW s \in Texts, NEW p \in Pieces
    PROVE  /\ Append(s, p) \in Texts /\ Append(s, p) # <<>>
           /\ Append(s, p)[Len(Append(s, p))] = p
           /\ RowsOf(Append(s, p)) = RowsOf(s) \cup {p.row}
  <1>1. /\ Append(s, p) \in Texts /\ Append(s, p) # <<>>
        /\ Append(s, p)[Len(Append(s, p))] = p
    BY AppendProperties DEF Texts
  <1> QED
    BY <1>1, RowsAre

\* The largest of a set of numbers, when there is one.
LEMMA MaxIs ==
    ASSUME NEW S, NEW m \in S, \A r \in S : r <= m, S \subseteq Int
    PROVE  Max(S) \in S /\ \A r \in S : r <= Max(S)
  <1>1. \A r \in S : m >= r
    OBVIOUS
  <1> QED
    BY <1>1 DEF Max

-----------------------------------------------------------------------------
(* What each operation does to a file.                                     *)

\* A piece that is put is the next one of the file, in memory or in front of an
\* empty buffer (the write of a BufWriter).
LEMMA PutIs ==
    ASSUME Types, NEW f \in Files, NEW p \in Pieces, Put(f, p),
           stream[f] = disk[f] \o buf[f]
    PROVE  /\ disk' \in [Files -> Texts] /\ buf' \in [Files -> Texts]
           /\ stream' \in [Files -> Texts]
           /\ stream'[f] = Append(stream[f], p) /\ stream'[f] = disk'[f] \o buf'[f]
           /\ \A g \in Files \ {f} :
                 disk'[g] = disk[g] /\ buf'[g] = buf[g] /\ stream'[g] = stream[g]
  <1> DEFINE d == disk[f]
             b == buf[f]
  <1>1. d \in Texts /\ b \in Texts /\ stream[f] \in Texts
    BY DEF Types
  <1>2. stream' = [stream EXCEPT ![f] = Append(@, p)]
    BY DEF Put
  <1>3. /\ stream'[f] = Append(d \o b, p)
        /\ stream' \in [Files -> Texts] /\ \A g \in Files \ {f} : stream'[g] = stream[g]
    BY <1>1, <1>2, PutText DEF Types
  <1>4. CASE Len(b) = Capacity
    <2>1. disk' = [disk EXCEPT ![f] = d \o b] /\ buf' = [buf EXCEPT ![f] = <<p>>]
      BY <1>4 DEF Put
    <2>2. disk'[f] = d \o b /\ buf'[f] = <<p>>
      BY <2>1 DEF Types
    <2>3. disk'[f] \o buf'[f] = Append(d \o b, p)
      <3>1. (d \o b) \o <<p>> = Append(d \o b, p)
        BY <1>1, PutText
      <3> QED
        BY <2>2, <3>1
    <2> QED
      BY <1>1, <1>3, <2>1, <2>3, PutText DEF Types
  <1>5. CASE Len(b) # Capacity
    <2>1. disk' = disk /\ buf' = [buf EXCEPT ![f] = Append(b, p)]
      BY <1>5 DEF Put
    <2>2. disk'[f] = d /\ buf'[f] = Append(b, p)
      BY <2>1 DEF Types
    <2>3. disk'[f] \o buf'[f] = Append(d \o b, p)
      <3>1. d \o Append(b, p) = Append(d \o b, p)
        BY <1>1, PutText
      <3> QED
        BY <2>2, <3>1
    <2> QED
      BY <1>1, <1>3, <2>1, <2>3, PutText DEF Types
  <1> QED
    BY <1>4, <1>5

\* A write that fails half-way moves what was written and keeps the rest.
LEMMA PutFailsIs ==
    ASSUME Types, NEW f \in Files, NEW n \in 0 .. Capacity - 1, PutFails(f, n)
    PROVE  /\ disk' \in [Files -> Texts] /\ buf' \in [Files -> Texts]
           /\ disk'[f] \o buf'[f] = disk[f] \o buf[f]
           /\ \A g \in Files \ {f} : disk'[g] = disk[g] /\ buf'[g] = buf[g]
  <1> DEFINE d == disk[f]
             b == buf[f]
  <1>1. d \in Texts /\ b \in Texts
    BY DEF Types
  <1>2. /\ Len(b) = Capacity
        /\ disk' = [disk EXCEPT ![f] = d \o SubSeq(b, 1, n)]
        /\ buf' = [buf EXCEPT ![f] = SubSeq(b, n + 1, Len(b))]
    BY DEF PutFails
  <1>3. n \in 0 .. Len(b)
    BY <1>2
  <1>4. disk'[f] = d \o SubSeq(b, 1, n) /\ buf'[f] = SubSeq(b, n + 1, Len(b))
    BY <1>2 DEF Types
  <1>5. /\ SubSeq(b, n + 1, Len(b)) \in Texts /\ d \o SubSeq(b, 1, n) \in Texts
        /\ (d \o SubSeq(b, 1, n)) \o SubSeq(b, n + 1, Len(b)) = d \o b
    BY <1>1, <1>3, MoveText
  <1>6. disk'[f] \o buf'[f] = d \o b
    BY <1>4, <1>5
  <1> QED
    BY <1>2, <1>5, <1>6 DEF Types

\* A step about another file changes nothing here.
LEMMA OtherFile ==
    ASSUME NEW g \in Files, FileOk(g),
           disk'[g] = disk[g], buf'[g] = buf[g], stream'[g] = stream[g], failed'[g] = failed[g],
           UNCHANGED at, g \in Live' <=> g \in Live,
           (\E q \in putting' : q[1] = g) <=> (\E q \in putting : q[1] = g),
           \A r : <<g, r>> \in putting' <=> <<g, r>> \in putting
    PROVE  FileOk(g)'
  <1>1. Kept(g)' /\ Missing(g)' /\ InOrder(stream[g], failed[g])'
    BY DEF FileOk, Kept, Missing, InOrder, Follows
  <1>2. EndsIn(g)'
    BY DEF FileOk, EndsIn
  <1>3. Rows(g)' = Rows(g)
    BY DEF Rows
  <1>4. HasLast(g)'
    BY <1>3 DEF FileOk, HasLast
  <1> QED
    BY <1>1, <1>2, <1>4 DEF FileOk

\* Max(Rows(f)) is the last row of f that was begun, and f's last piece is of no
\* later one.
LEMMA LastRow ==
    ASSUME Types, NEW f \in Files, HasLast(f), stream[f] # <<>>
    PROVE  /\ Rows(f) = RowsOf(stream[f]) \cup failed[f] /\ Rows(f) \subseteq Int
           /\ Max(Rows(f)) \in Int /\ \A r \in Rows(f) : r <= Max(Rows(f))
           /\ stream[f][Len(stream[f])] \in Pieces
           /\ stream[f][Len(stream[f])].row \in Rows(f)
  <1>1. stream[f] \in Texts /\ failed[f] \subseteq Int
    BY DEF Types
  <1>2. Rows(f) = RowsOf(stream[f]) \cup failed[f] /\ Rows(f) \subseteq Int
    BY <1>1, RowsAre DEF Rows
  <1>3. PICK m \in Rows(f) : \A r \in Rows(f) : r <= m
    BY DEF HasLast
  <1>4. Max(Rows(f)) \in Rows(f) /\ \A r \in Rows(f) : r <= Max(Rows(f))
    BY <1>2, <1>3, MaxIs
  <1> QED
    BY <1>1, <1>2, <1>4, RowsAre

-----------------------------------------------------------------------------
(* The rows of a handler.                                                  *)

\* While a handler runs all files are open and have their header.
Writing ==
    /\ Types /\ FileInv /\ Rowed /\ writers = Order
    /\ at \in {"handler", "flush"} /\ UNCHANGED <<at, writers>>

LEMMA WritingFacts ==
    ASSUME Writing
    PROVE  /\ Live = Files /\ Live' = Files
           /\ \A g \in Files : FileOk(g) /\ stream[g] # <<>>
  <1>1. Live = Files /\ Live' = Files
    BY FileNames DEF Writing, Live
  <1> QED
    BY <1>1 DEF Writing, FileInv, FileOk, Rowed, WithFiles, InLoop

\* The first piece of the next row.
LEMMA WriteRowKeeps ==
    ASSUME Writing, NEW f \in Files, write_row(f)
    PROVE  Types' /\ FileInv' /\ Rowed'
  <1> DEFINE r == Max(Rows(f)) + 1
             p == Piece(r, FALSE)
             q == stream[f][Len(stream[f])]
  <1>1. /\ putting = {} /\ Put(f, p) /\ putting' = {<<f, r>>}
        /\ failed' = failed
    BY DEF write_row
  <1>2. /\ stream[f] = disk[f] \o buf[f] /\ stream[f] # <<>> /\ stream[f] \in Texts
        /\ InOrder(stream[f], failed[f]) /\ EndsIn(f) /\ HasLast(f)
    BY WritingFacts DEF FileOk, Kept, Writing, Types
  <1>3. /\ Rows(f) = RowsOf(stream[f]) \cup failed[f] /\ Rows(f) \subseteq Int
        /\ r \in Int /\ \A s \in Rows(f) : s < r
        /\ q \in Pieces /\ q.row \in Rows(f)
    <2>1. /\ Rows(f) = RowsOf(stream[f]) \cup failed[f] /\ Rows(f) \subseteq Int
          /\ Max(Rows(f)) \in Int /\ \A s \in Rows(f) : s <= Max(Rows(f))
          /\ q \in Pieces /\ q.row \in Rows(f)
      BY <1>2, LastRow DEF Writing
    <2>2. PICK m \in Int : m = Max(Rows(f))
      BY <2>1
    <2>3. r = m + 1 /\ \A s \in Rows(f) : s \in Int /\ s <= m
      BY <2>1, <2>2
    <2> HIDE DEF r
    <2> QED
      BY <2>1, <2>3
  <1> HIDE DEF r
  <1>4. p \in Pieces /\ p.row = r /\ p.last = FALSE
    BY <1>3 DEF Pieces, Piece
  <1> HIDE DEF p
  <1>5. /\ disk' \in [Files -> Texts] /\ buf' \in [Files -> Texts]
        /\ stream' \in [Files -> Texts]
        /\ stream'[f] = Append(stream[f], p) /\ stream'[f] = disk'[f] \o buf'[f]
        /\ \A g \in Files \ {f} :
              disk'[g] = disk[g] /\ buf'[g] = buf[g] /\ stream'[g] = stream[g]
    BY <1>1, <1>2, <1>4, PutIs DEF Writing
  <1>6. Types'
    BY <1>1, <1>3, <1>5 DEF Writing, Types
  <1>7. FileOk(f)'
    <2>1. Kept(f)' /\ Missing(f)'
      BY <1>5, WritingFacts DEF Kept, Missing
    <2>2. q.last \/ q.row \in failed[f]
      BY <1>1, <1>2 DEF EndsIn
    <2>3. Follows(q, p, failed[f])
      BY <1>3, <1>4, <2>2 DEF Follows, Pieces
    <2>4. InOrder(stream'[f], failed'[f])
      BY <1>1, <1>2, <1>4, <1>5, <2>3, OrderKept, ZenonT(40)
    <2>5. stream'[f][Len(stream'[f])] = p
      <3>1. Append(stream[f], p)[Len(Append(stream[f], p))] = p
        BY <1>2, <1>4, AppendText
      <3> QED
        BY <1>5, <3>1
    <2>6. EndsIn(f)'
      BY <1>1, <1>4, <2>5 DEF EndsIn
    <2>7. Rows(f)' = Rows(f) \cup {r}
      <3>1. Rows(f)' = RowsOf(stream'[f]) \cup failed'[f]
        BY <1>5, RowsAre DEF Rows
      <3>2. RowsOf(stream'[f]) = RowsOf(stream[f]) \cup {r}
        <4>1. RowsOf(Append(stream[f], p)) = RowsOf(stream[f]) \cup {p.row}
          BY <1>2, <1>4, AppendText
        <4> QED
          BY <1>2, <1>4, <1>5, <4>1
      <3> QED
        BY <1>1, <1>3, <3>1, <3>2
    <2>8. HasLast(f)'
      <3>1. r \in Rows(f)' /\ \A s \in Rows(f)' : s <= r
        BY <1>3, <2>7
      <3> QED
        BY <3>1 DEF HasLast
    <2> QED
      BY <2>1, <2>4, <2>6, <2>8 DEF FileOk
  <1>8. ASSUME NEW g \in Files \ {f} PROVE FileOk(g)'
    BY <1>1, <1>5, WritingFacts, OtherFile DEF Writing
  <1>9. Rowed'
    <2>1. stream'[f] # <<>>
      BY <1>2, <1>4, <1>5, AppendText
    <2>2. \A g \in Files : stream'[g] # <<>>
      BY <1>5, <2>1, WritingFacts
    <2> QED
      BY <1>1, <2>2 DEF Writing, Rowed, BeforeState
  <1> QED
    BY <1>6, <1>7, <1>8, <1>9 DEF FileInv, FileOk

\* The end of the row that was begun.
LEMMA EndRowKeeps ==
    ASSUME Writing, end_row
    PROVE  Types' /\ FileInv' /\ Rowed'
  <1>1. PICK t \in putting : Put(t[1], Piece(t[2], TRUE))
    BY DEF end_row
  <1> DEFINE f == t[1]
             r == t[2]
             p == Piece(r, TRUE)
             q == stream[f][Len(stream[f])]
  <1>2. /\ putting' = {} /\ failed' = failed /\ \A s \in putting : s = t
        /\ f \in Files /\ r \in Int /\ t = <<f, r>>
    BY DEF end_row, Writing, Rowed, Types
  <1>3. /\ stream[f] = disk[f] \o buf[f] /\ stream[f] # <<>> /\ stream[f] \in Texts
        /\ InOrder(stream[f], failed[f]) /\ EndsIn(f) /\ HasLast(f)
    BY <1>2, WritingFacts DEF FileOk, Kept, Writing, Types
  <1>4. /\ Rows(f) = RowsOf(stream[f]) \cup failed[f]
        /\ q \in Pieces /\ q.row \in Rows(f)
    BY <1>2, <1>3, LastRow DEF Writing
  <1>5. q.row = r /\ ~q.last
    <2>1. <<f, q.row>> \in putting /\ ~q.last
      BY <1>2, <1>3 DEF EndsIn
    <2>2. <<f, q.row>> = <<f, r>>
      BY <1>2, <2>1
    <2> QED
      BY <2>1, <2>2
  <1>6. p \in Pieces /\ p.row = r /\ p.last = TRUE
    BY <1>2 DEF Pieces, Piece
  <1> HIDE DEF f, r, p
  <1>7. /\ disk' \in [Files -> Texts] /\ buf' \in [Files -> Texts]
        /\ stream' \in [Files -> Texts]
        /\ stream'[f] = Append(stream[f], p) /\ stream'[f] = disk'[f] \o buf'[f]
        /\ \A g \in Files \ {f} :
              disk'[g] = disk[g] /\ buf'[g] = buf[g] /\ stream'[g] = stream[g]
    <2>1. Put(f, p)
      BY <1>1 DEF f, r, p
    <2> QED
      BY <1>2, <1>3, <1>6, <2>1, PutIs DEF Writing
  <1>8. Types'
    BY <1>2, <1>7 DEF Writing, Types
  <1>9. FileOk(f)'
    <2>1. Kept(f)' /\ Missing(f)'
      BY <1>2, <1>7, WritingFacts DEF Kept, Missing
    <2>2. Follows(q, p, failed[f])
      BY <1>5, <1>6 DEF Follows
    <2>3. InOrder(stream'[f], failed'[f])
      BY <1>2, <1>3, <1>6, <1>7, <2>2, OrderKept, ZenonT(40)
    <2>4. stream'[f][Len(stream'[f])] = p
      <3>1. Append(stream[f], p)[Len(Append(stream[f], p))] = p
        BY <1>3, <1>6, AppendText
      <3> QED
        BY <1>7, <3>1
    <2>5. EndsIn(f)'
      BY <1>2, <1>6, <2>4 DEF EndsIn
    <2>6. Rows(f)' = Rows(f)
      <3>1. Rows(f)' = RowsOf(stream'[f]) \cup failed'[f]
        BY <1>2, <1>7, RowsAre DEF Rows
      <3>2. RowsOf(stream'[f]) = RowsOf(stream[f]) \cup {r}
        <4>1. RowsOf(Append(stream[f], p)) = RowsOf(stream[f]) \cup {p.row}
          BY <1>3, <1>6, AppendText
        <4> QED
          BY <1>3, <1>6, <1>7, <4>1
      <3> QED
        BY <1>2, <1>4, <1>5, <3>1, <3>2
    <2>7. HasLast(f)'
      BY <1>3, <2>6 DEF HasLast
    <2> QED
      BY <2>1, <2>3, <2>5, <2>7 DEF FileOk
  <1>10. ASSUME NEW g \in Files \ {f} PROVE FileOk(g)'
    BY <1>2, <1>7, WritingFacts, OtherFile DEF Writing
  <1>11. Rowed'
    <2>1. stream'[f] # <<>>
      BY <1>3, <1>6, <1>7, AppendText
    <2>2. \A g \in Files : stream'[g] # <<>>
      BY <1>7, <2>1, WritingFacts
    <2> QED
      BY <1>2, <2>2 DEF Writing, Rowed, BeforeState
  <1> QED
    BY <1>2, <1>8, <1>9, <1>10, <1>11 DEF FileInv, FileOk

\* A row that is cut, or not even begun, has failed, and nothing of what the
\* buffer held is lost by it.
LEMMA FailedRowKeeps ==
    ASSUME Writing, NEW f \in Files, NEW r \in Int, NEW n \in 0 .. Capacity - 1,
           PutFails(f, n), stream' = stream, putting' = {},
           failed' = [failed EXCEPT ![f] = @ \cup {r}],
           \/ putting = {} /\ r = Max(Rows(f)) + 1
           \/ putting = {<<f, r>>}
    PROVE  Types' /\ FileInv' /\ Rowed'
  <1> DEFINE q == stream[f][Len(stream[f])]
  <1>1. /\ stream[f] = disk[f] \o buf[f] /\ stream[f] # <<>> /\ stream[f] \in Texts
        /\ InOrder(stream[f], failed[f]) /\ EndsIn(f) /\ HasLast(f)
    BY WritingFacts DEF FileOk, Kept, Writing, Types
  <1>2. /\ Rows(f) = RowsOf(stream[f]) \cup failed[f] /\ Rows(f) \subseteq Int
        /\ Max(Rows(f)) \in Int /\ \A s \in Rows(f) : s <= Max(Rows(f))
        /\ q \in Pieces /\ q.row \in Rows(f)
    BY <1>1, LastRow DEF Writing
  <1>3. /\ disk' \in [Files -> Texts] /\ buf' \in [Files -> Texts]
        /\ disk'[f] \o buf'[f] = disk[f] \o buf[f]
        /\ \A g \in Files \ {f} : disk'[g] = disk[g] /\ buf'[g] = buf[g]
    BY PutFailsIs DEF Writing
  <1>4. /\ failed' \in [Files -> SUBSET Int] /\ failed'[f] = failed[f] \cup {r}
        /\ \A g \in Files \ {f} : failed'[g] = failed[g]
    BY DEF Writing, Types
  <1>5. Types'
    BY <1>3, <1>4 DEF Writing, Types
  <1>6. FileOk(f)'
    <2>1. Kept(f)' /\ Missing(f)'
      BY <1>1, <1>3, WritingFacts DEF Kept, Missing
    <2>2. InOrder(stream'[f], failed'[f])
      BY <1>1, <1>4, OrderKept
    <2>3. EndsIn(f)'
      <3>1. CASE putting = {}
        BY <1>1, <1>4, <3>1 DEF EndsIn
      <3>2. CASE putting = {<<f, r>>}
        <4>1. <<f, q.row>> \in putting
          BY <1>1, <3>2 DEF EndsIn
        <4>2. q.row = r
          BY <3>2, <4>1
        <4> QED
          BY <1>4, <4>2 DEF EndsIn
      <3> QED
        BY <3>1, <3>2
    <2>4. HasLast(f)'
      <3>1. Rows(f)' = Rows(f) \cup {r}
        BY <1>1, <1>2, <1>4, RowsAre DEF Rows
      <3>2. CASE putting = {}
        <4>1. r = Max(Rows(f)) + 1
          BY <3>2
        <4>2. PICK m \in Int : m = Max(Rows(f))
          BY <1>2
        <4>3. r = m + 1 /\ \A s \in Rows(f) : s \in Int /\ s <= m
          BY <1>2, <4>1, <4>2
        <4>4. r \in Rows(f)' /\ \A s \in Rows(f)' : s <= r
          BY <3>1, <4>3
        <4> QED
          BY <4>4 DEF HasLast
      <3>3. CASE putting = {<<f, r>>}
        <4>1. <<f, q.row>> \in putting
          BY <1>1, <3>3 DEF EndsIn
        <4>2. q.row = r
          BY <3>3, <4>1
        <4>3. Rows(f)' = Rows(f)
          BY <1>2, <3>1, <4>2
        <4> QED
          BY <1>1, <4>3 DEF HasLast
      <3> QED
        BY <3>2, <3>3
    <2> QED
      BY <2>1, <2>2, <2>3, <2>4 DEF FileOk
  <1>7. ASSUME NEW g \in Files \ {f} PROVE FileOk(g)'
    BY <1>3, <1>4, WritingFacts, OtherFile DEF Writing
  <1>8. Rowed'
    BY WritingFacts DEF Writing, Rowed, BeforeState
  <1> QED
    BY <1>5, <1>6, <1>7, <1>8 DEF FileInv, FileOk

\* Every step of a row, whether it succeeds or fails.
LEMMA RowKeeps ==
    ASSUME Writing, CsvRow
    PROVE  Types' /\ FileInv' /\ Rowed'
  <1>1. ASSUME NEW f \in Files, row_refused(f) PROVE Types' /\ FileInv' /\ Rowed'
    <2>1. PICK n \in 0 .. Capacity - 1 : PutFails(f, n)
      BY <1>1 DEF row_refused
    <2>2. /\ putting = {} /\ failed' = [failed EXCEPT ![f] = @ \cup {Max(Rows(f)) + 1}]
          /\ stream' = stream /\ putting' = putting
      BY <1>1 DEF row_refused
    <2>3. Max(Rows(f)) + 1 \in Int
      BY WritingFacts, LastRow DEF Writing, FileOk
    <2> QED
      BY <2>1, <2>2, <2>3, FailedRowKeeps
  <1>2. CASE row_cut
    <2>1. PICK t \in putting : \E n \in 0 .. Capacity - 1 :
             /\ PutFails(t[1], n)
             /\ failed' = [failed EXCEPT ![t[1]] = @ \cup {t[2]}]
      BY <1>2 DEF row_cut
    <2>2. /\ stream' = stream /\ putting' = {} /\ t[1] \in Files /\ t[2] \in Int
          /\ putting = {<<t[1], t[2]>>}
      BY <1>2, <2>1 DEF row_cut, Writing, Types, Rowed
    <2> QED
      BY <2>1, <2>2, FailedRowKeeps
  <1> QED
    BY <1>1, <1>2, WriteRowKeeps, EndRowKeeps DEF CsvRow

-----------------------------------------------------------------------------
(* Setting up and ending.                                                  *)

\* What Front takes away is what Append added.
LEMMA FrontOfAppend ==
    ASSUME NEW S, NEW s \in Seq(S), NEW e \in S
    PROVE  Front(Append(s, e)) = s /\ Last(Append(s, e)) = e /\ Append(s, e) # <<>>
  <1>1. PICK t \in Seq(S) : t = Append(s, e)
    BY AppendProperties
  <1>2. /\ t # <<>> /\ Len(t) = Len(s) + 1 /\ Len(s) \in Nat
        /\ \A i \in 1 .. Len(s) : t[i] = s[i]
        /\ t[Len(s) + 1] = e
    BY <1>1, AppendProperties
  <1>3. PICK u : u = SubSeq(t, 1, Len(t) - 1)
    OBVIOUS
  <1>4. /\ u \in Seq(S) /\ Len(u) = Len(s)
        /\ \A i \in 1 .. Len(s) : u[i] = t[i]
    <2>1. Len(t) - 1 \in Int /\ \A i \in 1 .. Len(t) - 1 : t[i] \in S
      BY <1>2
    <2>2. /\ u \in Seq(S) /\ Len(u) = IF 1 <= Len(t) - 1 THEN Len(t) - 1 - 1 + 1 ELSE 0
          /\ \A i \in 1 .. Len(t) - 1 - 1 + 1 : u[i] = t[1 + i - 1]
      BY <1>3, <2>1, SubSeqProperties
    <2> QED
      BY <1>2, <2>2
  <1>5. u = s
    BY <1>2, <1>4, SeqEqual
  <1> QED
    BY <1>1, <1>2, <1>3, <1>5 DEF Front, Last

\* The tuple that a tuple with an element more is.
LEMMA AppendedIs ==
    ASSUME NEW S, NEW s \in Seq(S), NEW e \in S, NEW t \in Seq(S),
           Len(t) = Len(s) + 1, \A i \in 1 .. Len(s) : t[i] = s[i], t[Len(s) + 1] = e
    PROVE  Append(s, e) = t
  <1>1. PICK u \in Seq(S) : u = Append(s, e)
    BY AppendProperties
  <1>2. /\ Len(u) = Len(s) + 1 /\ Len(s) \in Nat
        /\ \A i \in 1 .. Len(s) : u[i] = s[i]
        /\ u[Len(s) + 1] = e
    BY <1>1, AppendProperties
  <1>3. u = t
    BY <1>2, SeqEqual
  <1> QED
    BY <1>1, <1>3

LEMMA Tuples ==
    ASSUME NEW S, NEW a \in S, NEW b \in S, NEW c \in S, NEW d \in S
    PROVE  /\ <<>> \in Seq(S) /\ <<a>> \in Seq(S) /\ <<a, b>> \in Seq(S)
           /\ <<a, b, c>> \in Seq(S)
           /\ Append(<<>>, a) = <<a>> /\ Append(<<a>>, b) = <<a, b>>
           /\ Append(<<a, b>>, c) = <<a, b, c>> /\ Append(<<a, b, c>>, d) = <<a, b, c, d>>
  <1>1. PICK u, v, w, x : u = <<a>> /\ v = <<a, b>> /\ w = <<a, b, c>> /\ x = <<a, b, c, d>>
    OBVIOUS
  <1>2. u \in Seq(S) /\ Len(u) = 1 /\ u[1] = a
    BY <1>1
  <1>3. v \in Seq(S) /\ Len(v) = 2 /\ v[1] = a /\ v[2] = b
    BY <1>1
  <1>4. w \in Seq(S) /\ Len(w) = 3 /\ w[1] = a /\ w[2] = b /\ w[3] = c
    BY <1>1
  <1>5. x \in Seq(S) /\ Len(x) = 4 /\ x[1] = a /\ x[2] = b /\ x[3] = c /\ x[4] = d
    BY <1>1
  <1>6. Append(<<>>, a) = u
    BY <1>1
  <1>7. Append(u, b) = v
    <2>1. /\ u \in Seq(S) /\ v \in Seq(S) /\ Len(v) = Len(u) + 1
          /\ \A i \in 1 .. Len(u) : v[i] = u[i]
          /\ v[Len(u) + 1] = b
      BY <1>2, <1>3
    <2> QED
      BY <2>1, AppendedIs
  <1>8. Append(v, c) = w
    <2>1. /\ v \in Seq(S) /\ w \in Seq(S) /\ Len(w) = Len(v) + 1
          /\ \A i \in 1 .. Len(v) : w[i] = v[i]
          /\ w[Len(v) + 1] = c
      BY <1>3, <1>4
    <2> QED
      BY <2>1, AppendedIs
  <1>9. Append(w, d) = x
    <2>1. /\ w \in Seq(S) /\ x \in Seq(S) /\ Len(x) = Len(w) + 1
          /\ \A i \in 1 .. Len(w) : x[i] = w[i]
          /\ x[Len(w) + 1] = d
      BY <1>4, <1>5
    <2> QED
      BY <2>1, AppendedIs
  <1> QED
    BY <1>1, <1>2, <1>3, <1>4, <1>6, <1>7, <1>8, <1>9

\* The values main owns, one more or one less.
LEMMA LocalTuples ==
    /\ Append(WithQueue, "state") = WithState
    /\ Append(WithState, "signal_fd") = WithSignals
    /\ Append(WithSignals, "flush_timer") = WithTimer
    /\ Front(WithQueue) = <<>> /\ Front(WithState) = WithQueue
    /\ Front(WithSignals) = WithState /\ Front(WithTimer) = WithSignals
    /\ Last(WithQueue) = "mq" /\ Last(WithState) = "state"
    /\ Last(WithSignals) = "signal_fd" /\ Last(WithTimer) = "flush_timer"
    /\ WithQueue # <<>> /\ WithState # <<>> /\ WithSignals # <<>> /\ WithTimer # <<>>
    /\ WithState # WithQueue /\ WithSignals # WithQueue /\ WithTimer # WithQueue
  <1>1. PICK S : S = {"mq", "state", "signal_fd", "flush_timer"}
    OBVIOUS
  <1>2. "mq" \in S /\ "state" \in S /\ "signal_fd" \in S /\ "flush_timer" \in S
    BY <1>1
  <1>3. /\ <<>> \in Seq(S) /\ WithQueue \in Seq(S) /\ WithState \in Seq(S)
        /\ WithSignals \in Seq(S)
        /\ Append(<<>>, "mq") = WithQueue
        /\ Append(WithQueue, "state") = WithState
        /\ Append(WithState, "signal_fd") = WithSignals
        /\ Append(WithSignals, "flush_timer") = WithTimer
    BY <1>2, Tuples DEF WithQueue, WithState, WithSignals, WithTimer
  <1>4. /\ Front(WithQueue) = <<>> /\ Last(WithQueue) = "mq" /\ WithQueue # <<>>
    <2>1. \A e \in S : /\ Front(Append(<<>>, e)) = <<>> /\ Last(Append(<<>>, e)) = e
                       /\ Append(<<>>, e) # <<>>
      BY <1>3, FrontOfAppend
    <2> QED
      BY <1>2, <1>3, <2>1
  <1>5. /\ Front(WithState) = WithQueue /\ Last(WithState) = "state" /\ WithState # <<>>
    <2>1. \A e \in S : /\ Front(Append(WithQueue, e)) = WithQueue
                       /\ Last(Append(WithQueue, e)) = e /\ Append(WithQueue, e) # <<>>
      BY <1>3, FrontOfAppend
    <2> QED
      BY <1>2, <1>3, <2>1
  <1>6. /\ Front(WithSignals) = WithState /\ Last(WithSignals) = "signal_fd"
        /\ WithSignals # <<>>
    <2>1. \A e \in S : /\ Front(Append(WithState, e)) = WithState
                       /\ Last(Append(WithState, e)) = e /\ Append(WithState, e) # <<>>
      BY <1>3, FrontOfAppend
    <2> QED
      BY <1>2, <1>3, <2>1
  <1>7. /\ Front(WithTimer) = WithSignals /\ Last(WithTimer) = "flush_timer"
        /\ WithTimer # <<>>
    <2>1. \A e \in S : /\ Front(Append(WithSignals, e)) = WithSignals
                       /\ Last(Append(WithSignals, e)) = e /\ Append(WithSignals, e) # <<>>
      BY <1>3, FrontOfAppend
    <2> QED
      BY <1>2, <1>3, <2>1
  <1> QED
    BY <1>3, <1>4, <1>5, <1>6, <1>7

\* The files as they are opened, one after the other.
LEMMA OpenedNext ==
    ASSUME NEW w \in OpeningFiles
    PROVE  /\ Len(w) < 3 => LET f == Order[Len(w) + 1] IN
                            /\ f \in Files /\ f \notin ToSet(w)
                            /\ Append(w, f) \in OpeningFiles
                            /\ ToSet(Append(w, f)) = ToSet(w) \cup {f}
           /\ Len(w) = 3 => w = Order
  <1>0. PICK S : S = {"event", "read", "desc"}
    OBVIOUS
  <1>1. Append(<<>>, "event") = <<"event">> /\ Len(<<>>) = 0
    OBVIOUS
  <1>2. "event" \in S /\ "read" \in S /\ "desc" \in S
    BY <1>0
  <1>3. /\ <<>> \in Seq(S) /\ <<"event">> \in Seq(S) /\ <<"event", "read">> \in Seq(S)
        /\ <<"event", "read", "desc">> \in Seq(S)
        /\ Append(<<>>, "event") = <<"event">>
        /\ Append(<<"event">>, "read") = <<"event", "read">>
        /\ Append(<<"event", "read">>, "desc") = Order
        /\ Len(<<"event">>) = 1 /\ Len(<<"event", "read">>) = 2
    <2>1. \A d \in S : /\ <<>> \in Seq(S) /\ <<"event">> \in Seq(S)
                       /\ <<"event", "read">> \in Seq(S)
                       /\ <<"event", "read", "desc">> \in Seq(S)
                       /\ Append(<<>>, "event") = <<"event">>
                       /\ Append(<<"event">>, "read") = <<"event", "read">>
                       /\ Append(<<"event", "read">>, "desc") = <<"event", "read", "desc">>
                       /\ Append(<<"event", "read", "desc">>, d) = <<"event", "read", "desc", d>>
      BY <1>2, Tuples
    <2> QED
      BY <1>2, <2>1 DEF Order
  <1>4. CASE w = <<>>
    <2>1. Order[Len(w) + 1] = "event" /\ Len(w) = 0
      BY <1>1, <1>4, FileNames
    <2> QED
      BY <1>1, <1>4, <2>1, FileNames DEF OpeningFiles
  <1>5. CASE w = <<"event">>
    <2>1. Order[Len(w) + 1] = "read" /\ Len(w) = 1
      BY <1>3, <1>5, FileNames
    <2>2. Append(w, "read") = <<"event", "read">>
      BY <1>3, <1>5
    <2>3. ToSet(Append(w, "read")) = {"event", "read"} /\ ToSet(w) = {"event"}
      BY <1>5, <2>2, FileNames
    <2>4. Append(w, "read") \in OpeningFiles
      BY <2>2 DEF OpeningFiles
    <2> QED
      BY <2>1, <2>3, <2>4, FileNames
  <1>6. CASE w = <<"event", "read">>
    <2>1. Order[Len(w) + 1] = "desc" /\ Len(w) = 2
      BY <1>3, <1>6, FileNames
    <2>2. Append(w, "desc") = Order
      BY <1>3, <1>6
    <2>3. ToSet(Append(w, "desc")) = Files /\ ToSet(w) = {"event", "read"}
      BY <1>6, <2>2, FileNames
    <2>4. Append(w, "desc") \in OpeningFiles
      BY <2>2 DEF OpeningFiles
    <2> QED
      BY <2>1, <2>3, <2>4, FileNames
  <1>7. CASE w = Order
    BY <1>7, FileNames
  <1> QED
    BY <1>4, <1>5, <1>6, <1>7 DEF OpeningFiles

\* And as they are closed.
LEMMA ClosedNext ==
    ASSUME NEW w \in ClosingFiles, w # <<>>
    PROVE  /\ Head(w) \in Files /\ Head(w) \in ToSet(w)
           /\ Tail(w) \in ClosingFiles /\ ToSet(Tail(w)) = ToSet(w) \ {Head(w)}
  <1>1. /\ Head(Order) = "event" /\ Tail(Order) = <<"read", "desc">>
        /\ Head(<<"read", "desc">>) = "read" /\ Tail(<<"read", "desc">>) = <<"desc">>
        /\ Head(<<"desc">>) = "desc" /\ Tail(<<"desc">>) = <<>>
    BY DEF Order
  <1> QED
    BY <1>1, FileNames DEF ClosingFiles

\* A text is a beginning of itself with more.
LEMMA BeginningOf ==
    ASSUME NEW d \in Texts, NEW b \in Texts
    PROVE  Beginning(d, d \o b)
  <1>1. Len(d) \in Nat /\ Len(b) \in Nat
    BY DEF Texts
  <1> QED
    BY <1>1, ConcatTexts DEF Beginning

\* Two pieces are a text.
LEMMA TwoPieces ==
    ASSUME NEW p \in Pieces, NEW q \in Pieces
    PROVE  /\ <<p, q>> \in Texts /\ <<p, q>> # <<>> /\ Len(<<p, q>>) = 2
           /\ <<p, q>>[1] = p /\ <<p, q>>[2] = q
  BY DEF Texts

\* A file without rows.
LEMMA NoRows ==
    ASSUME NEW f \in Files, stream'[f] = <<>>, buf'[f] = <<>>,
           f \in Live' => disk'[f] = <<>>
    PROVE  FileOk(f)'
  <1>1. <<>> \o <<>> = <<>>
    BY ConcatEmptySeq, EmptySeq DEF Texts
  <1>2. Len(<<>>) = 0 /\ 1 .. 0 = {} /\ 1 .. 0 - 1 = {}
    OBVIOUS
  <1>3. Kept(f)'
    BY <1>1 DEF Kept
  <1>4. Missing(f)' /\ InOrder(stream'[f], failed'[f])
    BY <1>2 DEF Missing, InOrder
  <1> QED
    BY <1>3, <1>4 DEF FileOk, EndsIn, HasLast

\* A step that leaves the files alone.
LEMMA SameFiles ==
    ASSUME Types, FileInv, UNCHANGED csvVars, at = "killed" <=> at' = "killed"
    PROVE  Types' /\ FileInv'
  <1>1. UNCHANGED <<disk, buf, stream, failed, putting, writers>>
    BY DEF csvVars
  <1>2. Live' = Live
    BY <1>1 DEF Live
  <1>3. ASSUME NEW g \in Files PROVE FileOk(g)'
    <2>1. Rows(g)' = Rows(g)
      BY <1>1 DEF Rows
    <2> QED
      BY <1>1, <1>2, <2>1 DEF FileInv, FileOk, Kept, Missing, InOrder, Follows, EndsIn, HasLast
  <1> QED
    BY <1>1, <1>3 DEF Types, FileInv, FileOk

\* At first nothing is open.
LEMMA InitIInv == Init => IInv
  <1> SUFFICES ASSUME Init PROVE IInv
    OBVIOUS
  <1> USE DEF Init, CsvInit
  <1>1. Types
    <2>1. <<>> \in Texts
      BY DEF Texts
    <2>2. Old \in Texts
      <3>1. Piece(-1, FALSE) \in Pieces /\ Piece(-1, TRUE) \in Pieces
        BY DEF Piece, Pieces
      <3> QED
        BY <3>1, TwoPieces DEF Old
    <2> QED
      BY <2>1, <2>2 DEF Types
  <1>2. Placed
    BY DEF Placed, BeforeState, WithFiles, InLoop, Dropping, Owned
  <1>3. Masked
    BY DEF Masked, InLoop
  <1>4. Live = {}
    BY FileNames DEF Live
  <1>5. FileInv
    BY <1>4 DEF FileInv, FileOk, Kept, Missing, InOrder, EndsIn, HasLast
  <1>6. Rowed
    BY DEF Rowed, WithFiles, InLoop
  <1> QED
    BY <1>1, <1>2, <1>3, <1>5, <1>6 DEF IInv

\* State::new opens the files one after the other and writes their headers, or
\* gives up (csv_writer.rs:14-37).
LEMMA NewStateKeeps == IInv /\ NewState => IInv'
  <1> SUFFICES ASSUME IInv, NewState PROVE IInv'
    OBVIOUS
  <1>1. /\ at = "events" /\ locals = WithQueue /\ writers \in OpeningFiles
        /\ UNCHANGED <<named, mask, source, runVars>>
        /\ \A g \in Files : FileOk(g) /\ stream[g] = <<>> /\ failed[g] = {}
        /\ putting = {}
    BY DEF NewState, IInv, Placed, FileInv, FileOk, Rowed, BeforeState
  <1>2. Live = ToSet(writers)
    BY <1>1 DEF Live
  <1>3. <<>> \in Texts /\ <<>> \o <<>> = <<>> /\ Len(<<>>) = 0
    BY DEF Texts
  <1>4. \A g \in Files : disk[g] \in Texts /\ buf[g] \in Texts
                         /\ (g \in Live => disk[g] = <<>> /\ buf[g] = <<>>)
                         /\ (g \notin Live => buf[g] = <<>>)
    <2> SUFFICES ASSUME NEW g \in Files
                 PROVE  disk[g] \in Texts /\ buf[g] \in Texts
                        /\ (g \in Live => disk[g] = <<>> /\ buf[g] = <<>>)
                        /\ (g \notin Live => buf[g] = <<>>)
      OBVIOUS
    <2>1. disk[g] \in Texts /\ buf[g] \in Texts
      BY DEF IInv, Types
    <2>2. disk[g] \o buf[g] = <<>> <=> disk[g] = <<>> /\ buf[g] = <<>>
      BY <2>1, ConcatEqualIffEmpty DEF Texts
    <2> QED
      BY <1>1, <2>1, <2>2 DEF FileOk, Kept
  <1>5. CASE OpenFile /\ UNCHANGED <<at, locals>>
    <2>0. PICK f : f = Order[Len(writers) + 1]
      OBVIOUS
    <2>1. /\ disk' = [disk EXCEPT ![f] = <<>>] /\ writers' = Append(writers, f)
          /\ UNCHANGED <<buf, stream, failed, putting>> /\ Len(writers) < 3
      BY <1>5, <2>0 DEF OpenFile
    <2>2. /\ f \in Files /\ f \notin Live /\ writers' \in OpeningFiles
          /\ ToSet(writers') = ToSet(writers) \cup {f}
      BY <1>1, <1>2, <2>0, <2>1, OpenedNext
    <2>3. Live' = Live \cup {f} /\ disk'[f] = <<>>
      BY <1>1, <1>2, <1>5, <2>1, <2>2 DEF Live, IInv, Types
    <2>4. Types'
      BY <1>3, <2>1 DEF IInv, Types
    <2>5. FileOk(f)'
      <3>1. stream'[f] = <<>> /\ buf'[f] = <<>> /\ f \in Live'
        BY <1>1, <1>4, <2>1, <2>2, <2>3
      <3> QED
        BY <2>2, <2>3, <3>1, NoRows
    <2>6. ASSUME NEW g \in Files \ {f} PROVE FileOk(g)'
      <3>1. disk'[g] = disk[g]
        BY <2>1 DEF IInv, Types
      <3> QED
        BY <1>1, <1>5, <2>1, <2>3, <3>1, OtherFile
    <2>7. Placed' /\ Masked' /\ Rowed'
      BY <1>1, <1>5, <2>1, <2>2
         DEF IInv, Placed, Masked, Rowed, BeforeState, WithFiles, InLoop, Dropping, runVars
    <2>8. FileInv'
      <3>1. \A g \in Files : FileOk(g)'
        BY <2>5, <2>6
      <3> QED
        BY <3>1 DEF FileInv, FileOk
    <2> QED
      BY <2>4, <2>7, <2>8 DEF IInv
  <1>6. CASE OpenFails /\ at' = "panicking" /\ UNCHANGED locals
    <2>1. writers' = <<>> /\ UNCHANGED <<disk, buf, stream, failed, putting>>
      BY <1>6 DEF OpenFails
    <2>2. Live' = {}
      BY <1>6, <2>1, FileNames DEF Live
    <2>3. ASSUME NEW g \in Files PROVE FileOk(g)'
      <3>1. stream'[g] = <<>> /\ buf'[g] = <<>>
        BY <1>1, <1>4, <2>1
      <3> QED
        BY <2>2, <3>1, NoRows
    <2>4. Placed' /\ Masked' /\ Rowed'
      BY <1>1, <1>6, <2>1, LocalTuples
         DEF IInv, Placed, Masked, Rowed, BeforeState, WithFiles, InLoop, Dropping, runVars,
             ClosingFiles
    <2> QED
      BY <2>1, <2>3, <2>4 DEF IInv, Types, FileInv, FileOk
  <1>7. CASE WriteHeaders /\ at' = "state" /\ locals' = Append(locals, "state")
    <2>1. /\ buf' = [f \in Files |-> Header] /\ stream' = [f \in Files |-> Header]
          /\ UNCHANGED <<disk, failed, putting, writers>> /\ writers = Order
      BY <1>1, <1>7, OpenedNext DEF WriteHeaders
    <2>2. /\ Header \in Texts /\ Len(Header) = 2 /\ Header # <<>>
          /\ Header[1] = Piece(0, FALSE) /\ Header[2] = Piece(0, TRUE)
      <3>1. Piece(0, FALSE) \in Pieces /\ Piece(0, TRUE) \in Pieces
        BY DEF Piece, Pieces
      <3> QED
        BY <3>1, TwoPieces DEF Header
    <2>3. Live = Files /\ Live' = Files
      BY <1>2, <1>7, <2>1, FileNames DEF Live
    <2>4. ASSUME NEW g \in Files PROVE FileOk(g)'
      <3>1. /\ stream'[g] = Header /\ buf'[g] = Header /\ disk'[g] = <<>> /\ failed'[g] = {}
        BY <1>1, <1>4, <2>1, <2>3
      <3>2. <<>> \o Header = Header
        BY <2>2, ConcatEmptySeq DEF Texts
      <3>3. InOrder(Header, {})
        <4>1. Follows(Header[1], Header[1 + 1], {})
          BY <2>2 DEF Piece, Follows
        <4>2. 1 .. Len(Header) - 1 = {1}
          BY <2>2
        <4> QED
          BY <4>1, <4>2 DEF InOrder
      <3>4. Kept(g)' /\ Missing(g)'
        BY <2>3, <3>1, <3>2 DEF Kept, Missing
      <3>5. EndsIn(g)'
        <4>1. Header[Len(Header)].last
          BY <2>2 DEF Piece
        <4>2. putting' = {}
          BY <1>1, <2>1
        <4> QED
          BY <3>1, <4>1, <4>2 DEF EndsIn
      <3>6. HasLast(g)'
        <4>1. Rows(g)' = RowsOf(Header) \cup {}
          BY <2>2, <3>1, RowsAre DEF Rows
        <4>2. RowsOf(Header) = {0}
          BY <2>2 DEF RowsOf, Piece
        <4> QED
          BY <4>1, <4>2 DEF HasLast
      <3> QED
        BY <3>1, <3>3, <3>4, <3>5, <3>6 DEF FileOk
    <2>5. Types'
      BY <2>1, <2>2 DEF IInv, Types
    <2>6. Placed' /\ Masked' /\ Rowed'
      BY <1>1, <1>7, <2>1, <2>2, LocalTuples
         DEF IInv, Placed, Masked, Rowed, BeforeState, WithFiles, InLoop, Dropping, runVars, Owned
    <2> QED
      BY <2>4, <2>5, <2>6 DEF IInv, FileInv, FileOk
  <1> QED
    BY <1>5, <1>6, <1>7 DEF NewState

\* A panic leaves everything as it is, for the drops.
LEMMA PanicKeeps ==
    ASSUME IInv, Panics, UNCHANGED <<csvVars, runVars>>,
           at \in {"start", "queue", "state", "blocked", "signalfd", "loop"}
    PROVE  IInv'
  <1>1. /\ at' = "panicking" /\ UNCHANGED <<locals, named, mask, writers, stream, failed, putting>>
        /\ UNCHANGED <<handled, killer>>
    BY DEF Panics, csvVars, runVars
  <1>2. Types' /\ FileInv'
    BY <1>1, SameFiles DEF IInv
  <1>3. Placed'
    <2>1. CASE BeforeState
      BY <1>1, <2>1 DEF IInv, Placed, BeforeState, WithFiles, InLoop, Dropping, ClosingFiles
    <2>2. CASE WithFiles
      BY <1>1, <2>2, LocalTuples
         DEF IInv, Placed, BeforeState, WithFiles, InLoop, Dropping, ClosingFiles
    <2> QED
      BY <2>1, <2>2 DEF BeforeState, WithFiles, InLoop
  <1>4. Masked' /\ Rowed'
    BY <1>1 DEF IInv, Masked, Rowed, BeforeState, WithFiles, InLoop
  <1> QED
    BY <1>2, <1>3, <1>4 DEF IInv

\* The queue, the events, the mask, the signalfd and the timer.
LEMMA SetUpKeeps == IInv /\ SetUp => IInv'
  <1> SUFFICES ASSUME IInv, SetUp PROVE IInv'
    OBVIOUS
  <1> USE LocalTuples
  <1>1. CASE OpenQueue
    <2>1. CASE Panics
      BY <1>1, <2>1, PanicKeeps DEF OpenQueue
    <2>2. CASE at' = "queue"
      <3>1. /\ at = "start" /\ locals' = WithQueue /\ named' = TRUE
            /\ UNCHANGED csvVars /\ UNCHANGED <<mask, handled, killer>>
            /\ UNCHANGED <<writers, stream, failed, putting>>
        BY <1>1, <2>2 DEF OpenQueue, Panics, WithQueue, runVars, csvVars
      <3>2. Types' /\ FileInv'
        BY <2>2, <3>1, SameFiles DEF IInv
      <3>3. Placed' /\ Masked' /\ Rowed'
        BY <2>2, <3>1 DEF IInv, Placed, Masked, Rowed, BeforeState, WithFiles, InLoop, Dropping,
                          Owned
      <3> QED
        BY <3>2, <3>3 DEF IInv
    <2> QED
      BY <1>1, <2>1, <2>2 DEF OpenQueue
  <1>2. CASE ParseEvents
    <2>1. CASE Panics
      BY <1>2, <2>1, PanicKeeps DEF ParseEvents
    <2>2. CASE at' = "events"
      <3>1. /\ at = "queue" /\ UNCHANGED <<locals, named>>
            /\ UNCHANGED csvVars /\ UNCHANGED <<mask, handled, killer>>
            /\ UNCHANGED <<writers, stream, failed, putting>>
        BY <1>2, <2>2 DEF ParseEvents, Panics, runVars, csvVars
      <3>2. Types' /\ FileInv'
        BY <2>2, <3>1, SameFiles DEF IInv
      <3>3. Placed' /\ Masked' /\ Rowed'
        BY <2>2, <3>1 DEF IInv, Placed, Masked, Rowed, BeforeState, WithFiles, InLoop, Dropping,
                          OpeningFiles
      <3> QED
        BY <3>2, <3>3 DEF IInv
    <2> QED
      BY <1>2, <2>1, <2>2 DEF ParseEvents
  <1>3. CASE Block
    <2>1. CASE Panics
      BY <1>3, <2>1, PanicKeeps DEF Block
    <2>2. CASE at' = "blocked"
      <3>1. /\ at = "state" /\ UNCHANGED <<locals, named>> /\ mask' = mask \cup {"SIGINT"}
            /\ UNCHANGED csvVars /\ UNCHANGED <<handled, killer>>
            /\ UNCHANGED <<writers, stream, failed, putting>>
        BY <1>3, <2>2 DEF Block, Panics, get_mask, CloseSignals, runVars, csvVars
      <3>2. Types' /\ FileInv'
        BY <2>2, <3>1, SameFiles DEF IInv
      <3>3. Placed' /\ Masked' /\ Rowed'
        BY <2>2, <3>1 DEF IInv, Placed, Masked, Rowed, BeforeState, WithFiles, InLoop, Dropping
      <3> QED
        BY <3>2, <3>3 DEF IInv
    <2> QED
      BY <1>3, <2>1, <2>2 DEF Block
  <1>4. CASE NewSignalFD
    <2>1. CASE Panics
      BY <1>4, <2>1, PanicKeeps DEF NewSignalFD
    <2>2. CASE at' = "signalfd"
      <3>1. /\ at = "blocked" /\ locals' = Append(locals, "signal_fd") /\ UNCHANGED <<named, mask>>
            /\ UNCHANGED csvVars /\ UNCHANGED <<handled, killer>>
            /\ UNCHANGED <<writers, stream, failed, putting>>
        BY <1>4, <2>2 DEF NewSignalFD, Panics, runVars, csvVars
      <3>2. Types' /\ FileInv'
        BY <2>2, <3>1, SameFiles DEF IInv
      <3>3. Placed' /\ Masked' /\ Rowed'
        BY <2>2, <3>1 DEF IInv, Placed, Masked, Rowed, BeforeState, WithFiles, InLoop, Dropping,
                          Owned
      <3> QED
        BY <3>2, <3>3 DEF IInv
    <2> QED
      BY <1>4, <2>1, <2>2 DEF NewSignalFD
  <1>5. CASE Register
    <2>1. CASE Panics
      BY <1>5, <2>1, PanicKeeps DEF Register
    <2>2. CASE at' = "loop"
      <3>1. /\ at = "signalfd" /\ locals' \in {locals, Append(locals, "flush_timer")}
            /\ UNCHANGED <<named, mask>>
            /\ UNCHANGED csvVars /\ UNCHANGED <<handled, killer>>
            /\ UNCHANGED <<writers, stream, failed, putting>>
        BY <1>5, <2>2 DEF Register, Panics, runVars, csvVars
      <3>2. Types' /\ FileInv'
        BY <2>2, <3>1, SameFiles DEF IInv
      <3>3. locals' \in {WithSignals, WithTimer}
        BY <3>1 DEF IInv, Placed
      <3>4. Placed' /\ Masked' /\ Rowed'
        BY <2>2, <3>1, <3>3
           DEF IInv, Placed, Masked, Rowed, BeforeState, WithFiles, InLoop, Dropping, Owned
      <3> QED
        BY <3>2, <3>4 DEF IInv
    <2> QED
      BY <1>5, <2>1, <2>2 DEF Register
  <1> QED
    BY <1>1, <1>2, <1>3, <1>4, <1>5, NewStateKeeps DEF SetUp

\* The steps of the loop that do not touch the files.
LEMMA LoopKeeps ==
    IInv /\ (HandleSignal \/ HandleEvent \/ HandlerReturns \/ LoopFails \/ FinalFlush) => IInv'
  <1> SUFFICES ASSUME IInv,
                      HandleSignal \/ HandleEvent \/ HandlerReturns \/ LoopFails \/ FinalFlush
               PROVE  IInv'
    OBVIOUS
  <1>1. CASE LoopFails
    BY <1>1, PanicKeeps DEF LoopFails
  <1>2. CASE HandleSignal \/ HandleEvent \/ HandlerReturns \/ FinalFlush
    <2>1. /\ UNCHANGED csvVars /\ UNCHANGED <<locals, named, mask, killer>> /\ InLoop
          /\ at' \in {"loop", "handler", "flush", "returning"}
          /\ at' = "returning" => putting = {}
          /\ at' = "loop" => putting = {}
          /\ UNCHANGED <<writers, stream, failed, putting>>
      BY <1>2 DEF HandleSignal, HandleEvent, HandlerReturns, FinalFlush, signalVars, csvVars, InLoop
    <2>2. Types' /\ FileInv'
      BY <2>1, SameFiles DEF IInv, InLoop
    <2>3. Placed'
      BY <2>1, LocalTuples
         DEF IInv, Placed, BeforeState, WithFiles, InLoop, Dropping, ClosingFiles
    <2>4. Masked' /\ Rowed'
      BY <2>1 DEF IInv, Masked, Rowed, BeforeState, WithFiles, InLoop
    <2> QED
      BY <2>2, <2>3, <2>4 DEF IInv
  <1> QED
    BY <1>1, <1>2

\* The rows of a handler or of the last flush.
LEMMA WriteRowsKeeps == IInv /\ WriteRows => IInv'
  <1> SUFFICES ASSUME IInv, WriteRows PROVE IInv'
    OBVIOUS
  <1>1. /\ at \in {"handler", "flush"} /\ CsvRow
        /\ UNCHANGED <<at, locals, named, mask, handled, killer>>
    BY DEF WriteRows, signalVars
  <1>2. writers' = writers
    BY <1>1 DEF CsvRow, write_row, row_refused, end_row, row_cut
  <1>3. writers = Order
    BY <1>1 DEF IInv, Placed, WithFiles, InLoop
  <1>4. Types' /\ FileInv' /\ Rowed'
    <2>1. Writing
      BY <1>1, <1>2, <1>3 DEF IInv, Writing
    <2> QED
      BY <1>1, <2>1, RowKeeps
  <1>5. Placed' /\ Masked'
    BY <1>1, <1>2 DEF IInv, Placed, Masked, BeforeState, WithFiles, InLoop, Dropping
  <1> QED
    BY <1>4, <1>5 DEF IInv

\* The drop of a file writes out what it can of the buffer; the rows of the rest
\* have failed.
LEMMA DropStateKeeps == IInv /\ DropState => IInv'
  <1> SUFFICES ASSUME IInv, DropState PROVE IInv'
    OBVIOUS
  <1>0. PICK f : f = Head(writers)
    OBVIOUS
  <1>1. /\ Dropping /\ writers # <<>> /\ writers' = Tail(writers)
        /\ UNCHANGED <<stream, putting>>
        /\ UNCHANGED <<at, locals, named, mask, handled, killer>>
    BY DEF DropState, DropFile, signalVars
  <1>2. /\ writers \in ClosingFiles /\ putting = {} /\ at # "killed"
        /\ locals \notin {<<>>, WithQueue}
    BY <1>1 DEF IInv, Placed, Rowed, Dropping
  <1>3. /\ f \in Files /\ f \in ToSet(writers) /\ writers' \in ClosingFiles
        /\ ToSet(writers') = ToSet(writers) \ {f}
    BY <1>0, <1>1, <1>2, ClosedNext
  <1>4. Live = ToSet(writers) /\ Live' = Live \ {f}
    BY <1>1, <1>2, <1>3 DEF Live
  <1>5. PICK n \in 0 .. Len(buf[Head(writers)]) :
           /\ n = Len(buf[Head(writers)]) \/ "write" \in Faults
           /\ disk' = [disk EXCEPT ![Head(writers)] = @ \o SubSeq(buf[Head(writers)], 1, n)]
           /\ failed' = [failed EXCEPT ![Head(writers)] =
                            @ \cup {buf[Head(writers)][m].row :
                                    m \in n + 1 .. Len(buf[Head(writers)])}]
           /\ buf' = [buf EXCEPT ![Head(writers)] = <<>>]
    BY Zenon DEF DropState, DropFile
  <1>6. PICK d, b, s, F : d = disk[f] /\ b = buf[f] /\ s = stream[f] /\ F = failed[f]
    OBVIOUS
  <1>7. /\ d \in Texts /\ b \in Texts /\ s \in Texts /\ F \subseteq Int
        /\ FileOk(f) /\ s = d \o b /\ InOrder(s, F)
    BY <1>3, <1>4, <1>6 DEF IInv, Types, FileInv, FileOk, Kept
  <1>8. PICK lost : lost = {b[m].row : m \in n + 1 .. Len(b)}
    OBVIOUS
  <1>9. /\ disk'[f] = d \o SubSeq(b, 1, n) /\ failed'[f] = F \cup lost /\ buf'[f] = <<>>
        /\ \A g \in Files \ {f} :
              disk'[g] = disk[g] /\ buf'[g] = buf[g] /\ failed'[g] = failed[g]
    BY <1>0, <1>3, <1>5, <1>6, <1>8 DEF IInv, Types
  <1>10. /\ d \o SubSeq(b, 1, n) \in Texts /\ Len(d \o SubSeq(b, 1, n)) = Len(d) + n
         /\ Beginning(d \o SubSeq(b, 1, n), s)
    <2>1. n \in 0 .. Len(b)
      BY <1>0, <1>5, <1>6
    <2> QED
      BY <1>7, <2>1, MoveText
  <1>11. /\ Len(d) \in Nat /\ Len(b) \in Nat /\ Len(s) = Len(d) + Len(b)
         /\ \A i \in 1 .. Len(s) : s[i] = IF i <= Len(d) THEN d[i] ELSE b[i - Len(d)]
         /\ \A i \in 1 .. Len(s) : s[i] \in Pieces
    <2>1. Len(d) \in Nat /\ Len(b) \in Nat /\ \A i \in 1 .. Len(s) : s[i] \in Pieces
      BY <1>7 DEF Texts
    <2>2. /\ Len(d \o b) = Len(d) + Len(b)
          /\ \A i \in 1 .. Len(d) + Len(b) :
                (d \o b)[i] = IF i <= Len(d) THEN d[i] ELSE b[i - Len(d)]
      BY <1>7, ConcatTexts
    <2> QED
      BY <1>7, <2>1, <2>2
  <1>12. n \in 0 .. Len(b)
    BY <1>0, <1>5, <1>6
  <1>13. lost \subseteq RowsOf(s) /\ lost \subseteq Int
    <2>1. ASSUME NEW m \in n + 1 .. Len(b) PROVE b[m].row \in RowsOf(s) /\ b[m].row \in Int
      <3>1. PICK i \in 1 .. Len(s) : i = Len(d) + m
        BY <1>11, <1>12
      <3>2. s[i] = b[m]
        BY <1>11, <1>12, <3>1
      <3> QED
        BY <1>11, <3>1, <3>2 DEF RowsOf, Pieces
    <2> QED
      BY <1>8, <2>1
  <1>14. Types'
    <2>1. <<>> \in Texts
      BY DEF Texts
    <2>2. F \cup lost \in SUBSET Int
      BY <1>7, <1>13
    <2> QED
      BY <1>0, <1>1, <1>3, <1>5, <1>6, <1>8, <1>10, <1>12, <2>1, <2>2 DEF IInv, Types
  <1>15. FileOk(f)'
    <2>0. f \notin Live' /\ stream'[f] = s
      BY <1>1, <1>4, <1>6
    <2>1. Kept(f)'
      BY <1>9, <1>10, <2>0 DEF Kept
    <2>2. Missing(f)'
      <3>1. ASSUME NEW i \in 1 .. Len(s)
            PROVE  s[i].row \in F \cup lost \/ i <= Len(d) + n
        <4>1. CASE i <= Len(d) + n
          BY <4>1
        <4>2. CASE ~(i <= Len(d) + n)
          <5>1. PICK m \in n + 1 .. Len(b) : m = i - Len(d)
            BY <1>11, <1>12, <4>2
          <5>2. s[i] = b[m]
            BY <1>11, <1>12, <4>2, <5>1
          <5> QED
            BY <1>8, <5>2
        <4> QED
          BY <4>1, <4>2
      <3>2. Len(disk'[f]) = Len(d) + n
        BY <1>9, <1>10
      <3> QED
        BY <1>9, <2>0, <3>1, <3>2 DEF Missing
    <2>3. InOrder(stream'[f], failed'[f])
      <3>1. InOrder(s, F \cup lost)
        BY <1>7, OrderKept
      <3> QED
        BY <1>9, <2>0, <3>1
    <2>4. EndsIn(f)'
      <3>1. s # <<>> => s[Len(s)].last \/ s[Len(s)].row \in F
        BY <1>2, <1>6, <1>7 DEF FileOk, EndsIn
      <3> QED
        BY <1>1, <1>2, <1>9, <2>0, <3>1 DEF EndsIn
    <2>5. HasLast(f)'
      <3>1. Rows(f) = RowsOf(s) \cup F /\ Rows(f)' = RowsOf(s) \cup (F \cup lost)
        <4>1. RowsOf(s) = ToSet([i \in DOMAIN s |-> s[i].row])
          BY <1>7, RowsAre
        <4>2. Rows(f) = ToSet([i \in DOMAIN s |-> s[i].row]) \cup F
          BY <1>6 DEF Rows
        <4>3. Rows(f)' = ToSet([i \in DOMAIN s |-> s[i].row]) \cup (F \cup lost)
          BY <1>9, <2>0 DEF Rows
        <4> QED
          BY <4>1, <4>2, <4>3
      <3>2. Rows(f)' = Rows(f)
        BY <1>13, <3>1
      <3> QED
        BY <1>6, <1>7, <2>0, <3>2 DEF FileOk, HasLast
    <2> QED
      BY <2>1, <2>2, <2>3, <2>4, <2>5 DEF FileOk
  <1>16. ASSUME NEW g \in Files \ {f} PROVE FileOk(g)'
    <2>1. FileOk(g) /\ stream'[g] = stream[g] /\ (g \in Live' <=> g \in Live)
      BY <1>1, <1>4 DEF IInv, FileInv, FileOk
    <2> QED
      BY <1>1, <1>9, <2>1, OtherFile
  <1>17. FileInv'
    <2>1. \A g \in Files : FileOk(g)'
      BY <1>15, <1>16
    <2> QED
      BY <2>1 DEF FileInv, FileOk
  <1>18. Placed' /\ Masked' /\ Rowed'
    BY <1>1, <1>2, <1>3
       DEF IInv, Placed, Masked, Rowed, BeforeState, WithFiles, InLoop, Dropping
  <1> QED
    BY <1>14, <1>17, <1>18 DEF IInv

\* The drop of a local, and the end of main.
LEMMA DropKeeps == IInv /\ (Drop \/ End) => IInv'
  <1> SUFFICES ASSUME IInv, Drop \/ End PROVE IInv'
    OBVIOUS
  <1>1. /\ Dropping /\ UNCHANGED csvVars /\ UNCHANGED <<mask, handled, killer>>
        /\ at' = at \/ at' = "ended"
        /\ UNCHANGED <<writers, stream, failed, putting>>
    BY DEF Drop, End, csvVars, runVars, signalVars
  <1>2. Types' /\ FileInv'
    BY <1>1, SameFiles DEF IInv, Dropping
  <1>3. Masked' /\ Rowed'
    BY <1>1 DEF IInv, Masked, Rowed, BeforeState, WithFiles, InLoop, Dropping
  <1>4. CASE Drop
    <2>1. /\ locals # <<>> /\ locals' = Front(locals) /\ at' = at
          /\ named' = (named /\ Last(locals) # "mq")
          /\ Last(locals) = "state" => writers = <<>>
      BY <1>4 DEF Drop, DropOf
    <2>2. locals \in {WithQueue, WithState, WithSignals, WithTimer} /\ named
      BY <2>1 DEF IInv, Placed, Owned
    <2>3. locals' \in Owned /\ named' = (locals' # <<>>)
      BY <2>1, <2>2, LocalTuples DEF Owned
    <2>4. locals' \in {<<>>, WithQueue} => writers = <<>>
      BY <1>1, <2>1, <2>2, LocalTuples DEF IInv, Placed
    <2>5. Placed'
      BY <1>1, <2>1, <2>3, <2>4
         DEF IInv, Placed, BeforeState, WithFiles, InLoop, Dropping
    <2> QED
      BY <1>2, <1>3, <2>5 DEF IInv
  <1>5. CASE End
    <2>1. locals = <<>> /\ at' = "ended" /\ UNCHANGED <<locals, named>>
      BY <1>5 DEF End
    <2>2. Placed'
      BY <1>1, <2>1 DEF IInv, Placed, BeforeState, WithFiles, InLoop, Dropping
    <2> QED
      BY <1>2, <1>3, <2>2 DEF IInv
  <1> QED
    BY <1>4, <1>5

\* A signal is pending, or kills the process and its buffers.
LEMMA SignalKeeps ==
    ASSUME IInv, NEW s \in Signals, SendSignal(s)
    PROVE  IInv'
  <1>1. UNCHANGED <<locals, named, handled, mask>> /\ at \notin {"ended", "killed"}
    BY DEF SendSignal
  <1>2. CASE s \in mask
    <2>1. UNCHANGED csvVars /\ UNCHANGED <<at, killer>>
          /\ UNCHANGED <<writers, stream, failed, putting>>
      BY <1>2 DEF SendSignal, csvVars
    <2>2. Types' /\ FileInv'
      BY <2>1, SameFiles DEF IInv
    <2> QED
      BY <1>1, <2>1, <2>2
         DEF IInv, Placed, Masked, Rowed, BeforeState, WithFiles, InLoop, Dropping
  <1>3. CASE s \notin mask
    <2>1. /\ at' = "killed" /\ killer' = {s}
          /\ buf' = [f \in Files |-> <<>>]
          /\ UNCHANGED <<disk, stream, failed, putting, writers>>
      BY <1>3 DEF SendSignal, BuffersLost
    <2>2. Types'
      <3>1. <<>> \in Texts
        BY DEF Texts
      <3> QED
        BY <2>1, <3>1 DEF IInv, Types
    <2>3. ASSUME NEW g \in Files PROVE FileOk(g)'
      <3>1. FileOk(g) /\ disk[g] \in Texts /\ buf[g] \in Texts
        BY DEF IInv, Types, FileInv, FileOk
      <3>2. g \in Live => Beginning(disk[g], stream[g])
        BY <3>1, BeginningOf DEF FileOk, Kept
      <3>3. Live' = {} /\ buf'[g] = <<>>
        BY <2>1 DEF Live
      <3>4. Kept(g)' /\ Missing(g)'
        BY <2>1, <3>1, <3>2, <3>3 DEF FileOk, Kept, Missing
      <3>5. InOrder(stream'[g], failed'[g]) /\ EndsIn(g)'
        BY <2>1, <3>1 DEF FileOk, EndsIn
      <3>6. HasLast(g)'
        <4>1. Rows(g)' = Rows(g)
          BY <2>1 DEF Rows
        <4> QED
          BY <2>1, <3>1, <4>1 DEF FileOk, HasLast
      <3> QED
        BY <3>4, <3>5, <3>6 DEF FileOk
    <2>4. FileInv'
      BY <2>3 DEF FileInv, FileOk
    <2>5. Placed' /\ Masked' /\ Rowed'
      BY <1>1, <1>3, <2>1
         DEF IInv, Placed, Masked, Rowed, BeforeState, WithFiles, InLoop, Dropping
    <2> QED
      BY <2>2, <2>4, <2>5 DEF IInv
  <1> QED
    BY <1>2, <1>3

\* Every step keeps the invariant.
LEMMA NextIInv == IInv /\ [Next]_vars => IInv'
  <1> SUFFICES ASSUME IInv, [Next]_vars PROVE IInv'
    OBVIOUS
  <1>1. CASE UNCHANGED vars
    <2>1. /\ UNCHANGED csvVars /\ UNCHANGED <<at, locals, named, handled, mask, killer>>
          /\ UNCHANGED <<writers, stream, failed, putting>>
      BY <1>1 DEF vars, csvVars, signalVars
    <2>2. Types' /\ FileInv'
      BY <2>1, SameFiles DEF IInv
    <2> QED
      BY <2>1, <2>2 DEF IInv, Placed, Masked, Rowed, BeforeState, WithFiles, InLoop, Dropping
  <1> QED
    BY <1>1, SetUpKeeps, LoopKeeps, WriteRowsKeeps, DropStateKeeps, DropKeeps, SignalKeeps
       DEF Next, Handler, Ending

\* The invariant always holds.
LEMMA Invariant == FairSpec => []IInv
  BY InitIInv, NextIInv, PTL DEF FairSpec

-----------------------------------------------------------------------------
(* What it says.                                                           *)

\* A beginning in the sense of the library.
LEMMA BeginningIsPrefix ==
    ASSUME NEW d \in Texts, NEW s \in Texts, Beginning(d, s)
    PROVE  IsPrefix(d, s)
  <1>1. Len(d) \in Nat /\ Len(s) \in Nat /\ Len(d) <= Len(s)
        /\ \A n \in 1 .. Len(d) : d[n] = s[n]
    BY DEF Texts, Beginning
  <1>2. PICK u : u = SubSeq(s, 1, Len(d))
    OBVIOUS
  <1>3. u \in Seq(Pieces) /\ Len(u) = Len(d) /\ \A n \in 1 .. Len(d) : u[n] = s[n]
    <2>1. \A n \in 1 .. Len(d) : s[n] \in Pieces
      BY <1>1 DEF Texts
    <2> QED
      BY <1>1, <1>2, <2>1, SubSeqProperties
  <1>4. u = d
    BY <1>1, <1>3, SeqEqual DEF Texts
  <1> QED
    BY <1>1, <1>2, <1>4 DEF IsPrefix

\* A beginning of a text in order is in order.
LEMMA BeginningInOrder ==
    ASSUME NEW t \in Texts, NEW s \in Texts, NEW F, Beginning(t, s), InOrder(s, F)
    PROVE  InOrder(t, F)
  <1>1. Len(t) \in Nat /\ Len(s) \in Nat
    BY DEF Texts
  <1>2. ASSUME NEW n \in 1 .. Len(t) - 1 PROVE Follows(t[n], t[n + 1], F)
    <2>1. n \in 1 .. Len(s) - 1 /\ t[n] = s[n] /\ t[n + 1] = s[n + 1]
      BY <1>1 DEF Beginning
    <2> QED
      BY <2>1 DEF InOrder
  <1> QED
    BY <1>2 DEF InOrder

\* Each file is a beginning of what was accepted for it, at every moment, in a
\* kill and after writes that failed half-way (csv_writer.rs:14-37, truncate and
\* the BufWriters).
THEOREM BeginningsAlways == FairSpec => []FilesAreBeginnings
  <1>1. IInv => FilesAreBeginnings
    <2> SUFFICES ASSUME IInv, NEW f \in Files, Opened(f) PROVE IsPrefix(disk[f], stream[f])
      BY DEF FilesAreBeginnings
    <2>1. disk[f] \in Texts /\ buf[f] \in Texts /\ stream[f] \in Texts /\ Kept(f)
      BY DEF IInv, Types, FileInv, FileOk
    <2>2. Beginning(disk[f], stream[f])
      BY <2>1, BeginningOf DEF Opened, Kept
    <2> QED
      BY <2>1, <2>2, BeginningIsPrefix
  <1> QED
    BY <1>1, Invariant, PTL

\* Rows keep their order, and a line is torn only at a row whose writeln! failed
\* (state.rs:69, 73).
THEOREM TornByFailureOnly == FairSpec => []TornOnlyByFailure
  <1>1. IInv => TornOnlyByFailure
    <2> SUFFICES ASSUME IInv, NEW f \in Files, Opened(f)
                 PROVE  InOrder(disk[f] \o buf[f], failed[f])
      BY DEF TornOnlyByFailure, InOrder, Follows
    <2>1. /\ disk[f] \in Texts /\ buf[f] \in Texts /\ stream[f] \in Texts
          /\ Kept(f) /\ InOrder(stream[f], failed[f])
      BY DEF IInv, Types, FileInv, FileOk
    <2>2. CASE f \in Live
      BY <2>1, <2>2 DEF Kept
    <2>3. CASE f \notin Live
      <3>1. buf[f] = <<>> /\ Beginning(disk[f], stream[f])
        BY <2>1, <2>3 DEF Kept, Opened
      <3>2. disk[f] \o buf[f] = disk[f]
        BY <2>1, <3>1, ConcatEmptySeq DEF Texts
      <3> QED
        BY <2>1, <3>1, <3>2, BeginningInOrder
    <2> QED
      BY <2>2, <2>3
  <1> QED
    BY <1>1, Invariant, PTL

\* SIGINT kills only before the first message is handled (main.rs:45, 82).
THEOREM InterruptKeepsCounts == FairSpec => []InterruptLosesNothing
  <1>1. IInv => InterruptLosesNothing
    BY DEF IInv, Masked, InterruptLosesNothing
  <1> QED
    BY <1>1, Invariant, PTL

\* An end that is not a kill takes the queue's name away and leaves in the files
\* every row whose write did not fail (mqueue/src/lib.rs:108, main.rs:38-86).
THEOREM EndsInOrder == FairSpec => []OrderlyEnd
  <1>1. IInv => OrderlyEnd
    <2> SUFFICES ASSUME IInv, at = "ended" PROVE OrderlyEnd
      BY DEF OrderlyEnd
    <2>1. writers = <<>> /\ ~named
      BY DEF IInv, Placed
    <2>2. Live = {}
      BY <2>1, FileNames DEF Live
    <2>3. ASSUME NEW f \in Files, NEW n \in DOMAIN stream[f]
          PROVE  stream[f][n].row \in failed[f] \/ n <= Len(disk[f])
      <3>1. Missing(f) /\ DOMAIN stream[f] = 1 .. Len(stream[f])
        BY DEF IInv, FileInv, FileOk, Types, Texts
      <3> QED
        BY <2>2, <3>1 DEF Missing
    <2> QED
      BY <2>1, <2>3 DEF OrderlyEnd
  <1> QED
    BY <1>1, Invariant, PTL

\* While rows are only in memory the queue has its name (the drop order of
\* main's locals, main.rs:38-86).
THEOREM NamedUntilWritten == FairSpec => []NamedWhileWriting
  <1>1. IInv => NamedWhileWriting
    <2> SUFFICES ASSUME IInv, NEW f \in Files, buf[f] # <<>> PROVE named
      BY DEF NamedWhileWriting
    <2>1. f \in Live
      BY DEF IInv, FileInv, FileOk, Kept
    <2>2. at # "killed" /\ writers # <<>>
      BY <2>1, FileNames DEF Live
    <2> QED
      BY <2>2, LocalTuples DEF IInv, Placed, BeforeState, WithFiles, InLoop, Dropping
  <1> QED
    BY <1>1, Invariant, PTL
=============================================================================
