---------------------------- MODULE ParseGroups ----------------------------
(***************************************************************************)
(* parse_event_groups: the event arguments of the command line, joined     *)
(* with commas by main, to groups of events.  One step is one turn of the  *)
(* parser's loop; the events of a turn are encoded by libpfm in it.        *)
(*                                                                         *)
(* Grouped says which groups a text stands for without scanning it; the    *)
(* parser is compared with it on every text of at most MaxLen characters,  *)
(* and ParseGroupsProofs proves that they agree on texts of any length.    *)
(***************************************************************************)
EXTENDS Integers, Sequences, FiniteSetsExt

CONSTANT MaxLen   \* bound: length of the text

ASSUME ParseAssumption == MaxLen \in Nat

VARIABLES
    s,        \* event_string
    i,        \* where the parser is in it
    groups,   \* the groups so far
    pfm,      \* the static PFM: libpfm is initialized at the first event
    result    \* "parsing", "ok" or "error"

vars == <<s, i, groups, pfm, result>>

\* One letter is enough: names of different lengths are different events.
Chars == {"a", " ", ",", "[", "]"}
Texts == UNION {[1 .. n -> Chars] : n \in 0 .. MaxLen}

Init ==
    /\ s \in Texts
    /\ i = 1
    /\ groups = <<>>
    /\ pfm = "unset"
    /\ result = "parsing"

\* The first position from n on with a character of C, at most the position e.
ScanTo(n, e, C) == Min({m \in n .. e : m = e \/ s[m] \in C})

trim(w) ==
    LET kept == {n \in DOMAIN w : w[n] # " "}
    IN  IF kept = {} THEN <<>> ELSE SubSeq(w, Min(kept), Max(kept))

\* The positions of S from the first to the last.
Listing(S) ==
    CHOOSE order \in [1 .. Cardinality(S) -> S] :
        \A m, n \in DOMAIN order : m < n => order[m] < order[n]

\* The piece that starts at p, up to a comma or the position e.
PieceAt(p, e) == trim(SubSeq(s, p, ScanTo(p, e, {","}) - 1))

\* What is left of the pieces between the commas of a .. e - 1: trimmed, and
\* not empty.
SplitEvents(a, e) ==
    LET starts == Listing({p \in a .. e - 1 :
                            /\ p = a \/ s[p - 1] = ","
                            /\ PieceAt(p, e) # <<>>})
    IN  [n \in DOMAIN starts |-> PieceAt(starts[n], e)]

\* libpfm knows the names made of letters.
Encodes(e) == \A n \in DOMAIN e : e[n] = "a"

\* MaybeNonEmpty: nothing is made of an empty collection.
into_option(events) == IF events = <<>> THEN <<>> ELSE <<events>>

\* The events of one turn through from_pfm_string: the first use initializes
\* libpfm, for better or for worse; an event it does not know ends the parsing.
from_pfm_string(events) ==
    /\ pfm' \in IF events # <<>> /\ pfm = "unset" THEN {"ready", "broken"} ELSE {pfm}
    /\ IF events # <<>> /\ (pfm' = "broken" \/ \E n \in DOMAIN events : ~Encodes(events[n]))
       THEN result' = "error" /\ UNCHANGED groups
       ELSE groups' = groups \o into_option(events) /\ UNCHANGED result

-----------------------------------------------------------------------------
\* Where the turn starts, past commas and white space.
Start == ScanTo(i, Len(s) + 1, Chars \ {",", " "})

\* Faulty variant: the closing bracket is not consumed.
Bracketed_NotClosed ==
    /\ result = "parsing" /\ Start <= Len(s) /\ s[Start] = "["
    /\ \E a \in {Start + 1} :
        /\ i' = ScanTo(a, Len(s) + 1, {"]"})
        /\ \E events \in {SplitEvents(a, i')} : from_pfm_string(events)
    /\ UNCHANGED s

\* "[...]" or "[..." up to the end of the text: one group.  (\E binds what is
\* computed, so that TLC computes it once.)
Bracketed ==
    /\ result = "parsing" /\ Start <= Len(s) /\ s[Start] = "["
    /\ \E a \in {Start + 1} : \E close \in {ScanTo(a, Len(s) + 1, {"]"})} :
        /\ i' = IF close <= Len(s) THEN close + 1 ELSE close
        /\ \E events \in {SplitEvents(a, close)} : from_pfm_string(events)
    /\ UNCHANGED s

\* Faulty variant: a closing bracket ends a name too.
Single_Stuck ==
    /\ result = "parsing" /\ Start <= Len(s) /\ s[Start] # "["
    /\ i' = ScanTo(Start, Len(s) + 1, {",", "[", "]"})
    /\ LET name == trim(SubSeq(s, Start, i' - 1)) IN
        from_pfm_string(IF name = <<>> THEN <<>> ELSE <<name>>)
    /\ UNCHANGED s

\* A name outside brackets: a group of its own.
Single ==
    /\ result = "parsing" /\ Start <= Len(s) /\ s[Start] # "["
    /\ i' = ScanTo(Start, Len(s) + 1, {",", "["})
    /\ LET name == trim(SubSeq(s, Start, i' - 1)) IN
        from_pfm_string(IF name = <<>> THEN <<>> ELSE <<name>>)
    /\ UNCHANGED s

End ==
    /\ result = "parsing" /\ Start > Len(s)
    /\ result' = "ok"
    /\ UNCHANGED <<s, i, groups, pfm>>

Next == Bracketed \/ Single \/ End

Spec == Init /\ [][Next]_vars /\ WF_vars(Next)

-----------------------------------------------------------------------------
(* The groups of a text.                                                   *)

\* The bracket that is open before position p of t, in a set.
Opener(t, p) ==
    LET open == {q \in 1 .. p - 1 : t[q] = "[" /\ \A r \in q + 1 .. p - 1 : t[r] # "]"}
    IN  IF open = {} THEN {} ELSE {Min(open)}

\* The characters that are not part of a name.
Structural(t, p) ==
    \/ t[p] = ","
    \/ t[p] = "[" /\ Opener(t, p) = {}
    \/ t[p] = "]" /\ Opener(t, p) # {}

\* The name that starts at p: the longest stretch between those.
NameAt(t, p) ==
    SubSeq(t, p, Min({q \in p .. Len(t) : q = Len(t) \/ Structural(t, q + 1)}))

\* Where the names start, blank ones aside.
Starts(t) ==
    {p \in DOMAIN t :
        /\ ~Structural(t, p)
        /\ p = 1 \/ Structural(t, p - 1)
        /\ trim(NameAt(t, p)) # <<>>}

\* Names under one open bracket belong together; others stand alone.
GroupOf(t, p) == IF Opener(t, p) = {} THEN p ELSE Min(Opener(t, p))

\* The names that start in P, and their groups, in the order of the text.
NamesOf(t, P) ==
    LET starts == Listing(P) IN [n \in DOMAIN starts |-> trim(NameAt(t, starts[n]))]

GroupsOf(t, P) ==
    LET keys == Listing({GroupOf(t, p) : p \in P})
    IN  [g \in DOMAIN keys |-> NamesOf(t, {p \in P : GroupOf(t, p) = keys[g]})]

Grouped(t) == GroupsOf(t, Starts(t))

\* "Top-level commas separate groups; [..] brackets group multiple events
\* together" (parse_perf.rs:39): accepted texts give the groups they stand for,
\* and a text is refused only for an event that cannot be encoded.
ParsesAsGrouped ==
    LET unknown == \E p \in Starts(s) : ~Encodes(trim(NameAt(s, p)))
    IN  /\ result = "ok" => groups = Grouped(s) /\ ~unknown
        /\ result = "error" => unknown \/ pfm = "broken"

\* The loop moves on in every turn, whatever the text (parse_perf.rs:45-89).
ParsingEnds == <>(result # "parsing")
=============================================================================
