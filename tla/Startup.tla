------------------------------ MODULE Startup ------------------------------
(***************************************************************************)
(* One run of main from its first line to the end of the process, with     *)
(* signals that arrive at any time: signals/src/lib.rs, the order in which *)
(* main.rs sets up and drops what it owns, and the three files (CsvWriter) *)
(* whose rows are in memory until they are written out.                    *)
(*                                                                         *)
(* What an expect in the set-up meets is a panic here, which unwinds and   *)
(* drops the locals like a return does, the last one first.                *)
(***************************************************************************)
EXTENDS CsvWriter

CONSTANT Signals   \* the signals that are sent to the process

ASSUME StartupAssumption == "SIGINT" \in Signals

VARIABLES
    at,         \* where main is
    locals,     \* the values main owns, in the order of their declaration
    named,      \* the queue has its name
    handled,    \* a message was handled, or a tick
    mask,       \* blocked signals
    pending,    \* blocked signals that were sent
    source,     \* the signals the signalfd takes
    killer      \* the signal the process was killed by, in a set

signalVars == <<mask, pending, source, killer>>
vars == <<csvVars, at, locals, named, handled, signalVars>>
runVars == <<handled, pending, killer>>    \* not changed by the set-up

Init ==
    /\ CsvInit
    /\ at = "start"
    /\ locals = <<>>
    /\ named = FALSE /\ handled = FALSE
    /\ mask \in SUBSET Signals           \* inherited from the parent
    /\ pending = {} /\ source = {} /\ killer = {}

-----------------------------------------------------------------------------
(* The set-up.                                                             *)

Panics ==
    /\ at' = "panicking"
    /\ UNCHANGED <<locals, named, mask, source>>

OpenQueue ==
    /\ at = "start"
    /\ \/ /\ at' = "queue"
          /\ named' = TRUE /\ locals' = <<"mq">>
          /\ UNCHANGED <<mask, source>>
       \/ Panics
    /\ UNCHANGED <<csvVars, runVars>>

ParseEvents ==
    /\ at = "queue"
    /\ \/ at' = "events" /\ UNCHANGED <<locals, named, mask, source>>
       \/ Panics
    /\ UNCHANGED <<csvVars, runVars>>

\* State::new opens the files; an error of one is a panic.
NewState ==
    /\ at = "events"
    /\ \/ OpenFile /\ UNCHANGED <<at, locals>>
       \/ OpenFails /\ at' = "panicking" /\ UNCHANGED locals
       \/ WriteHeaders /\ at' = "state" /\ locals' = Append(locals, "state")
    /\ UNCHANGED <<named, mask, source, runVars>>

\* Faulty variant: the mask keeps nothing of what it is given.
get_mask_Empty(signals) == {}

\* Signal::get_mask: sigemptyset, then every signal of the list.
get_mask(signals) == signals

CloseSignals == {"SIGINT"}

\* Signal::block adds to what is blocked.
Block ==
    /\ at = "state"
    /\ \/ /\ at' = "blocked"
          /\ mask' = mask \cup get_mask(CloseSignals)
          /\ UNCHANGED <<locals, named, source>>
       \/ Panics
    /\ UNCHANGED <<csvVars, runVars>>

\* Faulty variant: the signalfd is opened for the signals pending now.
NewSignalFD_Pending ==
    /\ at = "blocked"
    /\ at' = "signalfd"
    /\ source' = pending
    /\ locals' = Append(locals, "signal_fd")
    /\ UNCHANGED <<named, mask, csvVars, runVars>>

NewSignalFD ==
    /\ at = "blocked"
    /\ \/ /\ at' = "signalfd"
          /\ source' = get_mask(CloseSignals)
          /\ locals' = Append(locals, "signal_fd")
          /\ UNCHANGED <<named, mask>>
       \/ Panics
    /\ UNCHANGED <<csvVars, runVars>>

\* With a frequency the timer is armed, or its period is refused; then the
\* sources are registered.
Register ==
    /\ at = "signalfd"
    /\ \/ /\ at' = "loop"
          /\ locals' \in {locals, Append(locals, "flush_timer")}
          /\ UNCHANGED <<named, mask, source>>
       \/ Panics
    /\ UNCHANGED <<csvVars, runVars>>

SetUp == OpenQueue \/ ParseEvents \/ NewState \/ Block \/ NewSignalFD \/ Register

-----------------------------------------------------------------------------
(* The loop and the end.                                                   *)

\* SignalFD::read takes one pending signal of its mask, whenever it was sent.
HandleSignal ==
    /\ at = "loop"
    /\ \E s \in pending \cap source : pending' = pending \ {s}
    /\ at' = "flush"
    /\ UNCHANGED <<csvVars, locals, named, handled, mask, source, killer>>

\* A message, or a tick of the timer, has its handler run.
HandleEvent ==
    /\ at = "loop"
    /\ at' = "handler"
    /\ handled' = TRUE
    /\ UNCHANGED <<csvVars, locals, named, signalVars>>

\* The rows of open_tid, close_tid, flush_all and of the last flush.
WriteRows ==
    /\ at \in {"handler", "flush"}
    /\ CsvRow
    /\ UNCHANGED <<at, locals, named, handled, signalVars>>

HandlerReturns ==
    /\ at = "handler" /\ putting = {}
    /\ at' = "loop"
    /\ UNCHANGED <<csvVars, locals, named, handled, signalVars>>

\* epoll_wait, the read of the timer, of the queue or of the signalfd fails.
LoopFails ==
    /\ at = "loop"
    /\ Panics
    /\ UNCHANGED <<csvVars, runVars>>

FinalFlush ==
    /\ at = "flush" /\ putting = {}
    /\ at' = "returning"
    /\ UNCHANGED <<csvVars, locals, named, handled, signalVars>>

Dropping == at \in {"returning", "panicking"}

\* The drop of the State closes its files first.
DropState ==
    /\ Dropping /\ locals # <<>> /\ Last(locals) = "state"
    /\ DropFile
    /\ UNCHANGED <<at, locals, named, handled, signalVars>>

\* Faulty variant: the drop of the queue only closes it.
DropOf_Closes(x) ==
    /\ source' = IF x = "signal_fd" THEN {} ELSE source
    /\ UNCHANGED named

\* What the drop of a local does.
DropOf(x) ==
    /\ named' = (named /\ x # "mq")
    /\ source' = IF x = "signal_fd" THEN {} ELSE source

\* Faulty variant: in the order of declaration.
Drop_First ==
    /\ Dropping /\ locals # <<>>
    /\ Head(locals) = "state" => writers = <<>>
    /\ DropOf(Head(locals))
    /\ locals' = Tail(locals)
    /\ UNCHANGED <<csvVars, at, mask, runVars>>

Drop ==
    /\ Dropping /\ locals # <<>>
    /\ Last(locals) = "state" => writers = <<>>
    /\ DropOf(Last(locals))
    /\ locals' = Front(locals)
    /\ UNCHANGED <<csvVars, at, mask, runVars>>

End ==
    /\ Dropping /\ locals = <<>>
    /\ at' = "ended"
    /\ UNCHANGED <<csvVars, locals, named, handled, signalVars>>

Handler == WriteRows \/ HandlerReturns
Ending == FinalFlush \/ DropState \/ Drop \/ End

-----------------------------------------------------------------------------
(* Around the process.                                                     *)

\* A signal that is not blocked kills, by its default action.
SendSignal(s) ==
    /\ at \notin {"ended", "killed"}
    /\ IF s \in mask
       THEN pending' = pending \cup {s} /\ UNCHANGED <<csvVars, at, killer>>
       ELSE at' = "killed" /\ killer' = {s} /\ BuffersLost /\ UNCHANGED pending
    /\ UNCHANGED <<locals, named, handled, mask, source>>

Next ==
    \/ SetUp
    \/ HandleSignal \/ HandleEvent \/ Handler \/ LoopFails
    \/ Ending
    \/ \E s \in Signals : SendSignal(s)

\* main goes on; in the loop the signalfd has its turn among the sources, as
\* Threadstat shows (InterruptEnds there).
FairSpec ==
    /\ Init /\ [][Next]_vars
    /\ WF_vars(SetUp) /\ WF_vars(Handler) /\ WF_vars(Ending)
    /\ SF_vars(HandleSignal)

-----------------------------------------------------------------------------
\* SIGINT never costs a count: it kills the process only before the first
\* message is handled, since it is blocked before the loop (main.rs:45, 82).
InterruptLosesNothing == "SIGINT" \in killer => ~handled

\* From the moment it is blocked SIGINT is heard, also when it comes before the
\* signalfd is opened, while sources are being registered or in the last flush:
\* the run ends and is not killed, unless another signal does that.
InterruptHeard ==
    "SIGINT" \in pending ~> at = "ended" \/ killer \ {"SIGINT"} # {}

\* Every end but a kill, a panic in the set-up included, takes the name of the
\* queue away and closes the files, with every row in them whose write did not
\* fail (mqueue/src/lib.rs:108, main.rs:38-86, the drop of a BufWriter).
OrderlyEnd ==
    at = "ended" =>
        /\ ~named /\ writers = <<>>
        /\ \A f \in Files : \A n \in DOMAIN stream[f] :
              stream[f][n].row \in failed[f] \/ n <= Len(disk[f])

\* While rows are in memory only, the queue has its name: nobody who waits for
\* the name to go finds half-written files (the drop order of main's locals).
NamedWhileWriting == (\E f \in Files : buf[f] # <<>>) => named
=============================================================================
