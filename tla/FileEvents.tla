----------------------------- MODULE FileEvents -----------------------------
(***************************************************************************)
(* A source file somebody edits, and the debounced events of the notify    *)
(* library about it, as watcher.rs and c_interface.rs use them.            *)
(*                                                                         *)
(* Once the file is watched, a write is reported some time after it: by    *)
(* one event Write for all the writes since the last report, which may be  *)
(* preceded by an event of another kind that says that a report is to      *)
(* come.  The receiver has a queue that it polls and never blocks on.      *)
(*                                                                         *)
(* A save that takes several writes is several writes here, each of which  *)
(* leaves some text that may or may not be a program.                      *)
(***************************************************************************)
EXTENDS Naturals, Sequences

CONSTANTS
    Texts,        \* what the text of the file may be to its reader
    MaxWrites     \* bound: writes ever made

ASSUME FileAssumption == Texts # {} /\ MaxWrites \in Nat

VARIABLES
    file,         \* the number of writes so far, and the text they left
    watched,      \* the file is being watched
    unreported,   \* writes have happened since the last report
    events        \* rx: the events not received yet

fileVars == <<file, watched, unreported, events>>

Write  == "write"     \* DebouncedEvent::Write
Notice == "notice"    \* any other DebouncedEvent

FileInit ==
    /\ file \in [version : {0}, text : Texts]
    /\ watched = FALSE
    /\ unreported = FALSE
    /\ events = << >>

\* Somebody writes to the file.
Edit ==
    /\ file.version < MaxWrites
    /\ \E t \in Texts : file' = [version |-> file.version + 1, text |-> t]
    /\ unreported' = watched
    /\ events' \in IF watched /\ ~unreported THEN {events, Append(events, Notice)}
                                             ELSE {events}
    /\ UNCHANGED watched

\* The debouncer reports.
Report ==
    /\ unreported
    /\ unreported' = FALSE
    /\ events' = Append(events, Write)
    /\ UNCHANGED <<file, watched>>

\* watcher.watch(path, ..)
StartWatching ==
    /\ watched' = TRUE
    /\ UNCHANGED <<file, unreported, events>>

\* rx.try_recv() gives the next event, or none.
Receive(kind) ==
    /\ events # << >>
    /\ Head(events) = kind
    /\ events' = Tail(events)
    /\ UNCHANGED <<file, watched, unreported>>

NothingToReceive == events = << >> /\ UNCHANGED fileVars

\* A report of a write is on its way.
ReportDue == unreported \/ \E i \in 1 .. Len(events) : events[i] = Write

FileTypeOK ==
    /\ file \in [version : 0 .. MaxWrites, text : Texts]
    /\ watched \in BOOLEAN /\ unreported \in BOOLEAN
    /\ events \in Seq({Write, Notice})

=============================================================================
