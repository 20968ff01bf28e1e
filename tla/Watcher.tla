------------------------------ MODULE Watcher -------------------------------
(***************************************************************************)
(* watcher.rs: a process that runs a file in a child process and restarts  *)
(* it when the file is written to, or on a line from the terminal once the *)
(* child has ended.                                                        *)
(*                                                                         *)
(* Five activities interleave: the main loop, which looks at the child,    *)
(* the terminal and the file events in turn and never blocks; the thread   *)
(* that reads the terminal; the child; the debouncer; and the person who   *)
(* edits the file.  The thread that copies the child's output changes      *)
(* nothing and is left out.                                                *)
(***************************************************************************)
EXTENDS FileEvents

CONSTANTS
    MaxLines,      \* bound: lines typed, and lines in the channel at its end
    MaxChildren,   \* bound: from this many children on they do not end by themselves
    EditsAtStart,  \* the file may be written to before it is watched
    StdinEnds      \* the terminal may be closed

ASSUME WatcherAssumption ==
    /\ MaxLines \in Nat /\ MaxChildren \in Nat
    /\ EditsAtStart \in BOOLEAN /\ StdinEnds \in BOOLEAN

VARIABLES
    turn,        \* what the main loop does next
    process,     \* process: a child, or NoProcess
    children,    \* the state of each child ever started
    shown,       \* the version of the file that a child read last
    lines,       \* stdin_channel: the lines not received yet
    typed,       \* how many lines somebody has typed
    eof,         \* the terminal is closed
    reports      \* how many writes the main loop has been told of

mainVars == <<turn, process, children, reports>>
termVars == <<lines, typed, eof>>
watcherVars == <<fileVars, mainVars, termVars, shown>>

NoProcess == 0
Nothing == MaxWrites + 1      \* shown, before a child has read the file

Child == {"starting", "running", "exited", "killed"}
Alive(c) == children[c] \in {"starting", "running"}

WatcherInit ==
    /\ FileInit
    /\ turn = "begin"
    /\ children = <<"starting">> /\ process = 1
    /\ shown = Nothing
    /\ lines = << >> /\ typed = 0 /\ eof = FALSE
    /\ reports = 0

\* process = Some(run_process(path)), in a world where the children are cs.
RunProcess(cs) ==
    /\ children' = Append(cs, "starting")
    /\ process' = Len(cs) + 1

KillProcess ==
    IF process # NoProcess /\ Alive(process)
    THEN [children EXCEPT ![process] = "killed"]
    ELSE children

-----------------------------------------------------------------------------
(***************************************************************************)
(* The main loop.                                                          *)
(***************************************************************************)

\* Everything before the loop that follows the start of the first child.
BeginWatching ==
    /\ turn = "begin"
    /\ turn' = "child"
    /\ StartWatching
    /\ UNCHANGED <<process, children, reports, termVars, shown>>

\* p.poll(): a child that has ended is forgotten.
PollChild ==
    /\ turn = "child"
    /\ turn' = "terminal"
    /\ process' = IF process # NoProcess /\ ~Alive(process) THEN NoProcess ELSE process
    /\ UNCHANGED <<children, reports, fileVars, termVars, shown>>

\* stdin_channel.try_recv(): a line is used up even if the child still runs.
PollTerminal ==
    /\ turn = "terminal"
    /\ turn' = "events"
    /\ \/ lines = << >> /\ UNCHANGED <<lines, process, children>>
       \/ /\ lines # << >>
          /\ lines' = Tail(lines)
          /\ IF process = NoProcess THEN RunProcess(children)
                                    ELSE UNCHANGED <<process, children>>
    /\ UNCHANGED <<reports, fileVars, typed, eof, shown>>

\* Mutant of PollEvents: the child is not killed.
PollEventsNoKill ==
    /\ turn = "events"
    /\ turn' = "child"
    /\ \/ NothingToReceive /\ UNCHANGED <<process, children, reports>>
       \/ Receive(Notice) /\ UNCHANGED <<process, children, reports>>
       \/ Receive(Write) /\ RunProcess(children) /\ reports' = reports + 1
    /\ UNCHANGED <<termVars, shown>>

\* Mutant of PollEvents: only a child that still runs is restarted.
PollEventsIfRunning ==
    /\ turn = "events"
    /\ turn' = "child"
    /\ \/ NothingToReceive /\ UNCHANGED <<process, children, reports>>
       \/ Receive(Notice) /\ UNCHANGED <<process, children, reports>>
       \/ /\ Receive(Write)
          /\ reports' = reports + 1
          /\ IF process # NoProcess THEN RunProcess(KillProcess)
                                    ELSE UNCHANGED <<process, children>>
    /\ UNCHANGED <<termVars, shown>>

\* Mutant of PollEvents: any event at all empties the queue.
PollEventsDrain ==
    /\ turn = "events"
    /\ turn' = "child"
    /\ \/ NothingToReceive /\ UNCHANGED <<process, children, reports>>
       \/ /\ events # << >> /\ events' = << >>
          /\ UNCHANGED <<file, watched, unreported>>
          /\ IF Head(events) = Write
             THEN RunProcess(KillProcess) /\ reports' = reports + 1
             ELSE UNCHANGED <<process, children, reports>>
    /\ UNCHANGED <<termVars, shown>>

\* rx.try_recv(): on a write the child is killed, if there is one, and a new
\* one started.
PollEvents ==
    /\ turn = "events"
    /\ turn' = "child"
    /\ \/ NothingToReceive /\ UNCHANGED <<process, children, reports>>
       \/ Receive(Notice) /\ UNCHANGED <<process, children, reports>>
       \/ Receive(Write) /\ RunProcess(KillProcess) /\ reports' = reports + 1
    /\ UNCHANGED <<termVars, shown>>

MainStep == BeginWatching \/ PollChild \/ PollTerminal \/ PollEvents

-----------------------------------------------------------------------------
(***************************************************************************)
(* The other activities.                                                   *)
(***************************************************************************)

\* load_and_run(path) begins by reading the file.
ChildReads ==
    /\ \E c \in DOMAIN children :
          /\ children[c] = "starting"
          /\ children' = [children EXCEPT ![c] = "running"]
    /\ shown' = file.version
    /\ UNCHANGED <<fileVars, turn, process, reports, termVars>>

\* The program ends, or the child panics.
ChildExits ==
    /\ Len(children) < MaxChildren
    /\ \E c \in DOMAIN children :
          /\ children[c] = "running"
          /\ children' = [children EXCEPT ![c] = "exited"]
    /\ UNCHANGED <<fileVars, turn, process, reports, termVars, shown>>

TypeLine ==
    /\ ~eof /\ typed < MaxLines
    /\ lines' = Append(lines, "line")
    /\ typed' = typed + 1
    /\ UNCHANGED <<fileVars, mainVars, eof, shown>>

CloseTerminal ==
    /\ StdinEnds /\ ~eof
    /\ eof' = TRUE
    /\ UNCHANGED <<fileVars, mainVars, lines, typed, shown>>

\* At its end, read_line reads nothing and says Ok: the thread sends an empty
\* line, and goes on to the next.  Bound: MaxLines of them in the channel.
ReadNothing ==
    /\ eof /\ Len(lines) < MaxLines
    /\ lines' = Append(lines, "nothing")
    /\ UNCHANGED <<fileVars, mainVars, typed, eof, shown>>

EditFile ==
    /\ EditsAtStart \/ watched
    /\ Edit
    /\ UNCHANGED <<mainVars, termVars, shown>>

ReportWrite ==
    /\ Report
    /\ UNCHANGED <<mainVars, termVars, shown>>

WatcherNext ==
    \/ MainStep \/ ChildReads \/ ChildExits
    \/ TypeLine \/ CloseTerminal \/ ReadNothing
    \/ EditFile \/ ReportWrite

\* The main loop has a thread of its own and nothing in it blocks; a process
\* that was started gets to read its file; and what was written is reported.
\* Nobody has to type, to write, or to end.
WatcherSpec ==
    /\ WatcherInit /\ [][WatcherNext]_watcherVars
    /\ WF_watcherVars(MainStep)
    /\ WF_watcherVars(ChildReads)
    /\ WF_watcherVars(ReportWrite)

-----------------------------------------------------------------------------
(***************************************************************************)
(* Properties.                                                             *)
(***************************************************************************)

\* The file and its events are well typed, and `process` is a child.
WatcherTypeOK ==
    /\ FileTypeOK
    /\ turn \in {"begin", "child", "terminal", "events"}
    /\ children \in Seq(Child)
    /\ process \in {NoProcess} \cup 1 .. Len(children)
    /\ shown \in Nat
    /\ lines \in Seq({"line", "nothing"})
    /\ typed \in Nat /\ eof \in BOOLEAN /\ reports \in Nat

\* Of all the children ever started only the one in `process` may be alive:
\* however exits, lines and writes interleave, no child is forgotten while it
\* runs (watcher.rs:69-113).
OnlyOneChildLives ==
    \A c \in DOMAIN children : Alive(c) => c = process

\* If what was last shown is out of date, a report of that is on its way or a
\* child is about to read the file: a write is never lost, although the loop
\* takes one event per turn and throws away all but writes (watcher.rs:105-123).
StaleIsNoticed ==
    shown # file.version =>
        \/ ReportDue
        \/ \E c \in DOMAIN children : children[c] = "starting"

Live == INSTANCE LiveReload WITH
            latest   <- file.version,
            crashed  <- FALSE,
            Versions <- 0 .. MaxWrites

\* The watcher is a live reload that does not crash: the text that runs is
\* never replaced by an older one, and the last text is run in the end,
\* whatever the children and the terminal do (watcher.rs:68-125).
WatcherIsLive == Live!LiveSpec

-----------------------------------------------------------------------------
(***************************************************************************)
(* What the comments say.                                                  *)
(***************************************************************************)

\* "Read stdin, to restart the process from the terminal" and "Read watch
\* events, to restart the process" (watcher.rs:88, 104): there is a line or a
\* write for every restart.
RestartsAreAskedFor == Len(children) <= 1 + typed + reports

\* "Immediate feedback in response to all changes" (README.md:13): a change is
\* noticed whenever it is made.
AllChangesAreNoticed == StaleIsNoticed

=============================================================================
