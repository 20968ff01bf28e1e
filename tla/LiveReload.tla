----------------------------- MODULE LiveReload -----------------------------
(***************************************************************************)
(* What live reloading promises to somebody who edits a file: what is      *)
(* shown is never replaced by an older text, and the last text is shown in *)
(* the end, unless the program that shows it has crashed.                  *)
(*                                                                         *)
(* Both ways in which this project reloads are to implement it: the        *)
(* watcher, which restarts the process, and the loader, which replaces a   *)
(* module in the running process.                                          *)
(***************************************************************************)
EXTENDS Naturals

CONSTANTS
    Nothing,     \* what is shown at first
    Versions     \* the versions that may be the last

VARIABLES
    latest,      \* the version of the file
    shown,       \* the version shown last
    crashed

liveVars == <<latest, shown, crashed>>

LiveInit == latest = 0 /\ shown = Nothing /\ crashed = FALSE

Change == latest' = latest + 1 /\ UNCHANGED <<shown, crashed>>

\* What is shown need not be the last text, for it takes time to show it.
Newer(v) == v <= latest /\ (shown = Nothing \/ shown <= v)

Show == ~crashed /\ Newer(shown') /\ UNCHANGED <<latest, crashed>>

Crash == ~crashed /\ crashed' = TRUE /\ UNCHANGED <<latest, shown>>

LiveNext == Change \/ Show \/ Crash

\* Version v, or a later one, is shown in the end.
Follows(v) == (latest = v) ~> (crashed \/ (shown # Nothing /\ shown >= v))

LiveSpec ==
    /\ LiveInit
    /\ [][LiveNext]_liveVars
    /\ \A v \in Versions : Follows(v)

=============================================================================
