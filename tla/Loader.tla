------------------------------- MODULE Loader -------------------------------
(***************************************************************************)
(* The loader of code/tetris/loader.code: a module that loads the game,    *)
(* calls its `update` once per frame, and when the file of the game is     *)
(* written to unloads the game and loads it again, in the same process,    *)
(* through the functions of c_interface.rs.                                *)
(*                                                                         *)
(* The game is code that may do anything when it is called; it is assumed  *)
(* to return or to end the process.  What unloading does to the tables of  *)
(* the compiler is the subject of Compiler; here a module is loaded or it  *)
(* is not.                                                                 *)
(***************************************************************************)
EXTENDS FileEvents

VARIABLES
    pc,          \* what the loader does next
    source,      \* the text load_expression has read, with its version
    loads,       \* how many modules were ever loaded from the file
    loaded,      \* those of them that are not unloaded
    tetris,      \* the module the loader holds, or NoModule
    update,      \* the module whose function `update` holds, or Dummy
    dirty,       \* module_dirty
    shown,       \* the version whose game, or error message, is shown
    crash        \* what ended the process, if anything

loaderVars == <<fileVars, pc, source, loads, loaded, tetris, update, dirty, shown, crash>>
heldVars == <<loads, loaded, tetris, update>>

NoModule == 0
Dummy == 0               \* dummy_update
Nothing == MaxWrites + 1 \* shown, before the first load

Game     == "game"       \* compiles, and defines one `update`
NoUpdate == "no update"  \* compiles, and defines none or several
IllTyped == "ill-typed"  \* parses, but does not compile
Garbled  == "garbled"    \* does not parse

ASSUME TextsAssumption == Texts \subseteq {Game, NoUpdate, IllTyped, Garbled}

Crashes == {"none", "unwrap of a parse error", "name is taken", "the game"}

LoaderInit ==
    /\ FileInit
    /\ pc = "watch"
    /\ source = file
    /\ loads = 0 /\ loaded = {} /\ tetris = NoModule /\ update = Dummy
    /\ dirty = FALSE /\ shown = Nothing /\ crash = "none"

\* Everything before the outer loop.
WatchFile ==
    /\ pc = "watch"
    /\ StartWatching
    /\ pc' = "read"
    /\ UNCHANGED <<source, heldVars, dirty, shown, crash>>

\* Mutant of LoadExpression: the file is read once.
LoadExpressionOnce ==
    /\ pc = "read"
    /\ source' = IF shown = Nothing THEN file ELSE source
    /\ \/ source'.text = Garbled /\ pc' = "dead" /\ crash' = "unwrap of a parse error"
       \/ source'.text # Garbled /\ pc' = "load" /\ UNCHANGED crash
    /\ UNCHANGED <<fileVars, heldVars, dirty, shown>>

\* load_expression: reads the file, and unwraps what the parser says of it.
LoadExpression ==
    /\ pc = "read"
    /\ source' = file
    /\ \/ file.text = Garbled /\ pc' = "dead" /\ crash' = "unwrap of a parse error"
       \/ file.text # Garbled /\ pc' = "load" /\ UNCHANGED crash
    /\ UNCHANGED <<fileVars, heldVars, dirty, shown>>

\* Mutant of HoldModule: `update` is declared outside the loop.
HoldModuleKeepUpdate(m) ==
    /\ tetris' = m
    /\ update' = IF m # NoModule /\ source.text = Game THEN m ELSE update

\* The module or none, and its `update`, if get_function finds just one.
HoldModule(m) ==
    /\ tetris' = m
    /\ update' = IF m # NoModule /\ source.text = Game THEN m ELSE Dummy

\* load_module: a module of that name must not exist.  It gives a module, if
\* its top level comes to an end, or none, if the text does not compile.
LoadModule ==
    /\ pc = "load"
    /\ IF loaded # {}
       THEN /\ pc' = "dead" /\ crash' = "name is taken"
            /\ UNCHANGED <<heldVars, dirty, shown>>
       ELSE \/ /\ source.text = IllTyped
               /\ HoldModule(NoModule)
               /\ shown' = source.version /\ dirty' = FALSE
               /\ pc' = "poll"
               /\ UNCHANGED <<loads, loaded, crash>>
            \/ /\ source.text # IllTyped
               /\ HoldModule(loads + 1)
               /\ loads' = loads + 1 /\ loaded' = {loads + 1}
               /\ shown' = source.version /\ dirty' = FALSE
               /\ pc' = "poll"
               /\ UNCHANGED crash
            \/ /\ source.text # IllTyped
               /\ pc' = "dead" /\ crash' = "the game"
               /\ UNCHANGED <<heldVars, dirty, shown>>
    /\ UNCHANGED <<fileVars, source>>

\* Mutant of PollEvent: a write ends the inner loop too.
PollEventOnce ==
    /\ pc = "poll"
    /\ \/ Receive(Write) /\ dirty' = TRUE /\ pc' = "frame"
       \/ /\ Receive(Notice) \/ NothingToReceive
          /\ UNCHANGED dirty
          /\ pc' = IF dirty THEN "cleanup" ELSE "frame"
    /\ UNCHANGED <<source, heldVars, shown, crash>>

\* poll_watcher_event: any event but a write looks like an empty queue and
\* ends the inner loop.
PollEvent ==
    /\ pc = "poll"
    /\ \/ Receive(Write) /\ dirty' = TRUE /\ UNCHANGED pc
       \/ /\ Receive(Notice) \/ NothingToReceive
          /\ UNCHANGED dirty
          /\ pc' = IF dirty THEN "cleanup" ELSE "frame"
    /\ UNCHANGED <<source, heldVars, shown, crash>>

\* update(), the sleep, and the begin of the next frame.
CallUpdate ==
    /\ pc = "frame"
    /\ \/ pc' = "poll" /\ dirty' = FALSE /\ UNCHANGED crash
       \/ /\ update # Dummy
          /\ pc' = "dead" /\ crash' = "the game" /\ UNCHANGED dirty
    /\ UNCHANGED <<fileVars, source, heldVars, shown>>

\* Mutant of CleanUp: only a game that can be updated is unloaded.
CleanUpIfUpdated ==
    /\ pc = "cleanup"
    /\ \/ /\ pc' = "read"
          /\ loaded' = IF update # Dummy THEN loaded \ {tetris} ELSE loaded
          /\ UNCHANGED crash
       \/ /\ tetris # NoModule
          /\ pc' = "dead" /\ crash' = "the game"
          /\ UNCHANGED loaded
    /\ UNCHANGED <<fileVars, source, loads, tetris, update, dirty, shown>>

\* If there is a module, terminate(), and unload_module for it and all its
\* dependents.
CleanUp ==
    /\ pc = "cleanup"
    /\ \/ /\ pc' = "read"
          /\ loaded' = loaded \ {tetris}
          /\ UNCHANGED crash
       \/ /\ tetris # NoModule
          /\ pc' = "dead" /\ crash' = "the game"
          /\ UNCHANGED loaded
    /\ UNCHANGED <<fileVars, source, loads, tetris, update, dirty, shown>>

LoaderStep ==
    WatchFile \/ LoadExpression \/ LoadModule \/ PollEvent \/ CallUpdate \/ CleanUp

EditFile ==
    /\ Edit
    /\ UNCHANGED <<pc, source, heldVars, dirty, shown, crash>>

ReportWrite ==
    /\ Report
    /\ UNCHANGED <<pc, source, heldVars, dirty, shown, crash>>

Dead == pc = "dead" /\ UNCHANGED loaderVars

LoaderNext == LoaderStep \/ EditFile \/ ReportWrite \/ Dead

\* The loader runs as long as the game returns from its calls, and what was
\* written is reported.
LoaderSpec ==
    /\ LoaderInit /\ [][LoaderNext]_loaderVars
    /\ WF_loaderVars(LoaderStep)
    /\ WF_loaderVars(ReportWrite)

-----------------------------------------------------------------------------
(***************************************************************************)
(* Properties.                                                             *)
(***************************************************************************)

\* The variables of the loader hold what their comments say.
LoaderTypeOK ==
    /\ FileTypeOK
    /\ pc \in {"watch", "read", "load", "poll", "frame", "cleanup", "dead"}
    /\ source \in [version : 0 .. MaxWrites, text : Texts]
    /\ loads \in Nat /\ loaded \in SUBSET (1 .. loads)
    /\ tetris \in 0 .. loads /\ update \in 0 .. loads
    /\ dirty \in BOOLEAN /\ shown \in Nat /\ crash \in Crashes

\* The loader never calls into code that was unloaded: at each frame `update`
\* belongs to the module that is loaded now, or to the loader itself, also
\* after loads that failed or gave a game without `update`
\* (loader.code:20-29, 48, 56-68).
UpdateIsLive == pc = "frame" => update \in loaded \cup {Dummy}

\* The name of the game is free when it is loaded, for the panic of create_unit
\* would end the loader (loader.code:19, 58-67; code_store.rs:56-58).
NameIsFree == pc = "load" => loaded = {}

\* While the loader shows an old text a report is on its way or has been seen;
\* no write is lost between the frames, the polls and the reloads
\* (loader.code:30-47, c_interface.rs:301-318).
LoaderNotices ==
    pc \in {"poll", "frame"} /\ shown # file.version => ReportDue \/ dirty

Live == INSTANCE LiveReload WITH
            latest   <- file.version,
            crashed  <- (pc = "dead"),
            Versions <- 0 .. MaxWrites

\* The loader is a live reload: it never goes back to an older text, and the
\* last text is loaded in the end, or its failure to compile is shown
\* (loader.code:16-69).
LoaderIsLive == Live!LiveSpec

-----------------------------------------------------------------------------
(***************************************************************************)
(* What the code says of itself.                                           *)
(***************************************************************************)

\* println("Failed to load tetris :(") and `Err(_e) => { println!("Failed to
\* load module"); None.into() }` (loader.code:28, c_interface.rs:192-195): a
\* text that cannot be loaded is reported, and the loader waits for the next.
FailedLoadsAreSurvived == crash # "unwrap of a parse error"

=============================================================================
