---------------------------- MODULE LoaderProofs ----------------------------
(***************************************************************************)
(* The safety of the loader, for any texts and any number of writes.       *)
(*                                                                         *)
(* The argument has three parts.  HeldOK: what is loaded is what `tetris`  *)
(* holds, from a load to the clean-up that precedes the next.  NoticedOK:  *)
(* between the reading of the file and the next look at the queue nothing  *)
(* takes a report away, and each write since then has made one due.        *)
(* AgeOK: the text that was read is newer than the one shown.              *)
(***************************************************************************)
EXTENDS Loader, FileEventsProofs

HeldOK ==
    /\ pc \in {"watch", "read", "load"} => loaded = {}
    /\ pc \in {"poll", "frame", "cleanup"} =>
          /\ loaded = {tetris} \ {NoModule}
          /\ update \in {Dummy, tetris}

NoticedOK ==
    /\ pc # "watch" => watched
    /\ pc = "load" /\ source.version # file.version => ReportDue
    /\ pc = "frame" => ~dirty
    /\ LoaderNotices

AgeOK ==
    /\ source.version <= file.version
    /\ shown = Nothing \/ shown <= source.version

LoaderInv == LoaderTypeOK /\ HeldOK /\ NoticedOK /\ AgeOK

-----------------------------------------------------------------------------

\* What holds at the start.
LEMMA InitInv == LoaderInit => LoaderInv
<1> SUFFICES ASSUME LoaderInit PROVE LoaderInv
    OBVIOUS
<1>1. /\ file \in [version : 0 .. MaxWrites, text : Texts]
      /\ file.version = 0 /\ source = file
    BY FileAssumption DEF LoaderInit, FileInit
<1>2. FileTypeOK
  <2>1. << >> \in Seq({Write, Notice})
      OBVIOUS
  <2>2. QED
      BY <1>1, <2>1 DEF LoaderInit, FileInit, FileTypeOK
<1>3. LoaderTypeOK
  <2>1. /\ loads = 0 /\ loaded = {} /\ tetris = 0 /\ update = 0
        /\ shown = MaxWrites + 1
        /\ pc = "watch" /\ dirty = FALSE /\ crash = "none"
      BY DEF LoaderInit, NoModule, Dummy, Nothing
  <2>2. shown \in Nat
      BY <2>1, FileAssumption
  <2>3. source \in [version : 0 .. MaxWrites, text : Texts]
      BY <1>1
  <2>4. loads \in Nat /\ loaded \in SUBSET (1 .. loads)
      BY <2>1
  <2>5. tetris \in 0 .. loads /\ update \in 0 .. loads
      BY <2>1
  <2>6. QED
      BY <1>2, <2>1, <2>2, <2>3, <2>4, <2>5 DEF LoaderTypeOK, Crashes
<1>4. HeldOK /\ NoticedOK
    BY DEF LoaderInit, HeldOK, NoticedOK, LoaderNotices
<1>5. AgeOK
    BY <1>1 DEF LoaderInit, AgeOK
<1>6. QED
    BY <1>3, <1>4, <1>5 DEF LoaderInv

\* Versions are numbers.
LEMMA VersionLemma ==
    ASSUME LoaderInv
    PROVE  /\ FileTypeOK
           /\ file.version \in 0 .. MaxWrites /\ file.version \in Nat
           /\ source.version \in 0 .. MaxWrites /\ source.version \in Nat
           /\ shown \in Nat /\ Nothing \in Nat
    BY FileAssumption DEF LoaderInv, LoaderTypeOK, FileTypeOK, Nothing

\* While the loader itself does nothing, it is enough that what is due stays
\* due or becomes so.
LEMMA FileChanges ==
    ASSUME LoaderInv, FileTypeOK',
           UNCHANGED <<pc, source, heldVars, dirty, shown, crash>>, UNCHANGED watched,
           file'.version >= file.version,
           file'.version # file.version /\ watched => ReportDue',
           file'.version = file.version /\ ReportDue => ReportDue'
    PROVE  LoaderInv'
<1>1. LoaderTypeOK'
    BY DEF LoaderInv, LoaderTypeOK, heldVars
<1>2. HeldOK'
    BY DEF LoaderInv, HeldOK, heldVars
<1>3. NoticedOK'
    BY DEF LoaderInv, NoticedOK, LoaderNotices
<1>4. AgeOK'
  <2>1. /\ file.version \in Nat /\ file'.version \in Nat /\ source.version \in Nat
      BY FileAssumption DEF LoaderInv, LoaderTypeOK, FileTypeOK
  <2>2. QED
      BY <2>1 DEF LoaderInv, AgeOK
<1>5. QED
    BY <1>1, <1>2, <1>3, <1>4 DEF LoaderInv

LEMMA EditKeepsInv ==
    ASSUME LoaderInv, EditFile
    PROVE  LoaderInv'
<1>1. FileTypeOK /\ Edit /\ file.version \in Nat
    BY FileAssumption DEF LoaderInv, LoaderTypeOK, FileTypeOK, EditFile
<1>2. /\ FileTypeOK' /\ UNCHANGED watched
      /\ file'.version = file.version + 1
      /\ watched => ReportDue'
    BY <1>1, EditIsDue
<1>3. file'.version >= file.version /\ file'.version # file.version
    BY <1>1, <1>2
<1>4. QED
    BY <1>2, <1>3, FileChanges DEF EditFile

LEMMA ReportKeepsInv ==
    ASSUME LoaderInv, ReportWrite
    PROVE  LoaderInv'
<1>1. FileTypeOK /\ Report /\ file.version \in Nat
    BY FileAssumption DEF LoaderInv, LoaderTypeOK, FileTypeOK, ReportWrite
<1>2. FileTypeOK' /\ ReportDue' /\ UNCHANGED <<file, watched>>
    BY <1>1, ReportIsDue
<1>3. QED
    BY <1>1, <1>2, FileChanges DEF ReportWrite

LEMMA StutterKeepsInv ==
    ASSUME LoaderInv, UNCHANGED loaderVars
    PROVE  LoaderInv'
<1>1. FileTypeOK /\ UNCHANGED fileVars /\ file.version \in Nat
    BY FileAssumption DEF LoaderInv, LoaderTypeOK, FileTypeOK, loaderVars
<1>2. FileTypeOK' /\ (ReportDue <=> ReportDue')
    BY <1>1, NothingHappens
<1>3. QED
    BY <1>1, <1>2, FileChanges DEF loaderVars, fileVars, heldVars

-----------------------------------------------------------------------------
(***************************************************************************)
(* The steps of the loader.                                                *)
(***************************************************************************)

LEMMA WatchFileKeepsInv ==
    ASSUME LoaderInv, WatchFile
    PROVE  LoaderInv'
<1>1. LoaderTypeOK'
    BY DEF LoaderInv, LoaderTypeOK, FileTypeOK, WatchFile, StartWatching, heldVars
<1>2. HeldOK'
    BY DEF LoaderInv, HeldOK, WatchFile, heldVars
<1>3. NoticedOK'
    BY DEF NoticedOK, LoaderNotices, WatchFile, StartWatching
<1>4. AgeOK'
    BY DEF LoaderInv, AgeOK, WatchFile, StartWatching
<1>5. QED
    BY <1>1, <1>2, <1>3, <1>4 DEF LoaderInv

LEMMA LoadExpressionKeepsInv ==
    ASSUME LoaderInv, LoadExpression
    PROVE  LoaderInv'
<1>1. /\ FileTypeOK /\ UNCHANGED <<fileVars, shown>>
      /\ file \in [version : 0 .. MaxWrites, text : Texts]
      /\ file.version \in Nat /\ source.version \in Nat /\ shown \in Nat
      /\ source' = file
    BY VersionLemma DEF FileTypeOK, LoadExpression
<1>2. FileTypeOK' /\ (ReportDue <=> ReportDue')
    BY <1>1, NothingHappens
<1>3. LoaderTypeOK'
    BY <1>1, <1>2 DEF LoaderInv, LoaderTypeOK, LoadExpression, heldVars, Crashes
<1>4. HeldOK'
    BY DEF LoaderInv, HeldOK, LoadExpression, heldVars
<1>5. NoticedOK'
  <2>1. pc = "read" /\ pc' \in {"load", "dead"} /\ source'.version = file'.version
      BY <1>1 DEF LoadExpression, fileVars
  <2>2. watched /\ UNCHANGED watched
      BY <1>1, <2>1 DEF LoaderInv, NoticedOK, fileVars
  <2>3. QED
      BY <2>1, <2>2 DEF NoticedOK, LoaderNotices
<1>6. AgeOK'
    BY <1>1 DEF LoaderInv, AgeOK, Nothing, fileVars
<1>7. QED
    BY <1>3, <1>4, <1>5, <1>6 DEF LoaderInv

LEMMA LoadModuleKeepsInv ==
    ASSUME LoaderInv, LoadModule
    PROVE  LoaderInv'
<1>1. /\ FileTypeOK /\ UNCHANGED fileVars /\ UNCHANGED source
      /\ file.version \in Nat /\ source.version \in Nat /\ shown \in Nat
      /\ pc = "load" /\ loaded = {} /\ loads \in Nat
    BY VersionLemma DEF LoaderInv, LoaderTypeOK, HeldOK, LoadModule
<1>2. FileTypeOK' /\ (ReportDue <=> ReportDue')
    BY <1>1, NothingHappens
<1>3. CASE pc' = "poll"
  <2>1. /\ \/ /\ HoldModule(NoModule)
              /\ UNCHANGED <<loads, loaded>>
           \/ /\ HoldModule(loads + 1)
              /\ loads' = loads + 1 /\ loaded' = {loads + 1}
        /\ shown' = source.version /\ dirty' = FALSE
        /\ UNCHANGED crash
      BY <1>1, <1>3 DEF LoadModule
  <2>2. HeldOK' /\ loads' \in Nat /\ loaded' \in SUBSET (1 .. loads')
        /\ tetris' \in 0 .. loads' /\ update' \in 0 .. loads'
      BY <1>1, <1>3, <2>1 DEF HeldOK, HoldModule, NoModule, Dummy
  <2>3. LoaderTypeOK'
      BY <1>1, <1>2, <1>3, <2>1, <2>2 DEF LoaderInv, LoaderTypeOK
  <2>4. NoticedOK'
      BY <1>1, <1>2, <1>3, <2>1 DEF LoaderInv, NoticedOK, LoaderNotices, fileVars
  <2>5. AgeOK'
      BY <1>1, <2>1 DEF LoaderInv, AgeOK, fileVars
  <2>6. QED
      BY <2>2, <2>3, <2>4, <2>5 DEF LoaderInv
<1>4. CASE pc' # "poll"
  <2>1. /\ pc' = "dead" /\ crash' = "the game"
        /\ UNCHANGED <<heldVars, dirty, shown>>
      BY <1>1, <1>4 DEF LoadModule
  <2>2. LoaderTypeOK'
      BY <1>1, <1>2, <2>1 DEF LoaderInv, LoaderTypeOK, heldVars, Crashes
  <2>3. HeldOK' /\ NoticedOK' /\ AgeOK'
      BY <1>1, <2>1 DEF LoaderInv, HeldOK, NoticedOK, LoaderNotices, AgeOK, fileVars
  <2>4. QED
      BY <2>2, <2>3 DEF LoaderInv
<1>5. QED
    BY <1>3, <1>4

LEMMA PollEventKeepsInv ==
    ASSUME LoaderInv, PollEvent
    PROVE  LoaderInv'
<1> DEFINE Same == UNCHANGED <<source, heldVars, shown, crash>> /\ pc = "poll"
<1>1. FileTypeOK /\ Same
    BY DEF LoaderInv, LoaderTypeOK, PollEvent
<1>2. /\ FileTypeOK' /\ UNCHANGED <<file, watched>>
      /\ \/ dirty' = TRUE /\ pc' = "poll"
         \/ /\ UNCHANGED dirty
            /\ pc' = IF dirty THEN "cleanup" ELSE "frame"
            /\ ReportDue => ReportDue'
  <2>1. CASE Receive(Write) /\ dirty' = TRUE /\ UNCHANGED pc
      BY <1>1, <2>1, NoticeLeavesDue
  <2>2. CASE /\ Receive(Notice)
             /\ UNCHANGED dirty /\ pc' = IF dirty THEN "cleanup" ELSE "frame"
    <3>1. Notice # Write
        BY DEF Notice, Write
    <3>2. QED
        BY <1>1, <2>2, <3>1, NoticeLeavesDue
  <2>3. CASE /\ NothingToReceive
             /\ UNCHANGED dirty /\ pc' = IF dirty THEN "cleanup" ELSE "frame"
    <3>1. UNCHANGED fileVars
        BY <2>3 DEF NothingToReceive
    <3>2. QED
        BY <1>1, <2>3, <3>1, NothingHappens DEF fileVars
  <2>4. QED
      BY <2>1, <2>2, <2>3 DEF PollEvent
<1>3. LoaderTypeOK'
    BY <1>1, <1>2 DEF LoaderInv, LoaderTypeOK, heldVars
<1>4. HeldOK'
    BY <1>1, <1>2 DEF LoaderInv, HeldOK, heldVars
<1>5. NoticedOK'
    BY <1>1, <1>2 DEF LoaderInv, LoaderTypeOK, NoticedOK, LoaderNotices
<1>6. AgeOK'
    BY <1>1, <1>2 DEF LoaderInv, AgeOK
<1>7. QED
    BY <1>3, <1>4, <1>5, <1>6 DEF LoaderInv

LEMMA CallUpdateKeepsInv ==
    ASSUME LoaderInv, CallUpdate
    PROVE  LoaderInv'
<1>1. /\ FileTypeOK /\ UNCHANGED fileVars
      /\ UNCHANGED <<source, heldVars, shown>>
      /\ pc = "frame" /\ pc' \in {"poll", "dead"}
      /\ dirty' \in {FALSE, dirty} /\ crash' \in {crash, "the game"}
    BY DEF LoaderInv, LoaderTypeOK, CallUpdate
<1>2. FileTypeOK' /\ (ReportDue <=> ReportDue')
    BY <1>1, NothingHappens
<1>3. LoaderTypeOK'
    BY <1>1, <1>2 DEF LoaderInv, LoaderTypeOK, heldVars, Crashes
<1>4. HeldOK'
    BY <1>1 DEF LoaderInv, HeldOK, heldVars
<1>5. NoticedOK'
    BY <1>1, <1>2 DEF LoaderInv, NoticedOK, LoaderNotices, fileVars
<1>6. AgeOK'
    BY <1>1 DEF LoaderInv, AgeOK, fileVars
<1>7. QED
    BY <1>3, <1>4, <1>5, <1>6 DEF LoaderInv

LEMMA CleanUpKeepsInv ==
    ASSUME LoaderInv, CleanUp
    PROVE  LoaderInv'
<1>1. /\ FileTypeOK /\ UNCHANGED fileVars
      /\ UNCHANGED <<source, loads, tetris, update, dirty, shown>>
      /\ pc = "cleanup"
      /\ \/ pc' = "read" /\ loaded' = loaded \ {tetris} /\ UNCHANGED crash
         \/ pc' = "dead" /\ UNCHANGED loaded /\ crash' = "the game"
    BY DEF LoaderInv, LoaderTypeOK, CleanUp
<1>2. FileTypeOK' /\ (ReportDue <=> ReportDue')
    BY <1>1, NothingHappens
<1>3. LoaderTypeOK'
    BY <1>1, <1>2 DEF LoaderInv, LoaderTypeOK, Crashes
<1>4. HeldOK'
    BY <1>1 DEF LoaderInv, HeldOK
<1>5. NoticedOK'
    BY <1>1 DEF LoaderInv, NoticedOK, LoaderNotices, fileVars
<1>6. AgeOK'
    BY <1>1 DEF LoaderInv, AgeOK, fileVars
<1>7. QED
    BY <1>3, <1>4, <1>5, <1>6 DEF LoaderInv

-----------------------------------------------------------------------------

THEOREM LoaderInvariant == LoaderSpec => []LoaderInv
<1>1. LoaderInv /\ [LoaderNext]_loaderVars => LoaderInv'
  <2> SUFFICES ASSUME LoaderInv, [LoaderNext]_loaderVars PROVE LoaderInv'
      OBVIOUS
  <2>1. CASE LoaderStep
      BY <2>1, WatchFileKeepsInv, LoadExpressionKeepsInv, LoadModuleKeepsInv,
         PollEventKeepsInv, CallUpdateKeepsInv, CleanUpKeepsInv DEF LoaderStep
  <2>2. CASE EditFile
      BY <2>2, EditKeepsInv
  <2>3. CASE ReportWrite
      BY <2>3, ReportKeepsInv
  <2>4. CASE Dead \/ UNCHANGED loaderVars
      BY <2>4, StutterKeepsInv DEF Dead
  <2>5. QED
      BY <2>1, <2>2, <2>3, <2>4 DEF LoaderNext
<1>2. QED
    BY <1>1, InitInv, PTL DEF LoaderSpec

\* The variables keep their types.
THEOREM LoaderTypes == LoaderSpec => []LoaderTypeOK
<1>1. LoaderInv => LoaderTypeOK
    BY DEF LoaderInv
<1>2. QED
    BY <1>1, LoaderInvariant, PTL

\* `update` is never a function of a module that was unloaded
\* (loader.code:20-29, 48, 56-68).
THEOREM NoStaleUpdate == LoaderSpec => []UpdateIsLive
<1>1. LoaderInv => UpdateIsLive
    BY DEF LoaderInv, HeldOK, UpdateIsLive, NoModule, Dummy
<1>2. QED
    BY <1>1, LoaderInvariant, PTL

\* create_unit does not panic in a reload (loader.code:19, 58-67).
THEOREM NameFree == LoaderSpec => []NameIsFree
<1>1. LoaderInv => NameIsFree
    BY DEF LoaderInv, HeldOK, NameIsFree
<1>2. QED
    BY <1>1, LoaderInvariant, PTL

\* No write is lost between the polls (loader.code:30-47).
THEOREM NoWriteLost == LoaderSpec => []LoaderNotices
<1>1. LoaderInv => LoaderNotices
    BY DEF LoaderInv, NoticedOK
<1>2. QED
    BY <1>1, LoaderInvariant, PTL

\* Every step of the loader is one of a live reload, or none: what is shown is
\* never replaced by an older text (loader.code:16-69).
THEOREM LoaderNeverGoesBack ==
    LoaderSpec => Live!LiveInit /\ [][Live!LiveNext]_(Live!liveVars)
<1>1. LoaderInit => Live!LiveInit
    BY DEF LoaderInit, FileInit, Live!LiveInit
<1>2. LoaderInv /\ [LoaderNext]_loaderVars => [Live!LiveNext]_(Live!liveVars)
  <2> SUFFICES ASSUME LoaderInv, [LoaderNext]_loaderVars
               PROVE  [Live!LiveNext]_(Live!liveVars)
      OBVIOUS
  <2> USE DEF Live!LiveNext, Live!liveVars
  <2>1. CASE EditFile
      BY <2>1 DEF EditFile, Edit, Live!Change
  <2>2. CASE UNCHANGED <<file, shown>> /\ pc # "dead"
      BY <2>2 DEF Live!Crash
  <2>3. CASE LoadModule
    <3>1. UNCHANGED file /\ pc = "load" /\ source.version <= file.version
        BY <2>3 DEF LoadModule, LoaderInv, AgeOK, fileVars
    <3>2. CASE shown' = source.version /\ pc' = "poll"
        BY <3>1, <3>2 DEF LoaderInv, AgeOK, Live!Show, Live!Newer
    <3>3. CASE UNCHANGED shown /\ pc' = "dead"
        BY <3>1, <3>3 DEF Live!Crash
    <3>4. QED
        BY <2>3, <3>2, <3>3 DEF LoadModule
  <2>4. CASE UNCHANGED <<file, shown, pc>>
      BY <2>4
  <2>5. QED
    <3>1. CASE WatchFile
        BY <3>1, <2>2 DEF WatchFile, StartWatching
    <3>2. CASE LoadExpression
        BY <3>2, <2>2 DEF LoadExpression, fileVars
    <3>3. CASE PollEvent
        BY <3>3, <2>2 DEF PollEvent, Receive, NothingToReceive, fileVars
    <3>4. CASE CallUpdate
        BY <3>4, <2>2 DEF CallUpdate, fileVars
    <3>5. CASE CleanUp
        BY <3>5, <2>2 DEF CleanUp, fileVars
    <3>6. CASE ReportWrite
        BY <3>6, <2>4 DEF ReportWrite, Report
    <3>7. CASE Dead \/ UNCHANGED loaderVars
        BY <3>7, <2>4 DEF Dead, loaderVars, fileVars
    <3>8. QED
        BY <2>1, <2>3, <3>1, <3>2, <3>3, <3>4, <3>5, <3>6, <3>7
        DEF LoaderNext, LoaderStep
<1>3. QED
    BY <1>1, <1>2, LoaderInvariant, PTL DEF LoaderSpec

=============================================================================
