---------------------------- MODULE WatcherProofs ---------------------------
(***************************************************************************)
(* The safety of the watcher, for any number of children, lines and        *)
(* writes.                                                                 *)
(*                                                                         *)
(* A child is started in two places: on a line, when there is none, and on *)
(* a write, when the one there was has been killed.  So `process` is the   *)
(* only one that can be alive.  On a write the new child is going to read  *)
(* the file, and until then the report was due; nothing else takes either  *)
(* away.                                                                   *)
(***************************************************************************)
EXTENDS Watcher, FileEventsProofs

ChildrenOK ==
    /\ children \in Seq(Child)
    /\ process \in {NoProcess} \cup 1 .. Len(children)
    /\ OnlyOneChildLives

ChildToRead == \E c \in DOMAIN children : children[c] = "starting"

AgeOK == shown = Nothing \/ shown <= file.version

WatcherInv == WatcherTypeOK /\ OnlyOneChildLives /\ AgeOK

-----------------------------------------------------------------------------
(***************************************************************************)
(* The children.                                                           *)
(***************************************************************************)

\* A child that is started when none is alive is the only one.
LEMMA RunProcessLemma ==
    ASSUME NEW cs \in Seq(Child), RunProcess(cs),
           \A c \in 1 .. Len(cs) : cs[c] \notin {"starting", "running"}
    PROVE  ChildrenOK' /\ ChildToRead'
<1>1. "starting" \in Child
    BY DEF Child
<1>2. /\ children' \in Seq(Child)
      /\ Len(cs) \in Nat /\ Len(children') = Len(cs) + 1
      /\ \A i \in 1 .. Len(cs) : children'[i] = cs[i]
      /\ children'[Len(cs) + 1] = "starting"
      /\ process' = Len(cs) + 1
    BY <1>1, PushLemma DEF RunProcess
<1>3. DOMAIN children' = 1 .. Len(cs) + 1
    BY <1>2
<1>4. OnlyOneChildLives'
    BY <1>2, <1>3 DEF OnlyOneChildLives, Alive
<1>5. ChildToRead'
  <2>1. Len(cs) + 1 \in DOMAIN children'
      BY <1>2, <1>3
  <2>2. QED
      BY <1>2, <2>1 DEF ChildToRead
<1>6. process' \in 1 .. Len(children')
    BY <1>2
<1>7. QED
    BY <1>2, <1>4, <1>5, <1>6 DEF ChildrenOK

\* After the kill no child is alive.
LEMMA KillLemma ==
    ASSUME ChildrenOK
    PROVE  /\ KillProcess \in Seq(Child)
           /\ \A c \in 1 .. Len(KillProcess) :
                 KillProcess[c] \notin {"starting", "running"}
<1>1. children \in Seq(Child) /\ DOMAIN children = 1 .. Len(children)
      /\ \A c \in 1 .. Len(children) : Alive(c) => c = process
    BY DEF ChildrenOK, OnlyOneChildLives
<1>2. CASE process # NoProcess /\ Alive(process)
  <2>1. KillProcess = [children EXCEPT ![process] = "killed"]
      BY <1>2 DEF KillProcess
  <2>2. process \in 1 .. Len(children) /\ "killed" \in Child
      BY <1>2 DEF ChildrenOK, Child
  <2>3. KillProcess \in Seq(Child) /\ Len(KillProcess) = Len(children)
      BY <1>1, <2>1, <2>2
  <2>4. QED
      BY <1>1, <2>1, <2>2, <2>3 DEF Alive
<1>3. CASE ~(process # NoProcess /\ Alive(process))
  <2>1. KillProcess = children
      BY <1>3 DEF KillProcess
  <2>2. \A c \in 1 .. Len(children) : ~Alive(c)
      BY <1>1, <1>3 DEF NoProcess
  <2>3. QED
      BY <1>1, <2>1, <2>2 DEF Alive
<1>4. QED
    BY <1>2, <1>3

\* A child moves on.
LEMMA ChildLemma ==
    ASSUME ChildrenOK, UNCHANGED process,
           NEW c \in DOMAIN children, NEW state \in Child, Alive(c),
           children' = [children EXCEPT ![c] = state]
    PROVE  ChildrenOK'
<1>1. children \in Seq(Child) /\ DOMAIN children = 1 .. Len(children)
    BY DEF ChildrenOK
<1>2. children' \in Seq(Child) /\ Len(children') = Len(children)
      /\ DOMAIN children' = DOMAIN children
    BY <1>1
<1>3. OnlyOneChildLives'
    BY <1>2 DEF ChildrenOK, OnlyOneChildLives, Alive
<1>4. QED
    BY <1>2, <1>3 DEF ChildrenOK

\* Nothing happens to the children.
LEMMA SameChildren ==
    ASSUME ChildrenOK, UNCHANGED <<process, children>>
    PROVE  ChildrenOK' /\ (ChildToRead <=> ChildToRead')
    BY DEF ChildrenOK, ChildToRead, OnlyOneChildLives, Alive

-----------------------------------------------------------------------------
(***************************************************************************)
(* The steps, each with what it does to the children and the file.         *)
(***************************************************************************)

\* Lines are typed and taken.
LinesOK == lines \in Seq({"line", "nothing"}) /\ typed \in Nat /\ eof \in BOOLEAN

\* A step that keeps the parts keeps the invariant.
LEMMA PartsLemma ==
    ASSUME WatcherInv, FileTypeOK', ChildrenOK', LinesOK', AgeOK',
           turn' \in {"begin", "child", "terminal", "events"},
           shown' \in Nat, reports' \in Nat
    PROVE  WatcherInv'
    BY DEF WatcherInv, WatcherTypeOK, ChildrenOK, LinesOK

LEMMA HaveParts ==
    ASSUME WatcherInv
    PROVE  /\ FileTypeOK /\ ChildrenOK /\ LinesOK /\ AgeOK
           /\ turn \in {"begin", "child", "terminal", "events"}
           /\ shown \in Nat /\ reports \in Nat
           /\ file.version \in 0 .. MaxWrites /\ file.version \in Nat
    BY FileAssumption
    DEF WatcherInv, WatcherTypeOK, ChildrenOK, LinesOK, FileTypeOK

\* What a step leaves of the warning that what is shown is old.
Warned == ReportDue \/ ChildToRead
KeepsWarning == UNCHANGED <<file, shown>> /\ (Warned => Warned')

LEMMA BeginWatchingStep ==
    ASSUME WatcherInv, BeginWatching
    PROVE  WatcherInv' /\ KeepsWarning
<1>1. FileTypeOK' /\ UNCHANGED file /\ (ReportDue <=> ReportDue')
    BY HaveParts DEF BeginWatching, StartWatching, FileTypeOK, ReportDue
<1>2. ChildrenOK' /\ (ChildToRead <=> ChildToRead')
    BY HaveParts, SameChildren DEF BeginWatching
<1>3. LinesOK' /\ AgeOK' /\ turn' = "child" /\ UNCHANGED <<shown, reports>>
    BY <1>1, HaveParts DEF BeginWatching, LinesOK, AgeOK, termVars, Nothing
<1>4. QED
    BY <1>1, <1>2, <1>3, HaveParts, PartsLemma DEF KeepsWarning, Warned

LEMMA PollChildStep ==
    ASSUME WatcherInv, PollChild
    PROVE  WatcherInv' /\ KeepsWarning
<1>1. FileTypeOK' /\ UNCHANGED file /\ (ReportDue <=> ReportDue')
    BY HaveParts, NothingHappens DEF PollChild, fileVars
<1>2. ChildrenOK' /\ (ChildToRead <=> ChildToRead')
    BY HaveParts
    DEF PollChild, ChildrenOK, ChildToRead, OnlyOneChildLives, Alive, NoProcess
<1>3. LinesOK' /\ AgeOK' /\ turn' = "terminal" /\ UNCHANGED <<shown, reports>>
    BY <1>1, HaveParts DEF PollChild, LinesOK, AgeOK, termVars, Nothing
<1>4. QED
    BY <1>1, <1>2, <1>3, HaveParts, PartsLemma DEF KeepsWarning, Warned

LEMMA PollTerminalStep ==
    ASSUME WatcherInv, PollTerminal
    PROVE  WatcherInv' /\ KeepsWarning
<1>1. FileTypeOK' /\ UNCHANGED file /\ (ReportDue <=> ReportDue')
    BY HaveParts, NothingHappens DEF PollTerminal, fileVars
<1>2. ASSUME RunProcess(children), process = NoProcess
      PROVE  ChildrenOK' /\ ChildToRead'
  <2>1. /\ children \in Seq(Child)
        /\ \A c \in 1 .. Len(children) : children[c] \notin {"starting", "running"}
      BY <1>2, HaveParts DEF ChildrenOK, OnlyOneChildLives, Alive, NoProcess
  <2>2. QED
      BY <1>2, <2>1, RunProcessLemma
<1>3. ChildrenOK' /\ (ChildToRead => ChildToRead')
  <2>1. CASE UNCHANGED <<process, children>>
      BY <2>1, HaveParts, SameChildren
  <2>2. CASE ~UNCHANGED <<process, children>>
      BY <1>2, <2>2 DEF PollTerminal
  <2>3. QED
      BY <2>1, <2>2
<1>4. LinesOK'
  <2>1. CASE lines = << >> /\ UNCHANGED lines
      BY <2>1, HaveParts DEF PollTerminal, LinesOK
  <2>2. CASE lines # << >> /\ lines' = Tail(lines)
      BY <2>2, HaveParts, TailLemma DEF PollTerminal, LinesOK
  <2>3. QED
      BY <2>1, <2>2 DEF PollTerminal
<1>5. AgeOK' /\ turn' = "events" /\ UNCHANGED <<shown, reports>>
    BY <1>1, HaveParts DEF PollTerminal, AgeOK, Nothing
<1>6. QED
    BY <1>1, <1>3, <1>4, <1>5, HaveParts, PartsLemma DEF KeepsWarning, Warned

LEMMA PollEventsStep ==
    ASSUME WatcherInv, PollEvents
    PROVE  WatcherInv' /\ KeepsWarning
<1>1. /\ LinesOK' /\ turn' = "child" /\ UNCHANGED shown
    BY HaveParts DEF PollEvents, LinesOK, termVars
<1>2. CASE NothingToReceive /\ UNCHANGED <<process, children, reports>>
  <2>1. FileTypeOK' /\ UNCHANGED file /\ (ReportDue <=> ReportDue')
      BY <1>2, HaveParts, NothingHappens DEF NothingToReceive, fileVars
  <2>2. QED
      BY <1>1, <1>2, <2>1, HaveParts, SameChildren, PartsLemma
      DEF KeepsWarning, Warned, AgeOK, Nothing
<1>3. CASE Receive(Notice) /\ UNCHANGED <<process, children, reports>>
  <2>1. FileTypeOK' /\ UNCHANGED file /\ (ReportDue => ReportDue')
      BY <1>3, HaveParts, NoticeLeavesDue DEF Write, Notice
  <2>2. QED
      BY <1>1, <1>3, <2>1, HaveParts, SameChildren, PartsLemma
      DEF KeepsWarning, Warned, AgeOK, Nothing
<1>4. CASE Receive(Write) /\ RunProcess(KillProcess) /\ reports' = reports + 1
  <2>1. FileTypeOK' /\ UNCHANGED file
      BY <1>4, HaveParts, NoticeLeavesDue
  <2>2. ChildrenOK' /\ ChildToRead'
      BY <1>4, HaveParts, KillLemma, RunProcessLemma
  <2>3. AgeOK' /\ reports' \in Nat
      BY <1>1, <1>4, <2>1, HaveParts DEF AgeOK, Nothing
  <2>4. QED
      BY <1>1, <2>1, <2>2, <2>3, HaveParts, PartsLemma DEF KeepsWarning, Warned
<1>5. QED
    BY <1>2, <1>3, <1>4 DEF PollEvents

LEMMA ChildReadsStep ==
    ASSUME WatcherInv, ChildReads
    PROVE  WatcherInv' /\ UNCHANGED file /\ shown' = file'.version
<1>1. FileTypeOK' /\ UNCHANGED file
    BY HaveParts, NothingHappens DEF ChildReads, fileVars
<1>2. ChildrenOK'
  <2>1. PICK c \in DOMAIN children :
            /\ children[c] = "starting"
            /\ children' = [children EXCEPT ![c] = "running"]
      BY DEF ChildReads
  <2>2. "running" \in Child /\ Alive(c) /\ UNCHANGED process
      BY <2>1 DEF ChildReads, Child, Alive
  <2>3. QED
      BY <2>1, <2>2, HaveParts, ChildLemma
<1>3. LinesOK' /\ UNCHANGED <<turn, reports>> /\ shown' = file'.version
    BY <1>1, HaveParts DEF ChildReads, LinesOK, termVars
<1>4. AgeOK' /\ shown' \in Nat
    BY <1>1, <1>3, HaveParts DEF AgeOK
<1>5. QED
    BY <1>1, <1>2, <1>3, <1>4, HaveParts, PartsLemma

LEMMA ChildExitsStep ==
    ASSUME WatcherInv, ChildExits
    PROVE  WatcherInv' /\ KeepsWarning
<1>1. FileTypeOK' /\ UNCHANGED file /\ (ReportDue <=> ReportDue')
    BY HaveParts, NothingHappens DEF ChildExits, fileVars
<1>2. ChildrenOK' /\ (ChildToRead => ChildToRead')
  <2>1. PICK c \in DOMAIN children :
            /\ children[c] = "running"
            /\ children' = [children EXCEPT ![c] = "exited"]
      BY DEF ChildExits
  <2>2. "exited" \in Child /\ Alive(c) /\ UNCHANGED process
      BY <2>1 DEF ChildExits, Child, Alive
  <2>3. ChildToRead => ChildToRead'
    <3>1. ASSUME NEW d \in DOMAIN children, children[d] = "starting"
          PROVE  d \in DOMAIN children' /\ children'[d] = "starting"
        BY <2>1, <3>1
    <3>2. QED
        BY <3>1 DEF ChildToRead
  <2>4. QED
      BY <2>1, <2>2, <2>3, HaveParts, ChildLemma
<1>3. LinesOK' /\ AgeOK' /\ UNCHANGED <<turn, shown, reports>>
    BY <1>1, HaveParts DEF ChildExits, LinesOK, AgeOK, termVars, Nothing
<1>4. QED
    BY <1>1, <1>2, <1>3, HaveParts, PartsLemma DEF KeepsWarning, Warned

LEMMA TerminalStep ==
    ASSUME WatcherInv, TypeLine \/ CloseTerminal \/ ReadNothing \/ UNCHANGED watcherVars
    PROVE  WatcherInv' /\ KeepsWarning
<1>1. UNCHANGED <<fileVars, mainVars, shown>>
    BY DEF TypeLine, CloseTerminal, ReadNothing, watcherVars
<1>2. FileTypeOK' /\ UNCHANGED file /\ (ReportDue <=> ReportDue')
    BY <1>1, HaveParts, NothingHappens DEF fileVars
<1>3. ChildrenOK' /\ (ChildToRead <=> ChildToRead')
    BY <1>1, HaveParts, SameChildren DEF mainVars
<1>4. LinesOK'
  <2>1. /\ Append(lines, "line") \in Seq({"line", "nothing"})
        /\ Append(lines, "nothing") \in Seq({"line", "nothing"})
      BY HaveParts DEF LinesOK
  <2>2. CASE TypeLine
      BY <2>1, <2>2, HaveParts DEF TypeLine, LinesOK
  <2>3. CASE CloseTerminal
      BY <2>3, HaveParts DEF CloseTerminal, LinesOK
  <2>4. CASE ReadNothing
      BY <2>1, <2>4, HaveParts DEF ReadNothing, LinesOK
  <2>5. CASE UNCHANGED watcherVars
      BY <2>5, HaveParts DEF watcherVars, termVars, LinesOK
  <2>6. QED
      BY <2>2, <2>3, <2>4, <2>5
<1>5. AgeOK' /\ UNCHANGED <<turn, shown, reports>>
    BY <1>1, <1>2, HaveParts DEF AgeOK, mainVars, Nothing
<1>6. QED
    BY <1>2, <1>3, <1>4, <1>5, HaveParts, PartsLemma DEF KeepsWarning, Warned

LEMMA EditStep ==
    ASSUME WatcherInv, EditFile
    PROVE  /\ WatcherInv' /\ UNCHANGED shown
           /\ file'.version = file.version + 1
           /\ watched => ReportDue'
<1>1. /\ FileTypeOK' /\ file'.version = file.version + 1
      /\ watched => ReportDue'
    BY HaveParts, EditIsDue DEF EditFile
<1>2. ChildrenOK' /\ LinesOK' /\ UNCHANGED <<turn, shown, reports>>
    BY HaveParts, SameChildren DEF EditFile, mainVars, termVars, LinesOK
<1>3. AgeOK'
    BY <1>1, <1>2, HaveParts DEF AgeOK, Nothing
<1>4. QED
    BY <1>1, <1>2, <1>3, HaveParts, PartsLemma

LEMMA ReportStep ==
    ASSUME WatcherInv, ReportWrite
    PROVE  WatcherInv' /\ KeepsWarning
<1>1. FileTypeOK' /\ UNCHANGED file /\ ReportDue'
    BY HaveParts, ReportIsDue DEF ReportWrite
<1>2. ChildrenOK' /\ LinesOK' /\ UNCHANGED <<turn, shown, reports>>
    BY HaveParts, SameChildren DEF ReportWrite, mainVars, termVars, LinesOK
<1>3. AgeOK'
    BY <1>1, <1>2, HaveParts DEF AgeOK, Nothing
<1>4. QED
    BY <1>1, <1>2, <1>3, HaveParts, PartsLemma DEF KeepsWarning, Warned

-----------------------------------------------------------------------------
(***************************************************************************)
(* The theorems.                                                           *)
(***************************************************************************)

LEMMA InitInv == WatcherInit => WatcherInv
<1> SUFFICES ASSUME WatcherInit PROVE WatcherInv
    OBVIOUS
<1>1. FileTypeOK
  <2>1. << >> \in Seq({Write, Notice})
      OBVIOUS
  <2>2. file \in [version : 0 .. MaxWrites, text : Texts]
      BY FileAssumption DEF WatcherInit, FileInit
  <2>3. QED
      BY <2>1, <2>2 DEF WatcherInit, FileInit, FileTypeOK
<1>2. ChildrenOK
  <2>1. "starting" \in Child
      BY DEF Child
  <2>2. /\ children \in Seq(Child) /\ Len(children) = 1 /\ process = 1
        /\ DOMAIN children = 1 .. 1
      BY <2>1 DEF WatcherInit
  <2>3. QED
      BY <2>2 DEF ChildrenOK, OnlyOneChildLives
<1>3. LinesOK /\ reports \in Nat /\ turn = "begin"
  <2>1. << >> \in Seq({"line", "nothing"})
      OBVIOUS
  <2>2. QED
      BY <2>1 DEF WatcherInit, LinesOK
<1>4. AgeOK /\ shown \in Nat
    BY FileAssumption DEF WatcherInit, AgeOK, Nothing
<1>5. QED
    BY <1>1, <1>2, <1>3, <1>4 DEF WatcherInv, WatcherTypeOK, ChildrenOK, LinesOK

\* What a step may do: write to the file, read it, or leave the warning be.
LEMMA StepLemma ==
    ASSUME WatcherInv, [WatcherNext]_watcherVars
    PROVE  /\ WatcherInv'
           /\ EditFile \/ ChildReads \/ KeepsWarning
    BY BeginWatchingStep, PollChildStep, PollTerminalStep, PollEventsStep,
       ChildReadsStep, ChildExitsStep, TerminalStep, EditStep, ReportStep
    DEF WatcherNext, MainStep

THEOREM WatcherInvariant == WatcherSpec => []WatcherInv
<1>1. WatcherInv /\ [WatcherNext]_watcherVars => WatcherInv'
    BY StepLemma
<1>2. QED
    BY <1>1, InitInv, PTL DEF WatcherSpec

\* The variables keep their types.
THEOREM WatcherTypes == WatcherSpec => []WatcherTypeOK
<1>1. WatcherInv => WatcherTypeOK
    BY DEF WatcherInv
<1>2. QED
    BY <1>1, WatcherInvariant, PTL

\* No child is forgotten while it runs (watcher.rs:69-113).
THEOREM OneChild == WatcherSpec => []OnlyOneChildLives
<1>1. WatcherInv => OnlyOneChildLives
    BY DEF WatcherInv
<1>2. QED
    BY <1>1, WatcherInvariant, PTL

\* No write is lost, unless it comes between the start of the first child and
\* the begin of watching (watcher.rs:105-123).
THEOREM NoWriteLost ==
    ASSUME EditsAtStart = FALSE
    PROVE  WatcherSpec => []StaleIsNoticed
<1> DEFINE Noticed == shown # file.version => Warned
<1>1. WatcherInit => Noticed
    BY DEF WatcherInit, Warned, ChildToRead
<1>2. WatcherInv /\ Noticed /\ [WatcherNext]_watcherVars => Noticed'
  <2> SUFFICES ASSUME WatcherInv, Noticed, [WatcherNext]_watcherVars PROVE Noticed'
      OBVIOUS
  <2>1. CASE EditFile
      BY <2>1, EditStep DEF EditFile, Warned
  <2>2. CASE ChildReads
      BY <2>2, ChildReadsStep
  <2>3. CASE KeepsWarning
      BY <2>3 DEF KeepsWarning
  <2>4. QED
      BY <2>1, <2>2, <2>3, StepLemma
<1>3. Noticed => StaleIsNoticed
    BY DEF StaleIsNoticed, Warned, ChildToRead
<1>4. QED
    BY <1>1, <1>2, <1>3, WatcherInvariant, PTL DEF WatcherSpec

\* Every step of the watcher is one of a live reload, or none: no child runs an
\* older text than one before it (watcher.rs:68-125).
THEOREM WatcherNeverGoesBack ==
    WatcherSpec => Live!LiveInit /\ [][Live!LiveNext]_(Live!liveVars)
<1>1. WatcherInit => Live!LiveInit
    BY DEF WatcherInit, FileInit, Live!LiveInit
<1>2. WatcherInv /\ [WatcherNext]_watcherVars => [Live!LiveNext]_(Live!liveVars)
  <2> SUFFICES ASSUME WatcherInv, [WatcherNext]_watcherVars
               PROVE  [Live!LiveNext]_(Live!liveVars)
      OBVIOUS
  <2> USE DEF Live!LiveNext, Live!liveVars
  <2>1. CASE EditFile
      BY <2>1, EditStep DEF Live!Change
  <2>2. CASE ChildReads
    <3>1. /\ UNCHANGED file /\ shown' = file.version /\ file.version \in Nat
          /\ shown = Nothing \/ shown <= file.version
        BY <2>2, ChildReadsStep, HaveParts DEF AgeOK
    <3>2. QED
        BY <3>1 DEF Live!Show, Live!Newer
  <2>3. CASE KeepsWarning
      BY <2>3 DEF KeepsWarning
  <2>4. QED
      BY <2>1, <2>2, <2>3, StepLemma
<1>3. QED
    BY <1>1, <1>2, WatcherInvariant, PTL DEF WatcherSpec

=============================================================================
