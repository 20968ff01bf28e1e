-------------------------- MODULE FileEventsProofs --------------------------
(***************************************************************************)
(* What each thing that may happen to a watched file does to the reports   *)
(* that are due: facts for the proofs of those who wait for them.          *)
(***************************************************************************)
EXTENDS FileEvents, Lemmas

\* What is due stays due as long as the file and its events are left alone.
LEMMA NothingHappens ==
    ASSUME FileTypeOK, UNCHANGED fileVars
    PROVE  FileTypeOK' /\ (ReportDue <=> ReportDue')
    BY DEF FileTypeOK, ReportDue, fileVars

\* Of a watched file each write makes a report due.
LEMMA EditIsDue ==
    ASSUME FileTypeOK, Edit
    PROVE  /\ FileTypeOK'
           /\ file'.version = file.version + 1
           /\ UNCHANGED watched
           /\ watched => ReportDue'
<1>1. FileTypeOK'
  <2>1. file' \in [version : 0 .. MaxWrites, text : Texts]
      BY FileAssumption DEF FileTypeOK, Edit
  <2>2. events' \in Seq({Write, Notice})
      BY PushLemma DEF FileTypeOK, Edit
  <2>3. QED
      BY <2>1, <2>2 DEF FileTypeOK, Edit
<1>2. QED
    BY <1>1 DEF FileTypeOK, Edit, ReportDue

\* A report is due until it is received.
LEMMA ReportIsDue ==
    ASSUME FileTypeOK, Report
    PROVE  FileTypeOK' /\ ReportDue' /\ UNCHANGED <<file, watched>>
<1>1. /\ events' = Append(events, Write)
      /\ UNCHANGED <<file, watched>>
      /\ unreported' = FALSE
      /\ events \in Seq({Write, Notice})
    BY DEF FileTypeOK, Report
<1>2. /\ events' \in Seq({Write, Notice})
      /\ Len(events) + 1 \in 1 .. Len(events')
      /\ events'[Len(events) + 1] = Write
    BY <1>1, PushLemma
<1>3. FileTypeOK'
    BY <1>1, <1>2 DEF FileTypeOK
<1>4. QED
    BY <1>1, <1>2, <1>3 DEF ReportDue

\* To receive something else than a report leaves what is due.
LEMMA NoticeLeavesDue ==
    ASSUME FileTypeOK, NEW kind, Receive(kind)
    PROVE  /\ FileTypeOK'
           /\ UNCHANGED <<file, watched>>
           /\ kind # Write /\ ReportDue => ReportDue'
<1> DEFINE Kinds == {Write, Notice}
<1>1. /\ events # << >> /\ events \in Seq(Kinds)
      /\ Head(events) = kind
      /\ events' = Tail(events)
      /\ UNCHANGED <<file, watched, unreported>>
    BY DEF FileTypeOK, Receive
<1>2. /\ events' \in Seq(Kinds)
      /\ kind = events[1]
      /\ Len(events) \in Nat \ {0}
      /\ Len(events') = Len(events) - 1
      /\ \A i \in 1 .. Len(events') : events'[i] = events[i + 1]
    <2> HIDE DEF Kinds
    <2> QED
      BY <1>1, TailLemma
<1>3. FileTypeOK'
    BY <1>1, <1>2 DEF FileTypeOK
<1>4. ASSUME kind # Write, NEW i \in 1 .. Len(events), events[i] = Write
      PROVE  \E j \in 1 .. Len(events') : events'[j] = Write
  <2>1. i - 1 \in 1 .. Len(events') /\ i = (i - 1) + 1
      BY <1>2, <1>4
  <2>2. events'[i - 1] = Write
      BY <1>2, <1>4, <2>1
  <2>3. QED
      BY <2>1, <2>2
<1>5. QED
    BY <1>1, <1>3, <1>4 DEF ReportDue

=============================================================================
