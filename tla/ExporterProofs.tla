--------------------------- MODULE ExporterProofs ---------------------------
(***************************************************************************)
(* Types of the exporter, that its verdict stands on the window it read,   *)
(* and that a removal is reported, for any journeys, services, windows,    *)
(* reports and policies.                                                   *)
(***************************************************************************)
EXTENDS Exporter, TLAPS

-----------------------------------------------------------------------------
\* A context names what its window lacks.
Lists(context, summary) ==
  /\ context.relevant = Relevant \ summary.services
  /\ context.endpoints = Journeys \ summary.endpoints

\* A summary with an id is of this window or of an earlier one.
Follows(summary) ==
  /\ summary.id <= window.id
  /\ summary.id = window.id => summary = Summary(window)

\* The page and the cycle under way each go with the window they were made of,
\* and the cycle has compared its window with the page's.
ReadInv ==
  /\ lastRead = page.summary \/ (lastRead = None /\ page.summary.id = 0)
  /\ lastRead # None => Lists(page.context, page.summary)
  /\ got.read => Lists(got.context, got.summary)
  /\ ~got.read => got.summary.id = 0
  /\ Follows(page.summary) /\ Follows(got.summary)
  /\ got.read /\ page.summary.id # 0 =>
       (page.summary.services \cap Relevant) \ got.summary.services \subseteq got.context.removed

\* A cycle that writes has written the files before the next one.
WrittenInv ==
  /\ pc \in {"writeReport", "writeContext", "update"} => mirror["status"] = "got"
  /\ pc \in {"writeContext", "update"} => mirror["report"] = "got"
  /\ pc = "update" => mirror["context"] = "got"

IInv == TypeOK /\ ReadInv /\ WrittenInv /\ MirrorsAgree

-----------------------------------------------------------------------------
\* What WindowFile puts into a window, and Summary takes out of it.
LEMMA WindowFacts ==
  ASSUME NEW w, NEW n, w \in WindowFile(n)
  PROVE  /\ w.id = n
         /\ w.services \in SUBSET Services /\ w.endpoints \in SUBSET Journeys
         /\ SnapshotId(w) \in {0, n}
         /\ Summary(w) = [id |-> SnapshotId(w), services |-> w.services, endpoints |-> w.endpoints]
BY ExporterAssumption DEF WindowFile, Summary, SnapshotId

\* Relevant services are services.
LEMMA RelevantServices == Relevant \in SUBSET Services
BY ExporterAssumption DEF Relevant

\* What stands for nothing has the type of what it stands for.
LEMMA Empties ==
  /\ NoContext \in Contexts /\ NoSummary \in Summaries
  /\ Nothing \in [status : Statuses, report : Reports \cup {NoReport},
                  context : Contexts, summary : Summaries, read : BOOLEAN]
  /\ EmptyPage \in [ready : BOOLEAN, status : Statuses, report : Reports \cup {NoReport},
                    context : Contexts, summary : Summaries]
BY ExporterAssumption
   DEF NoContext, NoSummary, Contexts, Summaries, Nothing, EmptyPage, Statuses

\* What a comparison yields, and that it misses nothing.
LEMMA ComparedFacts ==
  ASSUME NEW w, NEW n \in 1 .. MaxWindows, w \in WindowFile(n), NEW previous \in Summaries
  PROVE  /\ Compared(w, previous) \in Contexts
         /\ Summary(w) \in Summaries
         /\ Lists(Compared(w, previous), Summary(w))
         /\ previous.id \notin {0, SnapshotId(w)} =>
              (previous.services \cap Relevant) \ w.services
                \subseteq Compared(w, previous).removed
<1>1. /\ w.id = n /\ w.services \in SUBSET Services /\ w.endpoints \in SUBSET Journeys
      /\ SnapshotId(w) \in {0, n}
      /\ Summary(w) = [id |-> SnapshotId(w), services |-> w.services, endpoints |-> w.endpoints]
  BY WindowFacts
<1>2. Summary(w) \in Summaries
  BY <1>1, ExporterAssumption DEF Summaries
<1>3. Compared(w, previous) \in Contexts
  BY <1>1, RelevantServices, ExporterAssumption DEF Compared, Contexts, Summaries
<1>4. Lists(Compared(w, previous), Summary(w))
  BY <1>1 DEF Lists, Compared
<1>5. ASSUME previous.id \notin {0, SnapshotId(w)}
      PROVE  (previous.services \cap Relevant) \ w.services
                \subseteq Compared(w, previous).removed
  BY <1>5 DEF Compared
<1> QED BY <1>2, <1>3, <1>4, <1>5

-----------------------------------------------------------------------------
\* In the first state nothing is shown and nothing has been read.
LEMMA Initially == Init => IInv
<1> SUFFICES ASSUME Init PROVE IInv
  OBVIOUS
<1>1. window \in UNION {WindowFile(id) : id \in 1 .. MaxWindows} /\ window.id = 1
  BY WindowFacts, ExporterAssumption DEF Init
<1>2. TypeOK
  BY <1>1, Empties DEF Init, TypeOK, Places, Files
<1>3. ReadInv
  BY <1>1 DEF Init, ReadInv, Lists, Follows, EmptyPage, Nothing, NoSummary, NoContext
<1>4. WrittenInv /\ MirrorsAgree
  BY DEF Init, WrittenInv, MirrorsAgree, EmptyPage
<1> QED
  BY <1>2, <1>3, <1>4 DEF IInv

-----------------------------------------------------------------------------
\* What a cycle has got, and what is shown, have their types.
LEMMA TypeStep == TypeOK /\ [Next]_vars => TypeOK'
<1> SUFFICES ASSUME TypeOK, [Next]_vars PROVE TypeOK'
  OBVIOUS
<1> USE DEF TypeOK, Places, Files
<1>1. CASE UNCHANGED vars
  BY <1>1 DEF vars
<1>2. CASE WriteWindow
  <2>1. PICK n \in 1 .. MaxWindows : window \in WindowFile(n)
    OBVIOUS
  <2>2. window.id + 1 \in 1 .. MaxWindows
    BY <1>2, <2>1, WindowFacts, ExporterAssumption DEF WriteWindow
  <2> QED
    BY <1>2, <2>2 DEF WriteWindow
<1>3. ASSUME NEW r \in Reports, Analyse(r) PROVE TypeOK'
  BY <1>3 DEF Analyse
<1>4. CASE GetStatus
  <2>1. sheaft.decision \in Statuses
    BY <1>4 DEF GetStatus, Statuses
  <2> QED
    BY <1>4, <2>1 DEF GetStatus
<1>5. CASE GetReport
  BY <1>5 DEF GetReport
<1>6. CASE ReadWindow
  <2>1. PICK n \in 1 .. MaxWindows : window \in WindowFile(n)
    OBVIOUS
  <2>2. page.summary \in Summaries
    OBVIOUS
  <2>3. Compared(window, page.summary) \in Contexts /\ Summary(window) \in Summaries
    BY <2>1, <2>2, ComparedFacts
  <2> QED
    BY <1>6, <2>3, Empties DEF ReadWindow
<1>7. CASE Write
  BY <1>7 DEF Write, WriteMirror
<1>8. CASE Update
  BY <1>8, Empties DEF Update, external
<1>9. CASE Fail
  BY <1>9, Empties DEF Fail
<1>10. CASE Die \/ ReadOdd
  BY <1>10 DEF Die, ReadOdd
<1>11. CASE Restart
  BY <1>11, Empties DEF Restart, external
<1> QED
  BY <1>1, <1>2, <1>3, <1>4, <1>5, <1>6, <1>7, <1>8, <1>9, <1>10, <1>11 DEF Next, Poll

\* A cycle compares its window with the one shown, and shows it with that.
LEMMA ReadStep == IInv /\ [Next]_vars => ReadInv'
<1> SUFFICES ASSUME TypeOK, ReadInv, [Next]_vars PROVE ReadInv'
  BY DEF IInv
<1>1. PICK n \in 1 .. MaxWindows : window \in WindowFile(n)
  BY DEF TypeOK
<1>2. window.id = n /\ page.summary \in Summaries /\ got.summary \in Summaries
  BY <1>1, WindowFacts DEF TypeOK
<1>3. CASE UNCHANGED vars
  BY <1>3 DEF vars, ReadInv, Lists, Follows
<1>4. CASE WriteWindow
  <2>1. window' \in WindowFile(n + 1) /\ UNCHANGED <<got, page, lastRead>>
    BY <1>4, <1>2 DEF WriteWindow
  <2>2. window'.id = n + 1
    BY <2>1, WindowFacts
  <2>3. page.summary.id <= n /\ got.summary.id <= n
    BY <1>2 DEF ReadInv, Follows
  <2>4. Follows(page.summary)' /\ Follows(got.summary)'
    BY <2>1, <2>2, <2>3, <1>2 DEF Follows, Summaries
  <2> QED
    BY <2>1, <2>4 DEF ReadInv, Lists
<1>5. ASSUME NEW r \in Reports, Analyse(r) PROVE ReadInv'
  BY <1>5 DEF Analyse, ReadInv, Lists, Follows
<1>6. CASE GetStatus \/ GetReport
  <2>1. /\ got'.summary = got.summary /\ got'.context = got.context /\ got'.read = got.read
        /\ UNCHANGED <<window, page, lastRead>>
    BY <1>6 DEF GetStatus, GetReport, TypeOK
  <2> QED
    BY <2>1 DEF ReadInv, Lists, Follows
<1>7. CASE ReadWindow
  <2>1. UNCHANGED <<window, page, lastRead>>
    BY <1>7 DEF ReadWindow
  <2>2. CASE window.condition = "unreadable"
    <3>1. got'.summary = NoSummary /\ got'.read = FALSE
      BY <1>7, <2>2 DEF ReadWindow, TypeOK
    <3>2. Follows(got.summary)'
      BY <2>1, <3>1, <1>2 DEF Follows, NoSummary
    <3> QED
      BY <2>1, <3>1, <3>2 DEF ReadInv, NoSummary, Lists, Follows
  <2>3. CASE window.condition # "unreadable"
    <3>1. /\ got'.summary = Summary(window) /\ got'.context = Compared(window, page.summary)
          /\ got'.read = TRUE
      BY <1>7, <2>3 DEF ReadWindow, TypeOK
    <3>2. /\ Lists(Compared(window, page.summary), Summary(window))
          /\ page.summary.id \notin {0, SnapshotId(window)} =>
               (page.summary.services \cap Relevant) \ window.services
                 \subseteq Compared(window, page.summary).removed
      BY <1>1, <1>2, ComparedFacts
    <3>3. Lists(got.context, got.summary)' /\ Follows(got.summary)'
      BY <2>1, <3>1, <3>2, <1>1, <1>2, WindowFacts DEF Lists, Follows
    <3>4. page.summary.id # 0 =>
            (page.summary.services \cap Relevant) \ Summary(window).services
              \subseteq Compared(window, page.summary).removed
      <4>1. CASE page.summary.id = window.id
        BY <4>1 DEF ReadInv, Follows
      <4>2. CASE page.summary.id # window.id
        <5>1. page.summary.id # 0 => page.summary.id \notin {0, SnapshotId(window)}
          BY <4>2, <1>1, <1>2, WindowFacts
        <5> QED
          BY <5>1, <3>2 DEF Summary
      <4> QED
        BY <4>1, <4>2
    <3> QED
      BY <2>1, <3>1, <3>3, <3>4 DEF ReadInv, Lists, Follows
  <2> QED
    BY <2>2, <2>3
<1>8. CASE Write \/ Die \/ ReadOdd
  BY <1>8 DEF Write, WriteMirror, Die, ReadOdd, ReadInv, Lists, Follows
<1>9. CASE Update
  <2>1. /\ page'.summary = got.summary /\ page'.context = got.context
        /\ got' = Nothing /\ window' = window
        /\ lastRead' = IF got.read THEN got.summary ELSE None
    BY <1>9 DEF Update, external
  <2> QED
    BY <2>1, <1>2 DEF ReadInv, Lists, Follows, Nothing, NoSummary
<1>10. CASE Fail
  <2>1. got' = Nothing /\ UNCHANGED <<window, page, lastRead>>
    BY <1>10 DEF Fail
  <2> QED
    BY <2>1, <1>2 DEF ReadInv, Lists, Follows, Nothing, NoSummary
<1>11. CASE Restart
  <2>1. got' = Nothing /\ page' = EmptyPage /\ lastRead' = None /\ window' = window
    BY <1>11 DEF Restart, external
  <2> QED
    BY <2>1, <1>2 DEF ReadInv, Lists, Follows, Nothing, NoSummary, EmptyPage
<1> QED
  BY <1>3, <1>4, <1>5, <1>6, <1>7, <1>8, <1>9, <1>10, <1>11 DEF Next, Poll

\* Each cycle writes every file before it is shown, or shows an error.
LEMMA MirrorStep == IInv /\ [Next]_vars => (WrittenInv /\ MirrorsAgree)'
<1> SUFFICES ASSUME TypeOK, WrittenInv, MirrorsAgree, [Next]_vars
             PROVE  (WrittenInv /\ MirrorsAgree)'
  BY DEF IInv
<1> USE DEF WrittenInv, MirrorsAgree
<1>1. CASE UNCHANGED vars \/ WriteWindow \/ \E r \in Reports : Analyse(r)
  BY <1>1 DEF vars, WriteWindow, Analyse
<1>2. CASE GetStatus \/ GetReport \/ ReadWindow
  BY <1>2 DEF GetStatus, GetReport, ReadWindow
<1>3. CASE Write
  BY <1>3 DEF Write, WriteMirror, TypeOK, Files
<1>4. CASE Update
  BY <1>4 DEF Update, Files
<1>5. CASE Fail
  BY <1>5 DEF Fail
<1>6. CASE Die \/ ReadOdd
  BY <1>6 DEF Die, ReadOdd
<1>7. CASE Restart
  BY <1>7 DEF Restart, EmptyPage
<1> QED
  BY <1>1, <1>2, <1>3, <1>4, <1>5, <1>6, <1>7 DEF Next, Poll

-----------------------------------------------------------------------------
\* The results a profile of the page gives, by normalized_profiles.
LEMMA ShownResults ==
  ASSUME TypeOK, NEW name \in DOMAIN ShownProfiles, NEW j \in DOMAIN ShownProfiles[name]
  PROVE  ShownProfiles[name][j] \in Results
<1> DEFINE report == page.report
<1>1. report \in Reports \cup {NoReport}
  BY DEF TypeOK
<1>2. CASE DOMAIN report.profiles # {}
  <2>1. report \in Reports
    BY <1>1, <1>2 DEF NoReport
  <2>2. ShownProfiles = report.profiles
    BY <1>2 DEF ShownProfiles, Profiles
  <2> QED
    BY <2>1, <2>2, ExporterAssumption
<1>3. CASE DOMAIN report.profiles = {}
  <2>1. CASE DOMAIN report.results # {}
    <3>1. ShownProfiles = [n \in {"default"} |-> report.results]
      BY <1>3, <2>1 DEF ShownProfiles, Profiles
    <3>2. ShownProfiles[name] = report.results
      BY <3>1
    <3>3. report \in Reports
      BY <1>1, <2>1 DEF NoReport
    <3> QED
      BY <3>2, <3>3, ExporterAssumption
  <2>2. CASE DOMAIN report.results = {}
    BY <1>3, <2>2 DEF ShownProfiles, Profiles
  <2> QED
    BY <2>1, <2>2
<1> QED
  BY <1>2, <1>3

\* An endpoint that is not below its threshold is available and in the profile.
LEMMA AboveThreshold ==
  ASSUME NEW results, NEW unavailable, NEW j \in Journeys,
         j \in DOMAIN results => results[j] \in Results,
         BelowThreshold(results, unavailable) = {}
  PROVE  j \in DOMAIN results \ unavailable
<1>1. ~(Availability(results, unavailable, j) < Threshold(results, j))
  BY DEF BelowThreshold
<1>2. Threshold(results, j) \in Nat /\ Threshold(results, j) > 0
  BY PolicyAssumption DEF Threshold, Results
<1>3. CASE j \notin DOMAIN results \ unavailable
  BY <1>1, <1>2, <1>3 DEF Availability
<1> QED
  BY <1>3

\* The invariant gives what a verdict other than fail vouches for.
LEMMA Backed == IInv => VerdictIsBacked
<1> SUFFICES ASSUME IInv, ShownDecision # "fail", lastRead # None, DOMAIN ShownProfiles # {},
                    NEW j \in Journeys
             PROVE  /\ \A name \in DOMAIN ShownProfiles : j \in DOMAIN ShownProfiles[name]
                    /\ j \in lastRead.endpoints
                    /\ j \in Default => Depends[j] \subseteq lastRead.services
  BY DEF VerdictIsBacked
<1> DEFINE U == Unavailable(page.context)
<1>1. ~SevereBreach(ShownProfiles, U)
  BY DEF ShownDecision, Decision
<1>2. \A name \in DOMAIN ShownProfiles : BelowThreshold(ShownProfiles[name], U) = {}
  BY <1>1 DEF SevereBreach
<1>3. ASSUME NEW name \in DOMAIN ShownProfiles
      PROVE  j \in DOMAIN ShownProfiles[name] \ U
  <2>1. j \in DOMAIN ShownProfiles[name] => ShownProfiles[name][j] \in Results
    BY ShownResults DEF IInv
  <2> QED
    BY <1>2, <2>1, AboveThreshold
<1>4. j \notin page.context.endpoints /\ page.context.relevant \cap Depends[j] = {}
  BY <1>3 DEF Unavailable
<1>5. /\ lastRead = page.summary
      /\ page.context.relevant = Relevant \ lastRead.services
      /\ page.context.endpoints = Journeys \ lastRead.endpoints
  BY DEF IInv, ReadInv, Lists
<1>6. j \in Default => Depends[j] \subseteq Relevant
  BY DEF Relevant, Depends
<1> QED
  BY <1>3, <1>4, <1>5, <1>6

\* The invariant gives what is shown as removed when a cycle ends.
LEMMA Reported ==
  IInv /\ Update /\ lastRead # None /\ lastRead.id # 0 /\ lastRead' # None =>
    (lastRead.services \cap Relevant) \ lastRead'.services \subseteq page'.context.removed
<1> SUFFICES ASSUME IInv, Update, lastRead # None, lastRead.id # 0, lastRead' # None
             PROVE  (lastRead.services \cap Relevant) \ lastRead'.services
                      \subseteq page'.context.removed
  OBVIOUS
<1>1. lastRead = page.summary /\ page.summary.id # 0
  BY DEF IInv, ReadInv
<1>2. lastRead' = got.summary /\ got.read /\ page'.context = got.context
  BY DEF Update
<1> QED
  BY <1>1, <1>2 DEF IInv, ReadInv

-----------------------------------------------------------------------------
\* The inductive invariant holds in every state the exporter can reach.
THEOREM Invariance == Spec => []IInv
<1>1. IInv /\ [Next]_vars => IInv'
  BY TypeStep, ReadStep, MirrorStep DEF IInv
<1> QED
  BY <1>1, Initially, PTL DEF Spec

\* The types are kept by polling, failing, dying and restarting.
THEOREM TypeCorrect == Spec => []TypeOK
<1>1. IInv => TypeOK
  BY DEF IInv
<1> QED
  BY <1>1, Invariance, PTL

\* A verdict other than fail vouches for every journey in the report and in
\* the window read with it, whatever came between the reads of a cycle.
THEOREM Verdicts == Spec => []VerdictIsBacked
<1> QED
  BY Backed, Invariance, PTL

\* Without an error, and between two cycles, the mirror files are those of the
\* cycle shown.
THEOREM Mirrors == Spec => []MirrorsAgree
<1>1. IInv => MirrorsAgree
  BY DEF IInv
<1> QED
  BY <1>1, Invariance, PTL

\* A service that has gone since the window shown last is shown as removed,
\* whatever failed in between, where that window had an id.
THEOREM Removals == Spec => RemovalIsReported
<1>1. IInv /\ [Next]_vars =>
        [Update /\ lastRead # None /\ lastRead.id # 0 /\ lastRead' # None =>
           (lastRead.services \cap Relevant) \ lastRead'.services
             \subseteq page'.context.removed]_vars
  BY Reported
<1> QED
  BY <1>1, Invariance, PTL DEF Spec, RemovalIsReported
=============================================================================
