------------------------------ MODULE Exporter ------------------------------
(***************************************************************************)
(* The MB3R exporter (src/mb3r/exporter/exporter.py): a thread that polls  *)
(* Sheaft for its status and its report, reads the raw window that Bering  *)
(* writes, mirrors what it has got to files, and then replaces, under a    *)
(* lock, the state from which the metrics pages are made.                  *)
(*                                                                         *)
(* Sheaft and Bering are external.  A request, or writing a file, may fail *)
(* with an exception poll_loop expects, which ends the cycle and is shown; *)
(* after another one (an answer that is cut off, a window that is JSON but *)
(* no object) the thread is dead.  The process lives on, and so does       *)
(* /healthz.                                                               *)
(***************************************************************************)
EXTENDS Verdict

CONSTANTS
  Services,
  Configured,  \* the dependency file: the services some endpoints require
  Default,     \* the endpoints of DEFAULT_EXPECTED_ENDPOINT_WEIGHTS
  Reports,     \* reports of Sheaft, with their decision
  Windows,     \* what raw windows may hold: an id, services and endpoints
  None,
  MaxWindows   \* bound: windows written

ASSUME ExporterAssumption ==
  /\ IsFiniteSet(Services)
  /\ Configured \in [DOMAIN Configured -> SUBSET Services]
  /\ \A r \in Reports :
       /\ DOMAIN r = {"profiles", "results", "decision"}
       /\ \A n \in DOMAIN r.profiles : \A e \in DOMAIN r.profiles[n] : r.profiles[n][e] \in Results
       /\ \A e \in DOMAIN r.results : r.results[e] \in Results
  /\ Windows \subseteq [named : BOOLEAN, services : SUBSET Services, endpoints : SUBSET Journeys]
  /\ None \notin Reports
  /\ MaxWindows \in Nat \ {0}

\* JOURNEY_DEPENDENCIES: of the endpoints that are expected, which is configured.
Depends == [j \in Journeys |-> IF j \in DOMAIN Configured THEN Configured[j] ELSE {}]

\* RELEVANT_SERVICES: of the endpoints that are expected by default, whether
\* or not they are among those that are.
Relevant == UNION {Configured[j] : j \in Default \cap DOMAIN Configured}

Files == {"status", "report", "context"}

VARIABLES
  window,   \* the raw window in its file: id, whether it can be read, and what it holds
  sheaft,   \* the report Sheaft has, or None
  pc,       \* the step of poll_loop that is next, or dead
  got,      \* what this cycle has got: status, report, context and summary,
            \* and, for lastRead, whether it could read the window
  page,     \* State, without its error
  error,    \* State.last_error is not empty
  mirror,   \* what each mirror file holds: what is shown, what this cycle got, or else
  lastRead  \* history: the window that the cycle shown had read

external == <<window, sheaft>>
vars == <<window, sheaft, pc, got, page, error, mirror, lastRead>>

NoSummary == [id |-> 0, services |-> {}, endpoints |-> {}]
NoContext == [previous |-> 0, relevant |-> {}, endpoints |-> {},
              removed |-> {}, removedEndpoints |-> {}]
NoReport == [profiles |-> [n \in {} |-> {}], results |-> [e \in {} |-> {}], decision |-> "none"]
Nothing == [status |-> "none", report |-> NoReport, context |-> NoContext,
            summary |-> NoSummary, read |-> FALSE]
Places == {"status", "report", "window", "writeStatus", "writeReport", "writeContext",
           "update", "dead"}
EmptyPage == [ready |-> FALSE, status |-> "none", report |-> NoReport,
              context |-> NoContext, summary |-> NoSummary]

\* What the file of the raw window may be: JSON with a window in it, which may
\* be without a snapshot_id, other JSON, or neither (it is not there yet, or
\* half written).
WindowFile(id) ==
  {[id |-> id, condition |-> IF w.named THEN "fine" ELSE "unnamed",
    services |-> w.services, endpoints |-> w.endpoints] : w \in Windows}
  \cup {[id |-> id, condition |-> c, services |-> {}, endpoints |-> {}] : c \in {"unreadable", "odd"}}

Init ==
  /\ window \in WindowFile(1)
  /\ sheaft = None
  /\ pc = "status" /\ got = Nothing
  /\ page = EmptyPage /\ error = FALSE
  /\ mirror = [f \in Files |-> "other"]
  /\ lastRead = None

-----------------------------------------------------------------------------
\* Bering writes another window.
WriteWindow ==
  /\ window.id < MaxWindows
  /\ window' \in WindowFile(window.id + 1)
  /\ UNCHANGED <<sheaft, pc, got, page, error, mirror, lastRead>>

\* Sheaft has another report.
Analyse(r) ==
  /\ sheaft' = r
  /\ UNCHANGED <<window, pc, got, page, error, mirror, lastRead>>

-----------------------------------------------------------------------------
GetStatus ==
  /\ pc = "status" /\ sheaft # None
  /\ got' = [got EXCEPT !.status = sheaft.decision]
  /\ pc' = "report"
  /\ UNCHANGED <<window, sheaft, page, error, mirror, lastRead>>

GetReport ==
  /\ pc = "report" /\ sheaft # None
  /\ got' = [got EXCEPT !.report = sheaft]
  /\ pc' = "window"
  /\ UNCHANGED <<window, sheaft, page, error, mirror, lastRead>>

\* The window's snapshot_id, where 0 is the empty one.
SnapshotId(w) == IF w.condition = "unnamed" THEN 0 ELSE w.id

Summary(w) == [id |-> SnapshotId(w), services |-> w.services, endpoints |-> w.endpoints]

\* load_snapshot_context: what is missing now, and what has gone since the
\* window shown, if that had an id, and another one.
Compared(w, previous) ==
  LET known == previous.id \notin {0, SnapshotId(w)}
  IN [previous |-> IF known THEN previous.id ELSE 0,
      relevant |-> Relevant \ w.services,
      endpoints |-> Journeys \ w.endpoints,
      removed |-> IF known THEN (previous.services \ w.services) \cap Relevant ELSE {},
      removedEndpoints |-> IF known THEN (previous.endpoints \ w.endpoints) \cap Journeys ELSE {}]

\* Mutant of ReadWindow: the window is read once.
ReadWindowOnce ==
  /\ pc = "window" /\ window.condition # "odd"
  /\ got' = IF window.condition = "unreadable"
            THEN [got EXCEPT !.context = NoContext, !.summary = NoSummary, !.read = FALSE]
            ELSE [got EXCEPT !.context = IF page.summary.id = 0 THEN Compared(window, page.summary)
                                         ELSE page.context,
                             !.summary = Summary(window), !.read = TRUE]
  /\ pc' = "writeStatus"
  /\ UNCHANGED <<window, sheaft, page, error, mirror, lastRead>>

ReadWindow ==
  /\ pc = "window" /\ window.condition # "odd"
  /\ got' = IF window.condition = "unreadable"
            THEN [got EXCEPT !.context = NoContext, !.summary = NoSummary, !.read = FALSE]
            ELSE [got EXCEPT !.context = Compared(window, page.summary),
                             !.summary = Summary(window), !.read = TRUE]
  /\ pc' = "writeStatus"
  /\ UNCHANGED <<window, sheaft, page, error, mirror, lastRead>>

\* write_json replaces the file once it is complete.
WriteMirror(place, f, then) ==
  /\ pc = place
  /\ mirror' = [mirror EXCEPT ![f] = "got"]
  /\ pc' = then
  /\ UNCHANGED <<window, sheaft, got, page, error, lastRead>>

Write ==
  \/ WriteMirror("writeStatus", "status", "writeReport")
  \/ WriteMirror("writeReport", "report", "writeContext")
  \/ WriteMirror("writeContext", "context", "update")

\* update_success
Update ==
  /\ pc = "update"
  /\ page' = [ready |-> TRUE, status |-> got.status, report |-> got.report,
              context |-> got.context, summary |-> got.summary]
  /\ error' = FALSE
  /\ mirror' = [f \in Files |-> IF mirror[f] = "got" THEN "shown" ELSE "other"]
  /\ lastRead' = IF got.read THEN got.summary ELSE None
  /\ got' = Nothing
  /\ pc' = "status"
  /\ UNCHANGED external

\* Mutants of Fail: the error is not kept, or the window shown is forgotten.
FailInSilence ==
  /\ pc \in Places \ {"window", "update", "dead"}
  /\ pc' = "status"
  /\ got' = Nothing
  /\ mirror' = [f \in Files |-> IF mirror[f] = "got" THEN "other" ELSE mirror[f]]
  /\ UNCHANGED <<window, sheaft, page, error, lastRead>>

FailForgets ==
  /\ pc \in Places \ {"window", "update", "dead"}
  /\ pc' = "status"
  /\ error' = TRUE
  /\ got' = Nothing
  /\ page' = [page EXCEPT !.summary = NoSummary]
  /\ mirror' = [f \in Files |-> IF mirror[f] = "got" THEN "other" ELSE mirror[f]]
  /\ UNCHANGED <<window, sheaft, lastRead>>

\* update_error, after a request or after writing.
Fail ==
  /\ pc \in Places \ {"window", "update", "dead"}
  /\ pc' = "status"
  /\ error' = TRUE
  /\ got' = Nothing
  /\ mirror' = [f \in Files |-> IF mirror[f] = "got" THEN "other" ELSE mirror[f]]
  /\ UNCHANGED <<window, sheaft, page, lastRead>>

\* An exception poll_loop does not catch: of a request,
Die ==
  /\ pc \in {"status", "report"}
  /\ pc' = "dead"
  /\ UNCHANGED <<window, sheaft, got, page, error, mirror, lastRead>>

\* or of load_snapshot_context.
ReadOdd ==
  /\ pc = "window" /\ window.condition = "odd"
  /\ pc' = "dead"
  /\ UNCHANGED <<window, sheaft, got, page, error, mirror, lastRead>>

\* The process is restarted.
Restart ==
  /\ pc' = "status" /\ got' = Nothing
  /\ page' = EmptyPage /\ error' = FALSE
  /\ mirror' = [f \in Files |-> "other"]
  /\ lastRead' = None
  /\ UNCHANGED external

Poll == GetStatus \/ GetReport \/ ReadWindow \/ Write \/ Update \/ Fail \/ Die \/ ReadOdd

Next ==
  \/ Poll \/ Restart
  \/ WriteWindow
  \/ \E r \in Reports : Analyse(r)

Spec == Init /\ [][Next]_vars

\* The thread runs, and no step fails every time it is tried.
Fairness ==
  /\ SF_vars(GetStatus) /\ SF_vars(GetReport) /\ SF_vars(ReadWindow)
  /\ SF_vars(ReadOdd)
  /\ SF_vars(WriteMirror("writeStatus", "status", "writeReport"))
  /\ SF_vars(WriteMirror("writeReport", "report", "writeContext"))
  /\ SF_vars(WriteMirror("writeContext", "context", "update"))
  /\ SF_vars(Update)

FairSpec == Spec /\ Fairness

-----------------------------------------------------------------------------
(***************************************************************************)
(* What the metrics pages are made of: metrics_payload is a function of    *)
(* the state it has copied under the lock.                                 *)
(***************************************************************************)
\* Mutant of Unavailable: only services are looked at.
UnavailableByService(context) ==
  {j \in Journeys : context.relevant \cap Depends[j] # {}}

\* unavailable_journey_ids
Unavailable(context) ==
  context.endpoints \cup {j \in Journeys : context.relevant \cap Depends[j] # {}}

ShownProfiles == Profiles(page.report)
ShownZero(j) ==
  \A name \in DOMAIN ShownProfiles :
    Availability(ShownProfiles[name], Unavailable(page.context), j) = 0
SourceDecision ==
  IF page.status # "none" THEN page.status
  ELSE IF page.report.decision # "none" THEN page.report.decision
  ELSE IF error THEN "error" ELSE "report"
ShownDecision == Decision(ShownProfiles, Unavailable(page.context), SourceDecision)

-----------------------------------------------------------------------------
Contexts ==
  [previous : 0 .. MaxWindows, relevant : SUBSET Services, endpoints : SUBSET Journeys,
   removed : SUBSET Services, removedEndpoints : SUBSET Journeys]
Summaries == [id : 0 .. MaxWindows, services : SUBSET Services, endpoints : SUBSET Journeys]
Statuses == {"none"} \cup {r.decision : r \in Reports}

TypeOK ==
  /\ window \in UNION {WindowFile(id) : id \in 1 .. MaxWindows}
  /\ sheaft \in Reports \cup {None}
  /\ pc \in Places
  /\ got \in [status : Statuses, report : Reports \cup {NoReport},
             context : Contexts, summary : Summaries, read : BOOLEAN]
  /\ page \in [ready : BOOLEAN, status : Statuses, report : Reports \cup {NoReport},
              context : Contexts, summary : Summaries]
  /\ error \in BOOLEAN
  /\ mirror \in [Files -> {"shown", "got", "other"}]
  /\ lastRead \in Summaries \cup {None}

(***************************************************************************)
(* A verdict other than fail vouches for every journey: the report has it, *)
(* and the raw window that was read with the report had it too, with all   *)
(* its services.  It does so only if the report has profiles, if the       *)
(* window could be read, and, for its services, if the journey is one of   *)
(* those expected by default.                                              *)
(***************************************************************************)
VerdictIsBacked ==
  (ShownDecision # "fail" /\ lastRead # None /\ DOMAIN ShownProfiles # {}) =>
    \A j \in Journeys :
      /\ \A name \in DOMAIN ShownProfiles : j \in DOMAIN ShownProfiles[name]
      /\ j \in lastRead.endpoints
      /\ j \in Default => Depends[j] \subseteq lastRead.services

(***************************************************************************)
(* Unless an error is shown, or a cycle is writing them, the mirror files  *)
(* hold what the metrics show: no failure leaves files of several cycles   *)
(* behind without the error that tells of it.                              *)
(***************************************************************************)
MirrorsAgree ==
  page.ready /\ ~error /\ pc \in {"status", "report", "window"} =>
    \A f \in Files : mirror[f] = "shown"

(***************************************************************************)
(* A relevant service that the window shown last had and the new one lacks *)
(* is shown as removed, however many cycles failed in between, unless the  *)
(* window shown last could not be read or had no snapshot_id.              *)
(***************************************************************************)
RemovalIsReported ==
  [][Update /\ lastRead # None /\ lastRead.id # 0 /\ lastRead' # None =>
       (lastRead.services \cap Relevant) \ lastRead'.services
         \subseteq page'.context.removed]_vars

(***************************************************************************)
(* A journey expected by default that stays without one of its services    *)
(* counts zero in the end, and the verdict is fail, whatever fails or is   *)
(* restarted from time to time: unless the thread dies, or the report has  *)
(* no profiles.                                                            *)
(***************************************************************************)
Lacks(j) ==
  window.condition \in {"fine", "unnamed"} /\ ~(Depends[j] \subseteq window.services)

OutageShows ==
  \A j \in Default \cap Journeys :
    <>[](Lacks(j) /\ sheaft # None) =>
      /\ <>[](page.ready /\ pc # "dead" =>
               ShownZero(j) /\ (ShownDecision = "fail" \/ DOMAIN ShownProfiles = {}))
      /\ []<>(page.ready \/ pc = "dead")
=============================================================================
