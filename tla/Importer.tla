------------------------------ MODULE Importer ------------------------------
(***************************************************************************)
(* The requests about a bundle (ImportPreflight) served by one importer    *)
(* process, whose list of recent profiles (RecentProfiles) they update on  *)
(* the way, while other requests of this and of other processes of the     *)
(* same user save theirs: every handler that saves its settings waits for  *)
(* the save and its file.                                                  *)
(***************************************************************************)
EXTENDS ImportPreflight, RecentProfiles

CONSTANTS
    Here,    \* the process that serves the requests about the bundle
    Mine     \* the profile of their settings, which name an endpoint

ASSUME ServingAssumption == Here \in Importer /\ Mine \in Profile

VARIABLES
    saving,  \* whether the request's own save is in progress
    since,   \* history: the other profiles saved by this process since then
    left     \* temporary files of processes that have ended

servingVars == <<saving, since, left>>
vars == <<preflightVars, profileVars, servingVars>>

TypeOK ==
    /\ PreflightTypeOK
    /\ ProfilesTypeOK
    /\ saving \in BOOLEAN
    /\ since \subseteq Profile
    /\ left \subseteq TempFiles

Init ==
    /\ PreflightInit
    /\ ProfilesInit
    /\ saving = FALSE
    /\ since = {}
    /\ left = {}

----------------------------------------------------------------------------
Idle == saver[Here].at = "idle"

\* Mutant: the settings are saved only after the analysis.
StartSavingLater(begin) ==
    /\ begin
    /\ Idle
    /\ saving' = TRUE
    /\ since' = {}
    /\ UNCHANGED <<profileVars, left>>

\* handleAnalyze and handleUpload: the settings are read and saved.
StartSaving(begin) ==
    /\ begin
    /\ SaveRecentProfile(Here, Mine)
    /\ saving' = TRUE
    /\ since' = {}
    /\ UNCHANGED left

\* handleCheckEndpoint, once the endpoint has answered the ping; any process.
CheckEndpoint(s, p) ==
    /\ SaveRecentProfile(s, p)
    /\ since' = IF s # Here THEN since
                ELSE IF p = Mine THEN {} ELSE since \union {p}
    /\ UNCHANGED <<preflightVars, saving, left>>

\* saveRecentProfile returns, however the save went.
Saved ==
    /\ saving
    /\ Idle
    /\ AfterSaving
    /\ saving' = FALSE
    /\ UNCHANGED <<profileVars, since, left>>

Handle ==
    /\ PreflightStep
    /\ Up(Here)
    /\ UNCHANGED <<profileVars, servingVars>>

PersistStep(s) ==
    /\ Persist(s)
    /\ UNCHANGED <<preflightVars, servingVars>>

Restart(s) ==
    /\ StartImporter(s)
    /\ UNCHANGED <<preflightVars, servingVars>>

\* A process that ends takes its requests and jobs with it, but not their
\* temporary files: only deferred calls remove those, and no process does so
\* for another.
CrashImporter(s) ==
    /\ Crash(s)
    /\ IF s = Here
         THEN /\ request' = None
              /\ import' = IF import.at = "completed" THEN import ELSE None
              /\ files' = {}
              /\ left' = left \union files
              /\ saving' = FALSE
              /\ UNCHANGED <<scenario, now, preflight, since>>
         ELSE UNCHANGED <<preflightVars, servingVars>>

Pass ==
    /\ Tick
    /\ UNCHANGED <<profileVars, servingVars>>

Next ==
    \/ \E full \in BOOLEAN : StartSaving(StartAnalyze(full))
    \/ StartSaving(StartUpload)
    \/ \E s \in Importer, p \in Profile : CheckEndpoint(s, p)
    \/ Saved
    \/ Handle
    \/ \E s \in Importer : PersistStep(s) \/ Restart(s) \/ CrashImporter(s)
    \/ Pass

Spec == Init /\ [][Next]_vars

----------------------------------------------------------------------------
\* Once a preflight or an upload goes beyond saving its settings, they
\* survive it (CHANGELOG: "operator settings are retained even if a long
\* import later fails"): they are in the list until as many others as it
\* holds have been saved, and the file is the list, unless another process
\* has saved after this one, a later save is under way, or the last one was
\* not persisted or did not have the temporary file to itself.
SettingsRetained ==
    request # None /\ ~saving =>
      /\ Cardinality(since) < MaxRecentProfiles => Mine \in Range(profiles[Here])
      /\ Idle /\ savedBy = Here /\ Here \notin unpersisted /\ whole =>
           disk[path] = profiles[Here]
=============================================================================
