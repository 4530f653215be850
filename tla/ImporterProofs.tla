--------------------------- MODULE ImporterProofs ---------------------------
(***************************************************************************)
(* Proofs about Importer, for any number of processes, profiles and files: *)
(* no list repeats what the file found at first did not, the file of       *)
(* recent profiles is the last save that had the temporary file to itself, *)
(* the settings of a request are in the list until as many others were     *)
(* saved, and the temporary files of a bundle have an owner. And for any   *)
(* bundles, settings and targets: a preflight predicts the import as far   *)
(* as the unit of its lines allows, what the import sends is trimmed and   *)
(* in milliseconds, the window it is verified in has every point sent, and *)
(* what is looked for there is found if the first line sent has a name;    *)
(* for those, every answer and every import is shown to be what the bundle *)
(* gives with the cutoff in its summary (Computed), and the operators on   *)
(* lines, points and sums to keep order, number and unit.                  *)
(***************************************************************************)
EXTENDS Importer, LeastNumber, SequenceTheorems, TLAPS

(* The file of recent profiles.                                            *)

\* If nobody had the temporary file open when a process opened it, or has
\* opened it since, that process is the only one to write; and its file is
\* empty until it is written, and its list from then on.  A file that was
\* renamed by such a process is written by nobody any more.
FileInv ==
    /\ saver \in [Importer -> Saver]
    /\ DOMAIN profiles = Importer
    /\ DOMAIN disk = Inode
    /\ path \in Inode \union {NoFile}
    /\ tmpPath \in Inode \union {NoFile}
    /\ path = tmpPath => path = NoFile
    /\ \A s \in Writing : saver[s].fd \in Inode
    /\ ~overlapped =>
         /\ \A s, t \in Writing : s = t
         /\ \A s \in Writing :
              /\ saver[s].fd = tmpPath
              /\ disk[saver[s].fd] =
                   IF saver[s].at = "writing" THEN Empty ELSE profiles[s]
    /\ whole => /\ path # NoFile => disk[path] = saved
                /\ \A s \in Writing : saver[s].fd # path

\* Before the first save.
LEMMA FileInit == ASSUME ProfilesInit PROVE FileInv
  <1>1. NoFile \notin Inode
    BY InodeAssumption
  <1>2. saver \in [Importer -> Saver] /\ Writing = {}
    BY DEF ProfilesInit, Saver, Writing
  <1>3. DOMAIN profiles = Importer /\ DOMAIN disk = Inode /\ tmpPath = NoFile
    BY DEF ProfilesInit
  <1>4. /\ path \in Inode \union {NoFile}
        /\ path # NoFile => disk[path] = saved
    BY DEF ProfilesInit
  <1>5. QED
    BY <1>1, <1>2, <1>3, <1>4 DEF FileInv

\* A process that comes, goes, or begins to save writes nothing.
LEMMA IdleSteps ==
    ASSUME FileInv, NEW s \in Importer,
           \/ StartImporter(s)
           \/ \E p \in Profile : SaveRecentProfile(s, p)
           \/ Crash(s)
    PROVE  FileInv'
  <1>1. PICK to \in Saver : /\ saver' = [saver EXCEPT ![s] = to]
                            /\ to.at \notin {"writing", "renaming"}
    BY DEF StartImporter, SaveRecentProfile, Crash, FileInv, Saver
  <1>2. /\ UNCHANGED <<path, tmpPath, disk, saved, whole, overlapped>>
        /\ DOMAIN profiles' = Importer
        /\ \A t \in Importer \ {s} : profiles'[t] = profiles[t]
    BY DEF StartImporter, SaveRecentProfile, Crash, FileInv
  <1>3. /\ saver' \in [Importer -> Saver]
        /\ \A t \in Importer \ {s} : saver'[t] = saver[t]
        /\ Writing' = Writing \ {s}
    BY <1>1 DEF FileInv, Writing
  <1>4. \A t \in Writing' : t \in Writing /\ t \in Importer \ {s}
    BY <1>3 DEF Writing
  <1>5. QED
    BY <1>2, <1>3, <1>4 DEF FileInv

\* Opening truncates the temporary file; nobody else has it open, unless
\* saves overlap.
LEMMA OpenTmpStep ==
    ASSUME FileInv, NEW s \in Importer, OpenTmp(s)
    PROVE  FileInv'
  <1>1. PICK i \in Inode :
          /\ IF tmpPath = NoFile THEN Unused(i) ELSE i = tmpPath
          /\ tmpPath' = i
          /\ disk' = [disk EXCEPT ![i] = Empty]
          /\ saver' = [saver EXCEPT ![s] = [at |-> "writing", fd |-> i]]
    BY DEF OpenTmp
  <1>2. /\ UNCHANGED <<path, saved, profiles, whole>>
        /\ overlapped' = (Writing # {})
    BY DEF OpenTmp
  <1>3. i # NoFile /\ i # path
    BY <1>1, InodeAssumption DEF Unused, FileInv
  <1>4. /\ saver' \in [Importer -> Saver] /\ saver'[s] = [at |-> "writing", fd |-> i]
        /\ \A t \in Importer \ {s} : saver'[t] = saver[t]
    BY <1>1 DEF FileInv, Saver
  <1>5. Writing' = Writing \union {s}
    BY <1>4 DEF Writing
  <1>6. DOMAIN disk' = Inode /\ disk'[i] = Empty
        /\ \A j \in Inode \ {i} : disk'[j] = disk[j]
    BY <1>1 DEF FileInv
  <1>7. \A t \in Writing' : saver'[t].fd \in Inode
    BY <1>4, <1>5 DEF FileInv, Writing
  <1>8. ASSUME ~overlapped'
        PROVE  /\ \A t, u \in Writing' : t = u
               /\ \A t \in Writing' :
                    /\ saver'[t].fd = tmpPath'
                    /\ disk'[saver'[t].fd] =
                         IF saver'[t].at = "writing" THEN Empty ELSE profiles'[t]
    <2>1. Writing' = {s}
      BY <1>2, <1>5, <1>8
    <2>2. QED
      BY <1>1, <1>4, <1>6, <2>1
  <1>9. ASSUME whole'
        PROVE  /\ path' # NoFile => disk'[path'] = saved'
               /\ \A t \in Writing' : saver'[t].fd # path'
    <2>1. path # NoFile => disk'[path] = disk[path]
      BY <1>3, <1>6 DEF FileInv
    <2>2. QED
      BY <1>2, <1>3, <1>4, <1>5, <1>9, <2>1 DEF FileInv, Writing
  <1>10. QED
    BY <1>1, <1>2, <1>3, <1>4, <1>6, <1>7, <1>8, <1>9 DEF FileInv

\* What is written is the list of the process that writes.
LEMMA WriteTmpStep ==
    ASSUME FileInv, NEW s \in Importer, WriteTmp(s)
    PROVE  FileInv'
  <1> DEFINE fd == saver[s].fd
  <1>1. s \in Writing /\ saver[s].at = "writing" /\ fd \in Inode
    BY DEF WriteTmp, Writing, FileInv
  <1>2. PICK after \in {profiles[s]} \union (IF disk[fd] = Empty THEN {} ELSE {Torn}) :
          disk' = [disk EXCEPT ![fd] = after]
    BY DEF WriteTmp
  <1>3. /\ saver' = [saver EXCEPT ![s].at = "renaming"]
        /\ UNCHANGED <<profiles, path, tmpPath, saved, whole, overlapped>>
    BY DEF WriteTmp
  <1>4. /\ saver' \in [Importer -> Saver]
        /\ saver'[s].at = "renaming" /\ saver'[s].fd = fd
        /\ \A t \in Importer \ {s} : saver'[t] = saver[t]
    BY <1>3 DEF FileInv, Saver
  <1>5. Writing' = Writing
    BY <1>1, <1>4 DEF Writing
  <1>6. DOMAIN disk' = Inode /\ disk'[fd] = after
        /\ \A j \in Inode \ {fd} : disk'[j] = disk[j]
    BY <1>1, <1>2 DEF FileInv
  <1>7. \A t \in Writing' : saver'[t].fd \in Inode
    BY <1>1, <1>4, <1>5 DEF FileInv, Writing
  <1>8. ASSUME ~overlapped
        PROVE  /\ \A t \in Writing : t = s
               /\ fd = tmpPath /\ after = profiles[s]
    <2>1. \A t \in Writing : t = s
      BY <1>1, <1>8 DEF FileInv
    <2>2. fd = tmpPath /\ disk[fd] = Empty
      BY <1>1, <1>8 DEF FileInv
    <2>3. after = profiles[s]
      BY <1>2, <2>2
    <2>4. QED
      BY <2>1, <2>2, <2>3
  <1>9. ASSUME whole
        PROVE  /\ path # NoFile => disk'[path] = saved
               /\ \A t \in Writing : saver'[t].fd # path
    <2>1. fd # path
      BY <1>1, <1>9 DEF FileInv
    <2>2. QED
      BY <1>4, <1>6, <1>9, <2>1 DEF FileInv, Writing
  <1> HIDE DEF fd
  <1>10. QED
    BY <1>3, <1>4, <1>5, <1>6, <1>7, <1>8, <1>9 DEF FileInv

\* The end of a save, renamed or not.
LEMMA SaveEndsStep ==
    ASSUME FileInv, NEW s \in Importer, WriteFails(s) \/ RenameTmp(s)
    PROVE  FileInv'
  <1>1. saver' = [saver EXCEPT ![s] = Closed] /\ UNCHANGED <<profiles, overlapped>>
    BY DEF WriteFails, RenameTmp
  <1>2. /\ saver' \in [Importer -> Saver]
        /\ \A t \in Importer \ {s} : saver'[t] = saver[t]
        /\ Writing' = Writing \ {s}
    BY <1>1 DEF FileInv, Saver, Writing, Closed
  <1>3. \A t \in Writing' : t \in Writing /\ t \in Importer \ {s}
    BY <1>2 DEF Writing
  <1>4. \A t \in Writing' : saver'[t].fd \in Inode
    BY <1>2, <1>3 DEF FileInv
  <1>5. CASE WriteFails(s)
    <2>1. /\ UNCHANGED <<path, tmpPath, saved, whole>>
          /\ disk' = IF saver[s].at = "writing"
                     THEN [disk EXCEPT ![saver[s].fd] = Torn] ELSE disk
      BY <1>5 DEF WriteFails
    <2>2. DOMAIN disk' = Inode
      BY <2>1 DEF FileInv
    <2>3. ASSUME whole
          PROVE  /\ path # NoFile => disk'[path] = saved
                 /\ \A t \in Writing' : saver'[t].fd # path
      <3>1. \A t \in Writing' : saver'[t].fd # path
        BY <1>2, <1>3, <2>3 DEF FileInv
      <3>2. CASE saver[s].at = "writing"
        <4>1. s \in Writing
          BY <3>2 DEF Writing
        <4>2. path # saver[s].fd
          BY <2>3, <4>1 DEF FileInv
        <4>3. path # NoFile => path \in Inode /\ disk[path] = saved
          BY <2>3 DEF FileInv
        <4>4. QED
          BY <2>1, <3>1, <3>2, <4>2, <4>3 DEF FileInv
      <3>3. CASE saver[s].at # "writing"
        BY <2>1, <2>3, <3>1, <3>3 DEF FileInv
      <3>4. QED
        BY <3>2, <3>3
    <2>4. ASSUME ~overlapped, NEW t \in Writing'
          PROVE  /\ saver'[t].fd = tmpPath'
                 /\ disk'[saver'[t].fd] =
                      IF saver'[t].at = "writing" THEN Empty ELSE profiles'[t]
      <3>1. t \in Writing /\ t # s /\ saver'[t] = saver[t]
        BY <1>2, <1>3, <2>4
      <3>2. s \notin Writing
        BY <2>4, <3>1 DEF FileInv
      <3>3. disk' = disk
        BY <2>1, <3>2 DEF Writing
      <3>4. QED
        BY <1>1, <2>1, <2>4, <3>1, <3>3 DEF FileInv
    <2>5. QED
      BY <1>1, <1>2, <1>3, <1>4, <2>1, <2>2, <2>3, <2>4 DEF FileInv
  <1>6. CASE RenameTmp(s)
    <2>1. s \in Writing /\ saver[s].at = "renaming" /\ disk' = disk
      BY <1>6 DEF RenameTmp, Writing
    <2>2. CASE tmpPath = NoFile
      <3>1. UNCHANGED <<path, tmpPath, saved, whole>>
        BY <1>6, <2>2 DEF RenameTmp
      <3>2. QED
        BY <1>1, <1>2, <1>3, <1>4, <2>1, <3>1 DEF FileInv
    <2>3. CASE tmpPath # NoFile
      <3>1. /\ path' = tmpPath /\ tmpPath' = NoFile /\ saved' = profiles[s]
            /\ whole' = ~overlapped
        BY <1>6, <2>3 DEF RenameTmp
      <3>2. ~overlapped => /\ \A t \in Writing : t = s
                           /\ disk[tmpPath] = profiles[s]
        BY <2>1 DEF FileInv
      <3>3. ~overlapped => Writing' = {}
        BY <1>2, <3>2
      <3>4. QED
        BY <1>1, <1>2, <1>4, <2>1, <2>3, <3>1, <3>2, <3>3 DEF FileInv
    <2>4. QED
      BY <2>2, <2>3
  <1>7. QED
    BY <1>5, <1>6

\* The file and its temporary hold what their writers say, in every
\* reachable state.
THEOREM FileInvariant == ProfilesSpec => []FileInv
  <1>1. FileInv /\ [ProfilesNext]_profileVars => FileInv'
    <2> SUFFICES ASSUME FileInv, [ProfilesNext]_profileVars
                 PROVE  FileInv'
      OBVIOUS
    <2>1. ASSUME NEW s \in Importer,
                 \/ StartImporter(s)
                 \/ \E p \in Profile : SaveRecentProfile(s, p)
                 \/ Crash(s)
          PROVE  FileInv'
      BY <2>1, IdleSteps
    <2>2. ASSUME NEW s \in Importer, Persist(s)
          PROVE  FileInv'
      BY <2>2, OpenTmpStep, WriteTmpStep, SaveEndsStep DEF Persist
    <2>3. CASE UNCHANGED profileVars
      BY <2>3 DEF profileVars, FileInv, Writing
    <2>4. QED
      BY <2>1, <2>2, <2>3 DEF ProfilesNext
  <1>2. QED
    BY <1>1, FileInit, PTL DEF ProfilesSpec

\* Serving the requests about a bundle, the processes do with their profiles
\* what RecentProfiles allows: nothing is saved but through its actions.
THEOREM ServesProfiles == Spec => ProfilesSpec
  <1>1. Init => ProfilesInit
    BY DEF Init
  <1>2. [Next]_vars => [ProfilesNext]_profileVars
    <2> SUFFICES ASSUME [Next]_vars
                 PROVE  ProfilesNext \/ UNCHANGED profileVars
      BY DEF profileVars
    <2>1. ASSUME NEW begin, StartSaving(begin)
          PROVE  ProfilesNext
      BY <2>1, ServingAssumption DEF StartSaving, ProfilesNext
    <2>2. ASSUME NEW s \in Importer, NEW p \in Profile, CheckEndpoint(s, p)
          PROVE  ProfilesNext
      BY <2>2 DEF CheckEndpoint, ProfilesNext
    <2>3. ASSUME NEW s \in Importer, PersistStep(s) \/ Restart(s) \/ CrashImporter(s)
          PROVE  ProfilesNext
      BY <2>3 DEF PersistStep, Restart, CrashImporter, ProfilesNext
    <2>4. CASE Saved \/ Handle \/ Pass \/ UNCHANGED vars
      BY <2>4 DEF Saved, Handle, Pass, vars
    <2>5. QED
      BY <2>1, <2>2, <2>3, <2>4 DEF Next
  <1>3. QED
    BY <1>1, <1>2, PTL DEF Spec, ProfilesSpec

\* For any number of processes, and in any order of their steps: the file of
\* recent profiles is what the last save that was renamed has written, if
\* that save had the temporary file to itself, whatever failed, crashed or
\* overlapped before and since; a save that shared it may leave it torn.
THEOREM FileAlwaysLastSave == Spec => []FileIsLastSave
  <1>1. FileInv => FileIsLastSave
    BY DEF FileInv, FileIsLastSave
  <1>2. QED
    BY <1>1, FileInvariant, ServesProfiles, PTL

----------------------------------------------------------------------------
(* The temporary files of a bundle.                                        *)

\* Which step of the request or of the job has which file.
OwnersInv ==
    /\ request \in Requests \union {None}
    /\ "at" \in DOMAIN import
    /\ request.at \in {"preparing", "analyzing", "leaving"} => request.kind = "analyze"
    /\ request.at = "resolving" => request.kind = "upload"
    /\ request # None /\ request.kind = "upload" => import.at = "none"
    /\ files \intersect {"analyzed upload", "analyzed metrics"} # {} =>
         request.kind = "analyze" /\ request.at \in {"preparing", "analyzing", "leaving"}
    /\ "uploaded" \in files =>
         \/ request.kind = "upload" /\ request.at = "resolving"
         \/ import.at \in {"queued", "verifying"}
         \/ ~config.resolves
    /\ "metrics" \in files => import.at = "verifying"

\* Before the first request there are no files.
LEMMA OwnersInit == ASSUME Init PROVE OwnersInv
  BY DEF Init, PreflightInit, OwnersInv, None

\* The steps of the requests.
LEMMA RequestOwners ==
    ASSUME OwnersInv,
           \/ \E full \in BOOLEAN : StartAnalyze(full)
           \/ StartUpload \/ AfterSaving \/ PrepareBundle \/ AnalyzeBundle
           \/ AnalyzeFails \/ LeaveAnalyze \/ UploadUnresolved \/ StoreJob
    PROVE  OwnersInv'
  <1> USE DEF OwnersInv, config
  <1>1. None.at = "none" /\ (request # None => request \in Requests)
    BY DEF None
  <1>2. ASSUME NEW full \in BOOLEAN, StartAnalyze(full)
        PROVE  OwnersInv'
    <2>1. request' = [kind |-> "analyze", full |-> full, at |-> "saving"]
      BY <1>2 DEF StartAnalyze
    <2>2. request = None /\ UNCHANGED <<scenario, files, import>>
      BY <1>2 DEF StartAnalyze
    <2>3. request' \in Requests
      BY <2>1 DEF Requests
    <2>4. QED
      BY <1>1, <2>1, <2>2, <2>3
  <1>3. CASE StartUpload
    <2>1. request' = [kind |-> "upload", full |-> TRUE, at |-> "saving"]
      BY <1>3 DEF StartUpload
    <2>2. request = None /\ import = None /\ UNCHANGED <<scenario, files, import>>
      BY <1>3 DEF StartUpload
    <2>3. request' \in Requests
      BY <2>1 DEF Requests
    <2>4. QED
      BY <1>1, <2>1, <2>2, <2>3
  <1>4. CASE PersistUploadedFile
    <2>1. request \in Requests /\ request.at = "saving" /\ UNCHANGED <<scenario, import>>
      BY <1>1, <1>4 DEF PersistUploadedFile
    <2>2. CASE request.kind = "analyze"
      <3>1. /\ files' = files \union {"analyzed upload"}
            /\ request' = [request EXCEPT !.at = "preparing"]
        BY <1>4, <2>2 DEF PersistUploadedFile
      <3>2. request' \in Requests /\ request'.kind = "analyze" /\ request'.at = "preparing"
        BY <2>1, <2>2, <3>1 DEF Requests
      <3>3. QED
        BY <2>1, <3>1, <3>2
    <2>3. CASE request.kind # "analyze"
      <3>1. /\ files' = files \union {"uploaded"}
            /\ request' = [request EXCEPT !.at = "resolving"]
        BY <1>4, <2>3 DEF PersistUploadedFile
      <3>2. request' \in Requests /\ request'.kind = "upload" /\ request'.at = "resolving"
        BY <2>1, <2>3, <3>1 DEF Requests
      <3>3. /\ import.at = "none" /\ "metrics" \notin files
            /\ files' \intersect {"analyzed upload", "analyzed metrics"} = {}
        BY <1>1, <2>1, <2>3, <3>1 DEF Requests
      <3>4. QED
        BY <2>1, <3>1, <3>2, <3>3
    <2>4. QED
      BY <2>2, <2>3
  <1>5. CASE BundleRefused
    BY <1>1, <1>5 DEF BundleRefused
  <1>6. CASE PrepareBundle \/ AnalyzeBundle \/ AnalyzeFails
    <2>1. PICK at \in {"analyzing", "leaving"} : request' = [request EXCEPT !.at = at]
      BY <1>6 DEF PrepareBundle, AnalyzeBundle, AnalyzeFails
    <2>2. /\ request.at \in {"preparing", "analyzing"} /\ UNCHANGED <<scenario, import>>
          /\ \A f \in files' : f \in files \/ f = "analyzed metrics"
          /\ files' # files => request.at = "preparing"
      BY <1>6 DEF PrepareBundle, AnalyzeBundle, AnalyzeFails
    <2>3. /\ request \in Requests /\ request' \in Requests
          /\ request'.kind = request.kind /\ request'.at = at
      BY <1>1, <2>1, <2>2 DEF Requests
    <2>4. QED
      BY <2>2, <2>3
  <1>7. CASE LeaveAnalyze
    BY <1>1, <1>7 DEF LeaveAnalyze
  <1>8. CASE UploadUnresolved
    BY <1>1, <1>8 DEF UploadUnresolved
  <1>9. CASE StoreJob
    BY <1>1, <1>9 DEF StoreJob
  <1>10. QED
    BY <1>2, <1>3, <1>4, <1>5, <1>6, <1>7, <1>8, <1>9 DEF AfterSaving

\* The steps of the job.
LEMMA ImportOwners ==
    ASSUME OwnersInv, Import \/ ImportFails \/ VerifyImport
    PROVE  OwnersInv'
  <1> USE DEF OwnersInv, config
  <1>1. UNCHANGED <<scenario, request>>
    BY DEF Import, ImportFails, VerifyImport
  <1>2. CASE Import
    <2>1. import'.at = "verifying" /\ "at" \in DOMAIN import' /\ import.at = "queued"
      BY <1>2 DEF Import
    <2>2. files' = files \union (IF bundle.zip THEN {"metrics"} ELSE {})
      BY <1>2 DEF Import
    <2>3. QED
      BY <1>1, <2>1, <2>2
  <1>3. CASE ImportFails
    BY <1>1, <1>3 DEF ImportFails
  <1>4. CASE VerifyImport
    <2>1. PICK verified : import' = [import EXCEPT !.at = "completed", !.verified = verified]
      BY <1>4 DEF VerifyImport
    <2>2. import'.at = "completed" /\ "at" \in DOMAIN import'
      BY <2>1
    <2>3. import.at = "verifying" /\ files' = files \ {"uploaded", "metrics"}
      BY <1>4 DEF VerifyImport
    <2>4. QED
      BY <1>1, <2>2, <2>3
  <1>5. QED
    BY <1>2, <1>3, <1>4

\* Files belong to the request or the job, in every reachable state.
THEOREM OwnersInvariant == Spec => []OwnersInv
  <1>1. OwnersInv /\ [Next]_vars => OwnersInv'
    <2> SUFFICES ASSUME OwnersInv, [Next]_vars
                 PROVE  OwnersInv'
      OBVIOUS
    <2>1. CASE \E full \in BOOLEAN : StartSaving(StartAnalyze(full))
      BY <2>1, RequestOwners DEF StartSaving
    <2>2. CASE StartSaving(StartUpload)
      BY <2>2, RequestOwners DEF StartSaving
    <2>3. CASE Saved
      BY <2>3, RequestOwners DEF Saved
    <2>4. CASE Handle
      BY <2>4, RequestOwners, ImportOwners DEF Handle, PreflightStep
    <2>5. ASSUME NEW s \in Importer, CrashImporter(s)
          PROVE  OwnersInv'
      <3>1. CASE s = Here
        <4>1. /\ request' = None /\ files' = {} /\ UNCHANGED scenario
              /\ import' = IF import.at = "completed" THEN import ELSE None
          BY <2>5, <3>1 DEF CrashImporter
        <4>2. QED
          BY <4>1 DEF OwnersInv, None
      <3>2. CASE s # Here
        <4>1. UNCHANGED preflightVars
          BY <2>5, <3>2 DEF CrashImporter
        <4>2. QED
          BY <4>1 DEF preflightVars, OwnersInv, config
      <3>3. QED
        BY <3>1, <3>2
    <2>6. CASE Pass
      BY <2>6 DEF Pass, Tick, OwnersInv, config
    <2>7. CASE UNCHANGED preflightVars
      BY <2>7 DEF preflightVars, OwnersInv, config
    <2>8. QED
      BY <2>1, <2>2, <2>3, <2>4, <2>5, <2>6, <2>7
      DEF Next, CheckEndpoint, PersistStep, Restart, vars
  <1>2. QED
    BY <1>1, OwnersInit, PTL DEF Spec

\* For any bundle and target, in any order of requests and crashes: the
\* temporary files are those of the request or the job in progress, but for
\* an upload whose endpoint does not resolve.
THEOREM FilesAlwaysHaveOwners == Spec => []FilesHaveOwners
  <1>1. OwnersInv => FilesHaveOwners
    <2> SUFFICES ASSUME OwnersInv
                 PROVE  FilesHaveOwners
      OBVIOUS
    <2>1. None.at = "none"
      BY DEF None
    <2>2. request = None \/ request.kind = "upload" =>
            files \intersect {"analyzed upload", "analyzed metrics"} = {}
      BY <2>1 DEF OwnersInv
    <2>3. ASSUME request = None \/ request.kind = "analyze",
                 import.at \in {"none", "failed", "completed"}
          PROVE  "metrics" \notin files /\ (config.resolves => "uploaded" \notin files)
      BY <2>1, <2>3 DEF OwnersInv
    <2>4. QED
      BY <2>2, <2>3 DEF FilesHaveOwners
  <1>2. QED
    BY <1>1, OwnersInvariant, PTL

----------------------------------------------------------------------------
(* The list that a save makes.                                             *)

\* f is a table of what the loop over l has kept after each of n elements.
KeptUpTo(n, f, l, p) ==
    f = [k \in 0..n |-> IF k = 0 THEN <<>>
                        ELSE IF l[k] = p THEN f[k - 1] ELSE Append(f[k - 1], l[k])]

\* OthersOf has a table of any length.
LEMMA KeptExist ==
    ASSUME NEW l, NEW p, NEW n \in Nat
    PROVE  \E f : KeptUpTo(n, f, l, p)
  <1> DEFINE Without == {m \in Nat : ~ \E f : KeptUpTo(m, f, l, p)}
             Item(f, k) == IF k = 0 THEN <<>>
                           ELSE IF l[k] = p THEN f[k - 1] ELSE Append(f[k - 1], l[k])
  <1> SUFFICES ASSUME Without # {}
               PROVE  FALSE
    OBVIOUS
  <1>1. PICK m \in Without : \A k \in Without : m <= k
    BY Least
  <1>2. CASE m = 0
    <2>1. KeptUpTo(0, [k \in 0..0 |-> <<>>], l, p)
      BY DEF KeptUpTo
    <2>2. QED
      BY <1>2, <2>1
  <1>3. CASE m # 0
    <2>1. m - 1 \in Nat /\ m - 1 \notin Without
      BY <1>1, <1>3
    <2>2. PICK f : KeptUpTo(m - 1, f, l, p)
      BY <2>1
    <2> DEFINE g == [k \in 0..m |-> IF k = m THEN Item(f, m) ELSE f[k]]
    <2>3. ASSUME NEW k \in 0..m
          PROVE  g[k] = Item(g, k)
      <3>1. k # 0 => k - 1 \in 0..m /\ g[k - 1] = f[k - 1]
        BY <2>1
      <3>2. CASE k = m
        BY <1>3, <3>1, <3>2
      <3>3. CASE k # m
        <4>1. k \in 0..m - 1
          BY <2>1, <3>3
        <4>2. f[k] = Item(f, k)
          BY <2>2, <4>1 DEF KeptUpTo
        <4>3. QED
          BY <3>1, <3>3, <4>2
      <3>4. QED
        BY <3>2, <3>3
    <2>4. g = [k \in 0..m |-> g[k]]
      OBVIOUS
    <2> HIDE DEF g
    <2>5. KeptUpTo(m, g, l, p)
      BY <2>3, <2>4 DEF KeptUpTo
    <2>6. QED
      BY <2>5
  <1>4. QED
    BY <1>2, <1>3

\* kept is what of the first n elements of l is not p, in order: its entries
\* are those at the positions e.
KeptAt(e, kept, n, l, p) ==
    /\ kept \in Seq(Profile)
    /\ e \in [1..Len(kept) -> 1..n]
    /\ \A i, j \in 1..Len(kept) : i < j => e[i] < e[j]
    /\ \A i \in 1..Len(kept) : kept[i] = l[e[i]] /\ kept[i] # p
    /\ \A h \in 1..n : l[h] # p => \E i \in 1..Len(kept) : e[i] = h

Others(kept, n, l, p) == \E e : KeptAt(e, kept, n, l, p)

\* One more entry of the list: kept unless it is the profile itself.
LEMMA OthersGrow ==
    ASSUME NEW l \in Lists, NEW p \in Profile,
           NEW n \in 1..Len(l), NEW before, Others(before, n - 1, l, p),
           NEW after, after = IF l[n] = p THEN before ELSE Append(before, l[n])
    PROVE  Others(after, n, l, p)
  <1>1. Len(l) \in Nat /\ n \in Nat \ {0} /\ l[n] \in Profile
    BY DEF Lists
  <1>2. PICK e : KeptAt(e, before, n - 1, l, p)
    BY DEF Others
  <1>3. /\ before \in Seq(Profile) /\ Len(before) \in Nat
        /\ e \in [1..Len(before) -> 1..n - 1]
    BY <1>2 DEF KeptAt
  <1>4. CASE l[n] = p
    <2>1. after = before /\ e \in [1..Len(after) -> 1..n]
      BY <1>1, <1>3, <1>4
    <2>2. \A h \in 1..n : l[h] # p => h \in 1..n - 1
      BY <1>1, <1>4
    <2>3. KeptAt(e, after, n, l, p)
      BY <1>2, <2>1, <2>2 DEF KeptAt
    <2>4. QED
      BY <2>3 DEF Others
  <1>5. CASE l[n] # p
    <2>1. /\ after \in Seq(Profile) /\ Len(after) = Len(before) + 1
          /\ after[Len(before) + 1] = l[n]
          /\ \A k \in 1..Len(before) : after[k] = before[k]
      BY <1>1, <1>3, <1>5, AppendProperties
    <2> DEFINE d == [i \in 1..Len(after) |-> IF i = Len(after) THEN n ELSE e[i]]
    <2>2. \A i \in 1..Len(after) : i # Len(after) => i \in 1..Len(before)
      BY <1>3, <2>1
    <2>3. Len(after) \in 1..Len(after) /\ d[Len(after)] = n
      BY <1>3, <2>1
    <2>4. \A i \in 1..Len(before) : /\ i \in 1..Len(after) /\ i # Len(after)
                                    /\ d[i] = e[i] /\ e[i] \in 1..n - 1
      BY <1>3, <2>1
    <2>5. d \in [1..Len(after) -> 1..n]
      <3>1. \A i \in 1..Len(after) : i # Len(after) => e[i] \in 1..n
        BY <1>1, <1>3, <2>2
      <3>2. n \in 1..n
        BY <1>1
      <3>3. QED
        BY <3>1, <3>2
    <2> HIDE DEF d
    <2>6. ASSUME NEW i \in 1..Len(after), NEW j \in 1..Len(after), i < j
          PROVE  d[i] < d[j]
      <3>1. i \in 1..Len(before)
        BY <1>3, <2>1, <2>6
      <3>2. CASE j = Len(after)
        BY <1>1, <2>3, <2>4, <3>1, <3>2
      <3>3. CASE j # Len(after)
        BY <1>2, <2>2, <2>4, <2>6, <3>1, <3>3 DEF KeptAt
      <3>4. QED
        BY <3>2, <3>3
    <2>7. ASSUME NEW i \in 1..Len(after)
          PROVE  after[i] = l[d[i]] /\ after[i] # p
      <3>1. CASE i = Len(after)
        BY <1>5, <2>1, <2>3, <3>1
      <3>2. CASE i # Len(after)
        BY <1>2, <2>1, <2>2, <2>4, <3>2 DEF KeptAt
      <3>3. QED
        BY <3>1, <3>2
    <2>8. ASSUME NEW h \in 1..n, l[h] # p
          PROVE  \E i \in 1..Len(after) : d[i] = h
      <3>1. CASE h = n
        BY <2>3, <3>1
      <3>2. CASE h # n
        <4>1. PICK i \in 1..Len(before) : e[i] = h
          BY <1>1, <1>2, <2>8, <3>2 DEF KeptAt
        <4>2. QED
          BY <2>4, <4>1
      <3>3. QED
        BY <3>1, <3>2
    <2>9. KeptAt(d, after, n, l, p)
      BY <2>1, <2>5, <2>6, <2>7, <2>8 DEF KeptAt
    <2>10. QED
      BY <2>9 DEF Others
  <1>6. QED
    BY <1>4, <1>5

\* OthersOf keeps everything but p.
LEMMA OthersFacts ==
    ASSUME NEW l \in Lists, NEW p \in Profile
    PROVE  Others(OthersOf(l, p), Len(l), l, p)
  <1>1. Len(l) \in Nat
    BY DEF Lists
  <1>2. OthersOf(l, p) = (CHOOSE f : KeptUpTo(Len(l), f, l, p))[Len(l)]
    BY DEF OthersOf, KeptUpTo
  <1>3. PICK f : KeptUpTo(Len(l), f, l, p) /\ OthersOf(l, p) = f[Len(l)]
    BY <1>1, <1>2, KeptExist
  <1>4. \A k \in 0..Len(l) :
          f[k] = IF k = 0 THEN <<>>
                 ELSE IF l[k] = p THEN f[k - 1] ELSE Append(f[k - 1], l[k])
    BY <1>3 DEF KeptUpTo
  <1> DEFINE Good == {k \in 0..Len(l) : Others(f[k], k, l, p)}
  <1>5. 0 \in Good
    <2>1. f[0] = <<>>
      BY <1>1, <1>4
    <2>2. KeptAt(<<>>, <<>>, 0, l, p)
      BY DEF KeptAt
    <2>3. QED
      BY <1>1, <2>1, <2>2 DEF Others
  <1>6. ASSUME NEW k \in 1..Len(l), k - 1 \in Good
        PROVE  k \in Good
    <2>1. k \in 0..Len(l) /\ k # 0 /\ Others(f[k - 1], k - 1, l, p)
      BY <1>6
    <2>2. f[k] = IF l[k] = p THEN f[k - 1] ELSE Append(f[k - 1], l[k])
      BY <1>4, <2>1
    <2>3. Others(f[k], k, l, p)
      BY <2>1, <2>2, OthersGrow
    <2>4. QED
      BY <2>1, <2>3
  <1> HIDE DEF Good
  <1>7. Len(l) \in Good
    <2>1. PICK n \in Nat : n = Len(l)
      BY <1>1
    <2>2. \A k \in 1..n : k - 1 \in Good => k \in Good
      BY <1>6, <2>1
    <2>3. \A k \in 0..n : k \in Good
      BY <1>5, <2>2, Upward
    <2>4. QED
      BY <2>1, <2>3
  <1>8. QED
    BY <1>3, <1>7 DEF Good

\* What a save makes of a list: the profile, and the first of the others.
LEMMA RecentIs ==
    ASSUME NEW l \in Lists, NEW p \in Profile
    PROVE  \E e, others, most :
             /\ KeptAt(e, others, Len(l), l, p)
             /\ most \in Nat /\ most <= Len(others)
             /\ most = Len(others) \/ most = MaxRecentProfiles - 1
             /\ most <= MaxRecentProfiles - 1
             /\ Recent(l, p) \in Seq(Profile)
             /\ Len(Recent(l, p)) = most + 1
             /\ Recent(l, p)[1] = p
             /\ \A i \in 1..most : Recent(l, p)[i + 1] = others[i]
  <1> DEFINE others == OthersOf(l, p)
             most == IF Len(others) >= MaxRecentProfiles
                     THEN MaxRecentProfiles - 1 ELSE Len(others)
             rest == SubSeq(others, 1, most)
             new == Recent(l, p)
  <1>1. PICK e : KeptAt(e, others, Len(l), l, p)
    BY OthersFacts DEF Others
  <1>2. /\ new = <<p>> \o rest
        /\ MaxRecentProfiles \in Nat /\ MaxRecentProfiles >= 2
    BY ListAssumption DEF Recent
  <1>3. others \in Seq(Profile) /\ Len(others) \in Nat /\ DOMAIN others = 1..Len(others)
    BY <1>1 DEF KeptAt
  <1> HIDE DEF others, new
  <1>4. /\ most \in Nat /\ most <= Len(others) /\ most <= MaxRecentProfiles - 1
        /\ most = Len(others) \/ most = MaxRecentProfiles - 1
    BY <1>2, <1>3
  <1> HIDE DEF most
  <1>5. /\ rest \in Seq(Profile) /\ Len(rest) = most
        /\ \A i \in 1..most : rest[i] = others[i]
    <2>1. \A i \in 1..most : others[i] \in Profile
      <3>1. \A i \in 1..most : i \in 1..Len(others)
        <4>1. \A a, b \in Nat : a <= b => \A i \in 1..a : i \in 1..b
          OBVIOUS
        <4>2. most \in Nat /\ Len(others) \in Nat /\ most <= Len(others)
          BY <1>3, <1>4
        <4>3. QED
          BY ONLY <4>1, <4>2
      <3>2. \A i \in 1..Len(others) : others[i] \in Profile
        BY <1>3
      <3>3. QED
        BY <3>1, <3>2
    <2>2. QED
      BY <1>4, <2>1, SubSeqProperties
  <1> HIDE DEF rest
  <1>6. /\ new \in Seq(Profile) /\ Len(new) = most + 1 /\ new[1] = p
        /\ \A i \in 1..most : new[i + 1] = others[i]
    <2>1. <<p>> \in Seq(Profile) /\ Len(<<p>>) = 1 /\ <<p>>[1] = p
      OBVIOUS
    <2>2. QED
      BY <1>2, <1>4, <1>5, <2>1, ConcatProperties
  <1>7. QED
    BY <1>1, <1>4, <1>6 DEF new

\* A list that may be in memory: not too long, and with no repetitions but
\* those of the list that was in the file at first.
Proper(l) ==
    /\ l \in Lists
    /\ Len(l) <= MaxRecentProfiles
    /\ Repeated(l) \subseteq Repeated(legacy)

\* A save makes a proper list of a proper one.
LEMMA RecentProper ==
    ASSUME NEW l, Proper(l), NEW p \in Profile
    PROVE  Proper(Recent(l, p))
  <1>1. l \in Lists /\ Len(l) \in Nat /\ Repeated(l) \subseteq Repeated(legacy)
    BY DEF Proper, Lists
  <1> DEFINE new == Recent(l, p)
  <1>2. PICK e, others, most :
          /\ KeptAt(e, others, Len(l), l, p)
          /\ most \in Nat /\ most <= Len(others)
          /\ most <= MaxRecentProfiles - 1
          /\ new \in Seq(Profile)
          /\ Len(new) = most + 1
          /\ new[1] = p
          /\ \A i \in 1..most : new[i + 1] = others[i]
    BY <1>1, RecentIs
  <1> HIDE DEF new
  <1>3. Len(others) \in Nat
    BY <1>2 DEF KeptAt
  <1>4. \A i \in 1..Len(new) : i # 1 => i - 1 \in 1..most /\ i - 1 \in 1..Len(others)
                                        /\ new[i] = others[i - 1]
    BY <1>2, <1>3
  <1>5. ASSUME NEW i \in 1..Len(new), NEW j \in 1..Len(new), j # i, new[j] = new[i]
        PROVE  new[i] \in Repeated(l)
    <2>1. i # 1 /\ j # 1
      <3>1. \A k \in 1..Len(others) : others[k] # p
        BY <1>2 DEF KeptAt
      <3>2. \A k \in 1..Len(new) : k # 1 => new[k] # p
        BY <1>4, <3>1
      <3>3. QED
        BY <1>2, <1>5, <3>2
    <2>2. PICK a : a = i - 1
      OBVIOUS
    <2>3. PICK b : b = j - 1
      OBVIOUS
    <2>4. /\ a \in 1..Len(others) /\ b \in 1..Len(others) /\ a # b
          /\ new[i] = others[a] /\ new[j] = others[b]
      BY <1>4, <1>5, <2>1, <2>2, <2>3
    <2>5. e[a] \in 1..Len(l) /\ e[b] \in 1..Len(l) /\ e[a] # e[b]
      <3>1. a < b \/ b < a
        BY <1>3, <2>4
      <3>2. e[a] \in 1..Len(l) /\ e[b] \in 1..Len(l)
        BY <1>2, <2>4 DEF KeptAt
      <3>3. e[a] < e[b] \/ e[b] < e[a]
        BY <1>2, <2>4, <3>1 DEF KeptAt
      <3>4. QED
        BY <1>1, <3>2, <3>3
    <2>6. new[i] = l[e[a]] /\ l[e[b]] = l[e[a]]
      BY <1>2, <1>5, <2>4 DEF KeptAt
    <2>7. QED
      BY <2>5, <2>6 DEF Repeated
  <1>6. Repeated(new) \subseteq Repeated(l)
    BY <1>5 DEF Repeated
  <1>7. Len(new) <= MaxRecentProfiles
    BY <1>2, ListAssumption
  <1>8. QED
    BY <1>1, <1>2, <1>6, <1>7 DEF Proper, Lists, new

----------------------------------------------------------------------------
(* The lists in memory, and the settings of a request.                     *)

\* Contents of a file that load as a proper list, or as none.
Loads(d) ==
    d \in {Empty, Torn} \/ (d \in Seq(Entry) /\ Repeated(Rebuilt(d)) \subseteq Repeated(legacy))

\* Every list in memory is proper, and so is every one on a disk once loaded.
ListInv ==
    /\ DOMAIN profiles = Importer
    /\ DOMAIN disk = Inode
    /\ \A s \in Importer : Proper(profiles[s])
    /\ \A i \in Inode : Loads(disk[i])

\* The empty list.
LEMMA NothingIsProper == Proper(<<>>)
  BY ListAssumption DEF Proper, Lists, Repeated

\* Rebuilding the IDs of a list makes a list of IDs, and leaves one alone.
LEMMA RebuiltFacts ==
    ASSUME NEW l \in Seq(Entry)
    PROVE  /\ Rebuilt(l) \in Lists /\ Len(Rebuilt(l)) = Len(l)
           /\ l \in Lists => Rebuilt(l) = l
  <1>1. Len(l) \in Nat /\ \A i \in 1..Len(l) : l[i] \in Entry
    OBVIOUS
  <1>2. \A i \in 1..Len(l) : Rebuilt(l)[i] \in Profile
    BY <1>1, ListAssumption DEF Rebuilt, Entry
  <1>3. Rebuilt(l) \in [1..Len(l) -> Profile]
    BY <1>2 DEF Rebuilt
  <1>4. Rebuilt(l) \in Seq(Profile) /\ Len(Rebuilt(l)) = Len(l)
    BY <1>1, <1>3
  <1>5. ASSUME l \in Lists
        PROVE  Rebuilt(l) = l
    <2>1. \A i \in 1..Len(l) : l[i] \notin Nameless
      BY <1>5, ListAssumption DEF Lists
    <2>2. \A i \in 1..Len(l) : Rebuilt(l)[i] = l[i]
      BY <2>1 DEF Rebuilt
    <2>3. QED
      BY <1>1, <1>4, <2>2
  <1>6. QED
    BY <1>4, <1>5 DEF Lists

\* What is proper in memory is so in a file.
LEMMA ProperLoads ==
    ASSUME NEW l, Proper(l)
    PROVE  Loads(l)
  <1>1. l \in Seq(Entry)
    BY DEF Proper, Lists, Entry
  <1>2. QED
    BY <1>1, RebuiltFacts DEF Proper, Loads

\* What a process loads at its start.
LEMMA LoadedProper == ASSUME FileInv, ListInv PROVE Proper(Loaded)
  <1> DEFINE l == disk[path]
             r == Rebuilt(l)
             n == IF Len(l) > MaxRecentProfiles THEN MaxRecentProfiles ELSE Len(l)
  <1>1. CASE path = NoFile \/ l \in {Empty, Torn}
    BY <1>1, NothingIsProper DEF Loaded
  <1>2. CASE path # NoFile /\ l \notin {Empty, Torn}
    <2>1. l \in Seq(Entry) /\ Repeated(r) \subseteq Repeated(legacy) /\ Len(l) \in Nat
      BY <1>2 DEF FileInv, ListInv, Loads
    <2>2. r \in Seq(Profile) /\ Len(r) = Len(l)
      BY <2>1, RebuiltFacts DEF Lists
    <2>3. n \in Nat /\ n <= Len(r) /\ n <= MaxRecentProfiles
      BY <2>1, <2>2, ListAssumption
    <2>4. Loaded = SubSeq(r, 1, n)
      BY <1>2 DEF Loaded
    <2> HIDE DEF r, n
    <2>5. \A i \in 1..n : r[i] \in Profile
      BY <2>2, <2>3
    <2>6. /\ Loaded \in Seq(Profile) /\ Len(Loaded) = n
          /\ \A i \in 1..n : Loaded[i] = r[i] /\ i \in 1..Len(r)
      BY <2>2, <2>3, <2>4, <2>5, SubSeqProperties
    <2>7. Repeated(Loaded) \subseteq Repeated(r)
      BY <2>6 DEF Repeated
    <2>8. QED
      BY <2>1, <2>3, <2>6, <2>7 DEF Proper, Lists
  <1>3. QED
    BY <1>1, <1>2

\* No step makes a list improper.
LEMMA ListStep ==
    ASSUME FileInv, ListInv, [ProfilesNext]_profileVars
    PROVE  ListInv'
  <1>1. legacy' = legacy
    BY DEF ProfilesNext, StartImporter, SaveRecentProfile, Crash, Persist, OpenTmp, WriteTmp,
           WriteFails, RenameTmp, profileVars
  <1>2. /\ \A l : Proper(l) => Proper(l)'
        /\ \A d : Loads(d) => Loads(d)'
    BY <1>1 DEF Proper, Loads
  <1>3. ASSUME NEW s \in Importer, NEW l, Proper(l), profiles' = [profiles EXCEPT ![s] = l],
               UNCHANGED disk
        PROVE  ListInv'
    <2>1. /\ DOMAIN profiles' = Importer /\ DOMAIN disk' = Inode
          /\ \A t \in Importer : Proper(profiles'[t])
          /\ \A i \in Inode : Loads(disk'[i])
      BY <1>3 DEF ListInv
    <2>2. QED
      BY <1>1, <2>1 DEF ListInv, Proper, Loads
  <1>4. ASSUME NEW s \in Importer, StartImporter(s)
        PROVE  ListInv'
    BY <1>3, <1>4, LoadedProper DEF StartImporter
  <1>5. ASSUME NEW s \in Importer, NEW p \in Profile, SaveRecentProfile(s, p)
        PROVE  ListInv'
    <2>1. Proper(Recent(profiles[s], p))
      BY RecentProper DEF ListInv
    <2>2. QED
      BY <1>3, <1>5, <2>1 DEF SaveRecentProfile
  <1>6. ASSUME NEW s \in Importer, Crash(s)
        PROVE  ListInv'
    BY <1>3, <1>6, NothingIsProper DEF Crash
  <1>7. ASSUME NEW s \in Importer, Persist(s)
        PROVE  ListInv'
    <2>1. UNCHANGED profiles
      BY <1>7 DEF Persist, OpenTmp, WriteTmp, WriteFails, RenameTmp
    <2>2. \/ disk' = disk
          \/ \E i \in DOMAIN disk \union {saver[s].fd}, l \in {Empty, Torn, profiles[s]} :
               disk' = [disk EXCEPT ![i] = l]
      BY <1>7 DEF Persist, OpenTmp, WriteTmp, WriteFails, RenameTmp, ListInv
    <2>3. Loads(profiles[s]) /\ Loads(Empty) /\ Loads(Torn)
      BY ProperLoads DEF ListInv, Loads
    <2>4. /\ DOMAIN disk' = Inode
          /\ \A i \in Inode : Loads(disk'[i])
      BY <2>2, <2>3 DEF ListInv
    <2>5. \A t \in Importer : Proper(profiles'[t])
      BY <2>1 DEF ListInv
    <2>6. QED
      BY <1>1, <2>1, <2>4, <2>5 DEF ListInv, Proper, Loads
  <1>8. CASE UNCHANGED profileVars
    BY <1>8 DEF profileVars, ListInv, Proper, Loads
  <1>9. QED
    BY <1>4, <1>5, <1>6, <1>7, <1>8 DEF ProfilesNext

\* Lists are proper in every reachable state.
THEOREM ListInvariant == Spec => []ListInv
  <1>1. ProfilesInit => ListInv
    <2> SUFFICES ASSUME ProfilesInit
                 PROVE  ListInv
      OBVIOUS
    <2>1. /\ DOMAIN profiles = Importer /\ DOMAIN disk = Inode
          /\ \A s \in Importer : profiles[s] = <<>>
      BY DEF ProfilesInit
    <2>2. \A i \in Inode : \/ disk[i] = Empty
                           \/ disk[i] \in Legacy /\ legacy = Rebuilt(disk[i])
      BY DEF ProfilesInit
    <2>3. \A i \in Inode : Loads(disk[i])
      BY <2>2, ListAssumption DEF Loads
    <2>4. QED
      BY <2>1, <2>3, NothingIsProper DEF ListInv
  <1>2. QED
    BY <1>1, ListStep, FileInvariant, ServesProfiles, PTL DEF ProfilesSpec

\* For any number of processes and profiles, any file found at first, and any
\* crashes and torn files: no process has more profiles than it may, or
\* repeats one that the file it found at first did not repeat.
THEOREM ListAlwaysRecent == Spec => []ListIsRecent
  <1>1. ListInv => ListIsRecent
    BY DEF ListInv, ListIsRecent, Proper
  <1>2. QED
    BY <1>1, ListInvariant, PTL

\* The request's profile is in l, after others, each once, of S; or those
\* that may be in front of it fill the list.
Remembers(l, S) ==
    /\ IsFiniteSet(S)
    /\ Cardinality(S) < MaxRecentProfiles =>
         \E k \in 1..Len(l) :
           /\ l[k] = Mine
           /\ \A i \in 1..k - 1 : l[i] \in S
           /\ \A i, j \in 1..k - 1 : l[i] = l[j] => i = j

\* A save of the request's profile puts it in front.
LEMMA RemembersMine ==
    ASSUME NEW l \in Lists
    PROVE  Remembers(Recent(l, Mine), {})
  <1> DEFINE new == Recent(l, Mine)
  <1>1. Len(new) \in Nat /\ Len(new) >= 1 /\ new[1] = Mine
    BY RecentIs, ServingAssumption
  <1>2. 1 \in 1..Len(new) /\ 1..1 - 1 = {}
    BY <1>1
  <1> HIDE DEF new
  <1>3. \E k \in 1..Len(new) : new[k] = Mine /\ 1..k - 1 = {}
    BY <1>1, <1>2
  <1>4. Remembers(new, {})
    BY <1>3, FS_EmptySet DEF Remembers
  <1>5. QED
    BY <1>4 DEF new

\* A save of another keeps it, unless those in front of it fill the list.
LEMMA RemembersRecent ==
    ASSUME NEW l \in Lists, NEW p \in Profile, p # Mine, NEW S, Remembers(l, S)
    PROVE  Remembers(Recent(l, p), S \union {p})
  <1> DEFINE new == Recent(l, p)
             T == S \union {p}
  <1>1. IsFiniteSet(S) /\ IsFiniteSet(T) /\ Cardinality(S) \in Nat /\ Cardinality(T) \in Nat
        /\ Cardinality(S) <= Cardinality(T)
    <2>1. IsFiniteSet(S) /\ Cardinality(S) \in Nat
      BY FS_CardinalityType DEF Remembers
    <2>2. /\ IsFiniteSet(T)
          /\ Cardinality(T) = IF p \in S THEN Cardinality(S) ELSE Cardinality(S) + 1
      BY <2>1, FS_AddElement
    <2> HIDE DEF T
    <2>3. QED
      BY <2>1, <2>2
  <1> SUFFICES ASSUME Cardinality(T) < MaxRecentProfiles
               PROVE  \E k \in 1..Len(new) :
                        /\ new[k] = Mine
                        /\ \A i \in 1..k - 1 : new[i] \in T
                        /\ \A i, j \in 1..k - 1 : new[i] = new[j] => i = j
    BY <1>1 DEF Remembers
  <1>2. MaxRecentProfiles \in Nat /\ Len(l) \in Nat
    BY ListAssumption DEF Lists
  <1>3. PICK k \in 1..Len(l) :
          /\ l[k] = Mine
          /\ \A i \in 1..k - 1 : l[i] \in S
          /\ \A i, j \in 1..k - 1 : l[i] = l[j] => i = j
    BY <1>1, <1>2 DEF Remembers
  <1>4. PICK e, others, most :
          /\ KeptAt(e, others, Len(l), l, p)
          /\ most \in Nat /\ most <= Len(others)
          /\ most = Len(others) \/ most = MaxRecentProfiles - 1
          /\ Len(new) = most + 1
          /\ new[1] = p
          /\ \A i \in 1..most : new[i + 1] = others[i]
    BY RecentIs
  <1> HIDE DEF new
  <1>5. Len(others) \in Nat
    BY <1>4 DEF KeptAt
  <1>6. PICK m \in 1..Len(others) : e[m] = k
    BY <1>3, <1>4 DEF KeptAt
  <1>7. others[m] = Mine
    BY <1>3, <1>4, <1>6 DEF KeptAt
  <1>8. ASSUME NEW i \in 1..m - 1
        PROVE  /\ i \in 1..Len(others) /\ e[i] \in 1..k - 1
               /\ others[i] = l[e[i]] /\ others[i] \in T \ {p}
    <2>1. i \in 1..Len(others) /\ i < m
      BY <1>5, <1>6, <1>8
    <2>2. e[i] \in 1..Len(l) /\ e[i] < k /\ others[i] = l[e[i]] /\ others[i] # p
      BY <1>4, <1>6, <2>1 DEF KeptAt
    <2>3. e[i] \in 1..k - 1
      BY <1>2, <1>3, <2>2
    <2>4. QED
      BY <1>3, <2>1, <2>2, <2>3
  <1>9. ASSUME NEW i \in 1..m - 1, NEW j \in 1..m - 1, others[i] = others[j]
        PROVE  i = j
    <2>1. e[i] = e[j]
      BY <1>3, <1>8, <1>9
    <2>2. CASE i < j
      BY <1>4, <1>8, <2>1, <2>2 DEF KeptAt
    <2>3. CASE j < i
      BY <1>4, <1>8, <2>1, <2>3 DEF KeptAt
    <2>4. QED
      BY <1>6, <2>2, <2>3
  <1>10. m - 1 <= Cardinality(T) - 1
    <2>1. /\ IsFiniteSet(T \ {p}) /\ Cardinality(T \ {p}) = Cardinality(T) - 1
      BY <1>1, FS_RemoveElement
    <2>2. IsFiniteSet(1..m - 1) /\ Cardinality(1..m - 1) = m - 1
      <3>1. PICK b \in Nat : b = m - 1
        BY <1>5, <1>6
      <3>2. IsFiniteSet(1..b) /\ Cardinality(1..b) = b
        BY <3>1, FS_Interval
      <3>3. QED
        BY <3>1, <3>2
    <2> DEFINE f == [i \in 1..m - 1 |-> others[i]]
    <2>3. f \in [1..m - 1 -> T \ {p}]
      BY <1>8
    <2>4. ASSUME Cardinality(T) - 1 < m - 1
          PROVE  FALSE
      <3>1. Cardinality(T \ {p}) < Cardinality(1..m - 1)
        BY <2>1, <2>2, <2>4
      <3> HIDE DEF f, T
      <3>2. \E x, y \in 1..m - 1 : x # y /\ f[x] = f[y]
        BY <2>1, <2>2, <2>3, <3>1, FS_PigeonHole
      <3>3. QED
        BY <1>9, <3>2 DEF f
    <2>5. QED
      BY <1>1, <1>5, <1>6, <2>4
  <1>11. m \in 1..most
    BY <1>1, <1>2, <1>4, <1>5, <1>6, <1>10
  <1>12. \A i \in 1..m + 1 : i # 1 => i - 1 \in 1..m /\ new[i] = others[i - 1]
    BY <1>4, <1>11
  <1>13. PICK h : h = m + 1
    OBVIOUS
  <1>14. h \in 1..Len(new) /\ new[h] = Mine /\ h - 1 = m
    BY <1>4, <1>7, <1>11, <1>13
  <1>15. \A i \in 1..h - 1 : i = 1 \/ (i - 1 \in 1..m - 1 /\ new[i] = others[i - 1])
    BY <1>12, <1>13, <1>14
  <1>16. ASSUME NEW i \in 1..h - 1
         PROVE  new[i] \in T
    BY <1>4, <1>8, <1>15
  <1>17. ASSUME NEW i \in 1..h - 1, NEW j \in 1..h - 1, new[i] = new[j]
         PROVE  i = j
    <2>1. i # 1 => new[i] # p
      BY <1>8, <1>15
    <2>2. j # 1 => new[j] # p
      BY <1>8, <1>15
    <2>3. CASE i = 1 \/ j = 1
      BY <1>4, <1>17, <2>1, <2>2, <2>3
    <2>4. CASE i # 1 /\ j # 1
      <3>1. i - 1 = j - 1
        BY <1>9, <1>15, <1>17, <2>4
      <3>2. QED
        BY <1>14, <3>1
    <2>5. QED
      BY <2>3, <2>4
  <1>18. QED
    BY <1>14, <1>16, <1>17

\* A request under way has put its profile into the list of its process; and
\* between saves this list is what the process has saved last, if that was
\* persisted.
SettingsInv ==
    /\ savedBy # NoFile => path # NoFile
    /\ request # None =>
         /\ Up(Here)
         /\ Remembers(profiles[Here], since)
         /\ Idle /\ savedBy = Here /\ Here \notin unpersisted => saved = profiles[Here]

\* What a process of any kind does to its list and to the file.
LEMMA SettingsPersist ==
    ASSUME FileInv, ListInv, SettingsInv, UNCHANGED <<request, since>>,
           NEW s \in Importer, Persist(s) \/ StartImporter(s)
    PROVE  SettingsInv'
  <1>1. savedBy' # NoFile => path' # NoFile
    <2>1. CASE RenameTmp(s)
      BY <2>1 DEF RenameTmp, SettingsInv
    <2>2. CASE ~RenameTmp(s)
      BY <2>2 DEF SettingsInv, StartImporter, Persist, OpenTmp, WriteTmp, WriteFails
    <2>3. QED
      BY <2>1, <2>2
  <1> SUFFICES ASSUME request # None
               PROVE  /\ Up(Here)'
                      /\ Remembers(profiles'[Here], since)
                      /\ Idle' /\ savedBy' = Here /\ Here \notin unpersisted' =>
                           saved' = profiles'[Here]
    BY <1>1 DEF SettingsInv
  <1>2. /\ Up(Here) /\ Remembers(profiles[Here], since)
        /\ Idle /\ savedBy = Here /\ Here \notin unpersisted => saved = profiles[Here]
        /\ Here \in Importer /\ DOMAIN saver = Importer /\ DOMAIN profiles = Importer
    BY ServingAssumption DEF SettingsInv, FileInv
  <1>3. CASE s = Here
    <2>1. ~StartImporter(s) /\ UNCHANGED profiles
      BY <1>2, <1>3 DEF StartImporter, Persist, OpenTmp, WriteTmp, WriteFails, RenameTmp
    <2>2. CASE OpenTmp(s) \/ WriteTmp(s)
      <3>1. saver'[Here].at \in {"writing", "renaming"}
        BY <1>2, <1>3, <2>2 DEF OpenTmp, WriteTmp, FileInv, Saver
      <3>2. QED
        BY <1>2, <2>1, <3>1 DEF Up, Idle
    <2>3. CASE WriteFails(s)
      <3>1. saver'[Here].at = "idle" /\ Here \in unpersisted'
        BY <1>2, <1>3, <2>3 DEF WriteFails, Closed
      <3>2. QED
        BY <1>2, <2>1, <3>1 DEF Up
    <2>4. CASE RenameTmp(s)
      <3>1. /\ saver'[Here].at = "idle"
            /\ Here \in unpersisted' \/ saved' = profiles[Here]
        BY <1>2, <1>3, <2>4 DEF RenameTmp, Closed
      <3>2. QED
        BY <1>2, <2>1, <3>1 DEF Up
    <2>5. QED
      BY <2>1, <2>2, <2>3, <2>4 DEF Persist
  <1>4. CASE s # Here
    <2>1. saver'[Here] = saver[Here] /\ profiles'[Here] = profiles[Here]
      BY <1>2, <1>4 DEF StartImporter, Persist, OpenTmp, WriteTmp, WriteFails, RenameTmp
    <2>2. UNCHANGED <<saved, savedBy>> \/ savedBy' = s
      BY DEF StartImporter, Persist, OpenTmp, WriteTmp, WriteFails, RenameTmp
    <2>3. Here \notin unpersisted' => Here \notin unpersisted
      BY <1>4 DEF StartImporter, Persist, OpenTmp, WriteTmp, WriteFails, RenameTmp
    <2>4. QED
      BY <1>2, <1>4, <2>1, <2>2, <2>3 DEF Up, Idle
  <1>5. QED
    BY <1>3, <1>4

\* A save of any profile begins, the request's own or another.
LEMMA SettingsSaved ==
    ASSUME FileInv, ListInv, SettingsInv, NEW s \in Importer, NEW p \in Profile,
           SaveRecentProfile(s, p),
           request' = request \/ (s = Here /\ p = Mine),
           since' = IF s # Here THEN since
                    ELSE IF p = Mine THEN {} ELSE since \union {p}
    PROVE  SettingsInv'
  <1>1. /\ UNCHANGED <<path, saved, savedBy, unpersisted>>
        /\ profiles' = [profiles EXCEPT ![s] = Recent(profiles[s], p)]
        /\ saver[s].at = "idle" /\ saver' = [saver EXCEPT ![s].at = "opening"]
    BY DEF SaveRecentProfile
  <1>2. /\ Here \in Importer /\ DOMAIN saver = Importer /\ DOMAIN profiles = Importer
        /\ saver[s] \in Saver /\ profiles[s] \in Lists
    BY ServingAssumption DEF FileInv, ListInv, Proper
  <1>3. CASE s = Here
    <2>1. saver'[Here].at = "opening" /\ profiles'[Here] = Recent(profiles[Here], p)
      BY <1>1, <1>2, <1>3 DEF Saver
    <2>2. request' # None => Remembers(profiles'[Here], since')
      <3>1. CASE p = Mine
        BY <1>2, <1>3, <2>1, <3>1, RemembersMine
      <3>2. CASE p # Mine
        <4>1. request' # None => Remembers(profiles[Here], since)
          BY <3>2 DEF SettingsInv
        <4>2. QED
          BY <1>2, <1>3, <2>1, <3>2, <4>1, RemembersRecent
      <3>3. QED
        BY <3>1, <3>2
    <2>3. Up(Here)' /\ ~Idle'
      BY <2>1 DEF Up, Idle
    <2>4. QED
      BY <1>1, <2>2, <2>3 DEF SettingsInv, Remembers
  <1>4. CASE s # Here
    <2>1. /\ saver'[Here] = saver[Here] /\ profiles'[Here] = profiles[Here]
          /\ UNCHANGED <<request, since>>
      BY <1>1, <1>2, <1>4
    <2>2. Up(Here)' = Up(Here) /\ Idle' = Idle
      BY <2>1 DEF Up, Idle
    <2>3. Remembers(profiles[Here], since) => Remembers(profiles'[Here], since')
      BY <2>1
    <2>4. QED
      BY <1>1, <2>1, <2>2, <2>3 DEF SettingsInv, Remembers
  <1>5. QED
    BY <1>3, <1>4

\* What a handler does beside saving.
LEMMA SettingsHandled ==
    ASSUME SettingsInv, UNCHANGED <<profileVars, since>>, request' # None => request # None
    PROVE  SettingsInv'
  BY DEF SettingsInv, profileVars, Up, Remembers, Idle

\* A request's settings are remembered in every reachable state.
THEOREM SettingsInvariant == Spec => []SettingsInv
  <1>1. Init => SettingsInv
    BY DEF Init, PreflightInit, ProfilesInit, SettingsInv
  <1>2. FileInv /\ ListInv /\ SettingsInv /\ [Next]_vars => SettingsInv'
    <2> SUFFICES ASSUME FileInv, ListInv, SettingsInv, [Next]_vars
                 PROVE  SettingsInv'
      OBVIOUS
    <2> USE ServingAssumption
    <2>1. ASSUME NEW begin, StartSaving(begin)
          PROVE  SettingsInv'
      BY <2>1, SettingsSaved DEF StartSaving
    <2>2. ASSUME NEW s \in Importer, NEW p \in Profile, CheckEndpoint(s, p)
          PROVE  SettingsInv'
      BY <2>2, SettingsSaved DEF CheckEndpoint, preflightVars
    <2>3. CASE Saved
      <3>1. UNCHANGED <<profileVars, since>> /\ request.at = "saving"
        BY <2>3 DEF Saved, AfterSaving, PersistUploadedFile, BundleRefused
      <3>2. request # None
        BY <3>1 DEF None
      <3>3. QED
        BY <3>1, <3>2, SettingsHandled
    <2>4. CASE Handle
      <3>1. request' = request \/ request # None
        <4>1. CASE Import \/ ImportFails \/ VerifyImport
          BY <4>1 DEF Import, ImportFails, VerifyImport
        <4>2. CASE \/ PrepareBundle \/ AnalyzeBundle \/ AnalyzeFails \/ LeaveAnalyze
                  \/ UploadUnresolved \/ StoreJob
          <5>1. request.at \in {"preparing", "analyzing", "leaving", "resolving"}
            BY <4>2 DEF PrepareBundle, AnalyzeBundle, AnalyzeFails, LeaveAnalyze,
                        UploadUnresolved, StoreJob
          <5>2. QED
            BY <5>1 DEF None
        <4>3. QED
          BY <2>4, <4>1, <4>2 DEF Handle, PreflightStep
      <3>2. UNCHANGED <<profileVars, since>>
        BY <2>4 DEF Handle, servingVars
      <3>3. QED
        BY <3>1, <3>2, SettingsHandled
    <2>5. ASSUME NEW s \in Importer, PersistStep(s) \/ Restart(s)
          PROVE  SettingsInv'
      BY <2>5, SettingsPersist DEF PersistStep, Restart, preflightVars, servingVars
    <2>6. ASSUME NEW s \in Importer, CrashImporter(s)
          PROVE  SettingsInv'
      <3>1. UNCHANGED <<path, saved, savedBy, unpersisted>>
        BY <2>6 DEF CrashImporter, Crash
      <3>2. CASE s = Here
        BY <2>6, <3>1, <3>2 DEF CrashImporter, SettingsInv
      <3>3. CASE s # Here
        <4>1. UNCHANGED <<request, since>>
          BY <2>6, <3>3 DEF CrashImporter, preflightVars, servingVars
        <4>2. saver'[Here] = saver[Here] /\ profiles'[Here] = profiles[Here]
          BY <2>6, <3>3 DEF CrashImporter, Crash, FileInv, ListInv
        <4>3. QED
          BY <3>1, <4>1, <4>2 DEF SettingsInv, Up, Remembers, Idle
      <3>4. QED
        BY <3>2, <3>3
    <2>7. CASE Pass \/ UNCHANGED vars
      BY <2>7, SettingsHandled DEF Pass, Tick, vars, preflightVars, servingVars
    <2>8. QED
      BY <2>1, <2>2, <2>3, <2>4, <2>5, <2>6, <2>7 DEF Next
  <1>3. QED
    BY <1>1, <1>2, FileInvariant, ListInvariant, ServesProfiles, PTL DEF Spec

\* For any bundle, process and profile: the settings of a preflight or an
\* upload that goes beyond saving them are in the list of its process until
\* as many other profiles as the list holds have been saved; and the file is
\* that list if this process was the last to save, its last save is over and
\* was persisted, and had the temporary file to itself.
THEOREM SettingsAlwaysRetained == Spec => []SettingsRetained
  <1>1. FileInv /\ ListInv /\ SettingsInv => SettingsRetained
    <2> SUFFICES ASSUME FileInv, ListInv, SettingsInv, request # None
                 PROVE  /\ Cardinality(since) < MaxRecentProfiles =>
                             Mine \in Range(profiles[Here])
                        /\ Idle /\ savedBy = Here /\ Here \notin unpersisted /\ whole =>
                             disk[path] = profiles[Here]
      BY DEF SettingsRetained
    <2>1. Cardinality(since) < MaxRecentProfiles =>
            \E k \in 1..Len(profiles[Here]) : profiles[Here][k] = Mine
      BY DEF SettingsInv, Remembers
    <2>2. savedBy = Here => path # NoFile
      BY InodeAssumption, ServingAssumption DEF SettingsInv
    <2>3. Cardinality(since) < MaxRecentProfiles => Mine \in Range(profiles[Here])
      <3>1. \A k \in 1..Len(profiles[Here]) : profiles[Here][k] \in Range(profiles[Here])
        BY DEF Range, ListInv, Proper, Lists
      <3>2. QED
        BY <2>1, <3>1
    <2>4. ASSUME Idle, savedBy = Here, Here \notin unpersisted, whole
          PROVE  disk[path] = profiles[Here]
      BY <2>2, <2>4 DEF FileInv, SettingsInv
    <2>5. QED
      BY <2>3, <2>4
  <1>2. QED
    BY <1>1, FileInvariant, ServesProfiles, ListInvariant, SettingsInvariant, PTL

----------------------------------------------------------------------------
(* The points of a line.                                                   *)

\* f is a table of what the loop that picks the points at I has appended
\* after each of n points.
PickedUpTo(n, f, ts, I) ==
    f = [k \in 0..n |-> IF k = 0 THEN <<>>
                        ELSE IF k \in I THEN Append(f[k - 1], ts[k]) ELSE f[k - 1]]

\* The table, entry by entry.
PickTable(f, ts, I) ==
    /\ f \in [0..Len(ts) -> Seq(Int)]
    /\ f[0] = <<>>
    /\ \A k \in 1..Len(ts) :
         f[k] = IF k \in I THEN Append(f[k - 1], ts[k]) ELSE f[k - 1]

\* At is the last entry of such a table.
LEMMA AtSteps ==
    ASSUME NEW ts \in Seq(Int), NEW I
    PROVE  \E f : PickTable(f, ts, I) /\ At(ts, I) = f[Len(ts)]
  <1> DEFINE n == Len(ts)
             step == [x \in Seq(Int) \X (1..n) |->
                        IF x[2] \in I THEN Append(x[1], ts[x[2]]) ELSE x[1]]
  <1>1. n \in Nat /\ \A k \in 1..n : ts[k] \in Int
    OBVIOUS
  <1>2. step \in [Seq(Int) \X (1..n) -> Seq(Int)] /\ <<>> \in Seq(Int)
    BY <1>1, AppendProperties
  <1>3. \A s \in Seq(Int), k \in 1..n :
          step[<<s, k>>] = IF k \in I THEN Append(s, ts[k]) ELSE s
    OBVIOUS
  <1> HIDE DEF step
  <1>4. PICK g \in [0..n -> Seq(Int)] : Table(g, <<>>, step, n)
    BY <1>1, <1>2, Recursion
  <1>5. PickedUpTo(n, g, ts, I)
    <2>1. \A k \in 0..n : k # 0 => k \in 1..n /\ k - 1 \in 0..n
      BY <1>1
    <2>2. \A k \in 0..n : g[k] = IF k = 0 THEN <<>>
                                 ELSE IF k \in I THEN Append(g[k - 1], ts[k]) ELSE g[k - 1]
      BY <1>3, <1>4, <2>1 DEF Table
    <2>3. g = [k \in 0..n |-> g[k]]
      OBVIOUS
    <2>4. QED
      BY <2>2, <2>3 DEF PickedUpTo
  <1>6. At(ts, I) = (CHOOSE f : PickedUpTo(n, f, ts, I))[n]
    BY DEF At, PickedUpTo
  <1>7. PICK f : PickedUpTo(n, f, ts, I) /\ At(ts, I) = f[n]
    BY <1>5, <1>6
  <1>8. \A k \in 0..n : f[k] = IF k = 0 THEN <<>>
                               ELSE IF k \in I THEN Append(f[k - 1], ts[k]) ELSE f[k - 1]
    BY <1>7 DEF PickedUpTo
  <1> DEFINE G == {k \in 0..n : f[k] \in Seq(Int)}
  <1>9. 0 \in G
    <2>1. f[0] = <<>> /\ 0 \in 0..n
      BY <1>1, <1>8
    <2>2. QED
      BY <1>2, <2>1
  <1>10. ASSUME NEW k \in 1..n, k - 1 \in G
         PROVE  k \in G
    <2>1. f[k] = IF k \in I THEN Append(f[k - 1], ts[k]) ELSE f[k - 1]
      BY <1>1, <1>8
    <2>2. f[k - 1] \in Seq(Int) /\ ts[k] \in Int /\ k \in 0..n
      BY <1>1, <1>10
    <2>3. Append(f[k - 1], ts[k]) \in Seq(Int)
      BY <2>2, AppendProperties
    <2>4. f[k] \in Seq(Int)
      BY <2>1, <2>2, <2>3
    <2>5. QED
      BY <2>2, <2>4
  <1>11. \A k \in 0..n : k \in G
    <2> HIDE DEF G
    <2>1. QED
      BY <1>1, <1>9, <1>10, Upward
  <1>12. f \in [0..n -> Seq(Int)]
    <2>1. f = [k \in 0..n |-> f[k]]
      BY <1>7 DEF PickedUpTo
    <2>2. QED
      BY <1>11, <2>1
  <1>13. PickTable(f, ts, I)
    <2>1. f[0] = <<>>
      BY <1>1, <1>8
    <2>2. \A k \in 1..n : k # 0 /\ k \in 0..n
      BY <1>1
    <2>3. QED
      BY <1>8, <1>12, <2>1, <2>2 DEF PickTable
  <1>14. QED
    BY <1>7, <1>13

\* In order of time.
Ordered(ts) == \A i, j \in DOMAIN ts : i < j => ts[i] <= ts[j]

\* s holds points of the first n of ts, those at I, in their order.
Picked(s, n, ts, I) ==
    /\ s \in Seq(Int)
    /\ \A k \in DOMAIN s : \E i \in 1..n : i \in I /\ s[k] = ts[i]
    /\ Ordered(ts) => Ordered(s)

\* One more point, at I or not.
LEMMA PickedGrow ==
    ASSUME NEW ts \in Seq(Int), NEW I, NEW n \in 1..Len(ts),
           NEW s, Picked(s, n - 1, ts, I),
           NEW t, t = IF n \in I THEN Append(s, ts[n]) ELSE s
    PROVE  Picked(t, n, ts, I)
  <1>1. /\ n \in Nat /\ n \in 1..n /\ \A i \in 1..n - 1 : i \in 1..n /\ i < n
        /\ s \in Seq(Int) /\ DOMAIN s = 1..Len(s) /\ Len(s) \in Nat
        /\ ts[n] \in Int /\ DOMAIN ts = 1..Len(ts) /\ Len(ts) \in Nat
    BY DEF Picked
  <1>2. CASE n \notin I
    BY <1>1, <1>2 DEF Picked
  <1>3. CASE n \in I
    <2>1. /\ t \in Seq(Int) /\ Len(t) = Len(s) + 1 /\ t[Len(s) + 1] = ts[n]
          /\ \A k \in 1..Len(s) : t[k] = s[k]
      BY <1>1, <1>3, AppendProperties
    <2>2. DOMAIN t = 1..Len(s) + 1
      BY <2>1
    <2>3. \A k \in DOMAIN t : k \in DOMAIN s \/ k = Len(s) + 1
      BY <1>1, <2>2
    <2>4. ASSUME NEW k \in DOMAIN t
          PROVE  \E i \in 1..n : i \in I /\ t[k] = ts[i]
      <3>1. CASE k \in DOMAIN s
        BY <1>1, <2>1, <3>1 DEF Picked
      <3>2. CASE k = Len(s) + 1
        BY <1>1, <1>3, <2>1, <3>2
      <3>3. QED
        BY <2>3, <3>1, <3>2
    <2>5. ASSUME Ordered(ts), NEW j \in DOMAIN t, NEW k \in DOMAIN t, j < k
          PROVE  t[j] <= t[k]
      <3>1. j \in DOMAIN s
        BY <1>1, <2>2, <2>5
      <3>2. CASE k \in DOMAIN s
        BY <1>1, <2>1, <2>5, <3>1, <3>2 DEF Picked, Ordered
      <3>3. CASE k = Len(s) + 1
        <4>1. PICK i \in 1..n - 1 : s[j] = ts[i]
          BY <3>1 DEF Picked
        <4>2. i \in DOMAIN ts /\ n \in DOMAIN ts /\ i < n
          BY <1>1
        <4>3. ts[i] <= ts[n]
          BY <2>5, <4>2 DEF Ordered
        <4>4. QED
          BY <1>1, <2>1, <3>1, <3>3, <4>1, <4>3
      <3>4. QED
        BY <2>3, <3>2, <3>3
    <2>6. QED
      BY <2>1, <2>4, <2>5 DEF Picked, Ordered
  <1>4. QED
    BY <1>2, <1>3

\* What At picks are points of the line at these positions, in their order.
LEMMA AtFacts ==
    ASSUME NEW ts \in Seq(Int), NEW I
    PROVE  Picked(At(ts, I), Len(ts), ts, I)
  <1>1. Len(ts) \in Nat
    OBVIOUS
  <1>2. PICK f : PickTable(f, ts, I) /\ At(ts, I) = f[Len(ts)]
    BY AtSteps
  <1> DEFINE G == {k \in 0..Len(ts) : Picked(f[k], k, ts, I)}
  <1>3. 0 \in G
    <2>1. Picked(<<>>, 0, ts, I)
      BY DEF Picked, Ordered
    <2>2. QED
      BY <1>1, <1>2, <2>1 DEF PickTable
  <1>4. ASSUME NEW k \in 1..Len(ts), k - 1 \in G
        PROVE  k \in G
    <2>1. Picked(f[k - 1], k - 1, ts, I) /\ k \in 0..Len(ts)
      BY <1>1, <1>4
    <2>2. f[k] = IF k \in I THEN Append(f[k - 1], ts[k]) ELSE f[k - 1]
      BY <1>2 DEF PickTable
    <2>3. QED
      BY <2>1, <2>2, PickedGrow
  <1>5. \A k \in 0..Len(ts) : k \in G
    <2> HIDE DEF G
    <2>1. QED
      BY <1>1, <1>3, <1>4, Upward
  <1>6. QED
    BY <1>1, <1>2, <1>5

\* More positions pick no fewer points, whatever the points are.
LEMMA AtShorter ==
    ASSUME NEW ts \in Seq(Int), NEW us \in Seq(Int), Len(us) = Len(ts),
           NEW I, NEW J, I \subseteq J
    PROVE  Len(At(ts, I)) <= Len(At(us, J))
  <1>1. Len(ts) \in Nat
    OBVIOUS
  <1>2. PICK f : PickTable(f, ts, I) /\ At(ts, I) = f[Len(ts)]
    BY AtSteps
  <1>3. PICK g : PickTable(g, us, J) /\ At(us, J) = g[Len(ts)]
    BY AtSteps
  <1> DEFINE G == {k \in 0..Len(ts) : Len(f[k]) <= Len(g[k])}
  <1>4. 0 \in G
    BY <1>1, <1>2, <1>3 DEF PickTable
  <1>5. ASSUME NEW k \in 1..Len(ts), k - 1 \in G
        PROVE  k \in G
    <2>1. k \in 0..Len(ts) /\ k - 1 \in 0..Len(ts)
      BY <1>1
    <2>2. Len(f[k - 1]) <= Len(g[k - 1])
      BY <1>5
    <2>3. ts[k] \in Int /\ us[k] \in Int /\ f[k - 1] \in Seq(Int) /\ g[k - 1] \in Seq(Int)
      <3>1. f \in [0..Len(ts) -> Seq(Int)] /\ g \in [0..Len(ts) -> Seq(Int)]
        BY <1>2, <1>3 DEF PickTable
      <3>2. ts[k] \in Int /\ us[k] \in Int
        OBVIOUS
      <3>3. QED
        BY <2>1, <3>1, <3>2
    <2>4. /\ f[k] = IF k \in I THEN Append(f[k - 1], ts[k]) ELSE f[k - 1]
          /\ g[k] = IF k \in J THEN Append(g[k - 1], us[k]) ELSE g[k - 1]
      BY <1>2, <1>3 DEF PickTable
    <2>5. /\ Len(f[k - 1]) \in Nat /\ Len(g[k - 1]) \in Nat
          /\ Len(Append(f[k - 1], ts[k])) = Len(f[k - 1]) + 1
          /\ Len(Append(g[k - 1], us[k])) = Len(g[k - 1]) + 1
      BY <2>3, AppendProperties
    <2>6. Len(f[k]) = IF k \in I THEN Len(f[k - 1]) + 1 ELSE Len(f[k - 1])
      BY <2>4, <2>5, Zenon
    <2>7. Len(g[k]) = IF k \in J THEN Len(g[k - 1]) + 1 ELSE Len(g[k - 1])
      BY <2>4, <2>5, Zenon
    <2>8. k \in I => k \in J
      OBVIOUS
    <2>9. QED
      <3>1. ASSUME NEW a \in Nat, NEW b \in Nat, a <= b, NEW c, NEW d,
                   c = (IF k \in I THEN a + 1 ELSE a), d = (IF k \in J THEN b + 1 ELSE b)
            PROVE  c <= d
        BY ONLY <2>8, <3>1
      <3>2. Len(f[k]) <= Len(g[k])
        BY <2>2, <2>5, <2>6, <2>7, <3>1
      <3>3. QED
        BY <2>1, <3>2
  <1>6. \A k \in 0..Len(ts) : k \in G
    <2> HIDE DEF G
    <2>1. QED
      BY <1>1, <1>4, <1>5, Upward
  <1>7. QED
    BY <1>1, <1>2, <1>3, <1>6

----------------------------------------------------------------------------
(* The units of timestamps.                                                *)

AllMillis(ts) == \A i \in DOMAIN ts : Unit(ts[i]) = "milliseconds"

\* Division by a positive number, from both sides.
LEMMA Divided ==
    ASSUME NEW v \in Nat, NEW d \in Nat \ {0}, NEW lo \in Nat, NEW hi \in Nat,
           lo * d <= v, v < hi * d
    PROVE  v \div d \in Nat /\ lo <= v \div d /\ v \div d < hi
  <1> DEFINE q == v \div d
             r == v % d
  <1>1. q \in Int /\ r \in 0..d - 1 /\ v = d * q + r
    BY Z3
  <1> HIDE DEF q, r
  <1>2. q >= 0
    <2>1. ASSUME q <= -1
          PROVE  FALSE
      <3>1. d * q <= -d
        BY <1>1, <2>1, Z3
      <3>2. QED
        BY <1>1, <3>1
    <2>2. QED
      BY <1>1, <2>1
  <1>3. lo <= q
    <2>1. ASSUME q + 1 <= lo
          PROVE  FALSE
      <3>1. d * (q + 1) <= d * lo
        BY <1>1, <1>2, <2>1, Z3
      <3>2. d * (q + 1) = d * q + d /\ d * lo = lo * d
        BY <1>1, Z3
      <3>3. QED
        BY <1>1, <3>1, <3>2
    <2>2. QED
      BY <1>1, <2>1
  <1>4. q < hi
    <2>1. ASSUME hi <= q
          PROVE  FALSE
      <3>1. hi * d <= d * q
        BY <1>1, <1>2, <2>1, Z3
      <3>2. QED
        BY <1>1, <3>1
    <2>2. QED
      BY <1>1, <2>1
  <1>5. QED
    BY <1>1, <1>2, <1>3, <1>4 DEF q

\* Division keeps the order.
LEMMA DividedMonotonic ==
    ASSUME NEW v \in Nat, NEW w \in Nat, NEW d \in Nat \ {0}, v <= w
    PROVE  /\ v \div d \in Nat /\ w \div d \in Nat
           /\ v \div d <= w \div d
  <1> DEFINE q == v \div d
             r == v % d
  <1>1. q \in Nat /\ r \in 0..d - 1 /\ v = d * q + r
    BY Z3
  <1> HIDE DEF r
  <1>2. q * d <= w /\ w < (w + 1) * d
    <2>1. q * d <= v
      BY <1>1, Z3
    <2>2. w + 1 <= (w + 1) * d
      BY Z3
    <2>3. q \in Int /\ q * d \in Int /\ (w + 1) * d \in Int
      BY <1>1, Z3
    <2> HIDE DEF q
    <2>4. QED
      BY <2>1, <2>2, <2>3
  <1>3. q \in Nat /\ w + 1 \in Nat
    BY <1>1
  <1> HIDE DEF q
  <1>4. w \div d \in Nat /\ q <= w \div d
    BY <1>2, <1>3, Divided
  <1>5. QED
    BY <1>3, <1>4 DEF q

\* The bounds of the units, one by one.
LEMMA Bounds ==
    /\ Thousand \in Nat \ {0} /\ Thousand * Thousand \in Nat \ {0}
    /\ FromSeconds \in Nat \ {0} /\ FromMillis \in Nat \ {0} /\ FromMicros \in Nat \ {0}
    /\ FromNanos \in Nat \ {0} /\ MaxInt \in Nat
    /\ FromSeconds < FromMillis /\ FromMillis < FromMicros /\ FromMicros < FromNanos
    /\ FromMillis <= FromSeconds * Thousand
    /\ FromMicros = FromMillis * Thousand
    /\ FromNanos = FromMicros * Thousand
    /\ MaxInt < FromNanos * Thousand
  <1>1. /\ Thousand \in Nat \ {0} /\ FromSeconds \in Nat \ {0} /\ FromMillis \in Nat \ {0}
        /\ FromMicros \in Nat \ {0} /\ FromNanos \in Nat \ {0} /\ MaxInt \in Nat \ {0}
    BY UnitAssumption
  <1>2. Thousand * Thousand \in Nat \ {0}
    BY <1>1, Z3
  <1>3. QED
    BY <1>1, <1>2, UnitAssumption

\* A timestamp in milliseconds is one in milliseconds after its conversion
\* from the unit that was guessed.
LEMMA MillisFromUnit ==
    ASSUME NEW v \in Int64
    PROVE  Unit(ToMillis(v, Unit(v))) = "milliseconds"
  <1> DEFINE a == Abs(v)
             w == ToMillis(v, Unit(v))
  <1> USE Bounds
  <1>1. /\ v \in Int /\ a \in Nat /\ a <= MaxInt
        /\ v < 0 => a = -v
        /\ ~(v < 0) => a = v
    BY DEF Int64, Abs
  <1> HIDE DEF a
  <1>2. ASSUME NEW x \in Int, Abs(x) < FromMicros, FromMillis <= Abs(x)
        PROVE  Unit(x) = "milliseconds"
    BY <1>2 DEF Unit, Abs
  <1>3. CASE Unit(v) = "milliseconds"
    BY <1>3 DEF ToMillis
  <1>4. CASE Unit(v) = "seconds"
    <2>1. FromSeconds <= a /\ a < FromMillis
      BY <1>1, <1>4 DEF Unit, a
    <2>2. w = v * Thousand
      BY <1>4 DEF ToMillis
    <2>3. FromSeconds * Thousand <= a * Thousand /\ a * Thousand < FromMillis * Thousand
      BY <1>1, <2>1, Z3
    <2>4. Abs(w) = a * Thousand /\ w \in Int
      <3> HIDE DEF w
      <3>1. v \in Int /\ Thousand \in Nat \ {0}
        BY <1>1
      <3>2. PICK p \in Int : p = v * Thousand
        BY ONLY <3>1, Z3
      <3>3. (-v) * Thousand = -p /\ (v < 0 => p < 0) /\ (~(v < 0) => ~(p < 0))
        BY ONLY <3>1, <3>2, Z3
      <3>4. v < 0 => a * Thousand = -p
        BY <1>1, <3>3
      <3>5. ~(v < 0) => a * Thousand = p
        BY <1>1, <3>2
      <3>6. w = p
        BY <2>2, <3>2
      <3>7. QED
        BY ONLY <3>2, <3>3, <3>4, <3>5, <3>6 DEF Abs
    <2> HIDE DEF w
    <2>5. FromMillis <= Abs(w) /\ Abs(w) < FromMicros
      <3>1. /\ FromMillis <= FromSeconds * Thousand /\ FromMicros = FromMillis * Thousand
            /\ FromMillis \in Int /\ FromMicros \in Int /\ a * Thousand \in Int
            /\ FromSeconds * Thousand \in Int
        <4>1. a \in Int /\ Thousand \in Int /\ FromSeconds \in Int
          BY <1>1
        <4>2. \A x, y \in Int : x * y \in Int
          BY Z3
        <4>3. QED
          BY <4>1, <4>2
      <3>2. QED
        BY ONLY <2>3, <2>4, <3>1
    <2>6. QED
      BY ONLY <1>2, <2>4, <2>5 DEF w
  <1>5. ASSUME NEW d \in Nat \ {0}, FromMillis * d <= a, a < FromMicros * d,
               w = Quotient(v, d)
        PROVE  Unit(w) = "milliseconds"
    <2>1. /\ a \div d \in Nat /\ FromMillis <= a \div d /\ a \div d < FromMicros
      BY <1>1, <1>5, Divided
    <2>2. w \in Int /\ Abs(w) = a \div d
      <3>1. w = IF v < 0 THEN -(a \div d) ELSE a \div d
        BY <1>1, <1>5 DEF Quotient
      <3>2. ASSUME NEW q \in Nat, FromMillis <= q, w = IF v < 0 THEN -q ELSE q
            PROVE  w \in Int /\ Abs(w) = q
        BY <3>2 DEF Abs
      <3>3. QED
        BY <2>1, <3>1, <3>2
    <2>3. QED
      BY <1>2, <2>1, <2>2
  <1>6. CASE Unit(v) = "microseconds"
    <2>1. FromMicros <= a /\ a < FromNanos
      BY <1>1, <1>6 DEF Unit, a
    <2>2. w = Quotient(v, Thousand)
      BY <1>6 DEF ToMillis
    <2>3. QED
      BY <1>5, <2>1, <2>2
  <1>7. CASE Unit(v) = "nanoseconds"
    <2>1. FromNanos <= a /\ a < FromNanos * Thousand
      BY <1>1, <1>7 DEF Unit, a
    <2>2. w = Quotient(v, Thousand * Thousand)
      BY <1>7 DEF ToMillis
    <2>3. /\ FromMillis * (Thousand * Thousand) = FromNanos
          /\ FromMicros * (Thousand * Thousand) = FromNanos * Thousand
      <3>1. FromMillis \in Int /\ FromMicros \in Int /\ Thousand \in Int
            /\ FromMicros = FromMillis * Thousand /\ FromNanos = FromMicros * Thousand
        OBVIOUS
      <3>2. \A x, y \in Int : x * (y * y) = (x * y) * y
        BY Z3
      <3>3. QED
        BY ONLY <3>1, <3>2
    <2>4. QED
      BY <1>5, <2>1, <2>2, <2>3
  <1>8. Unit(v) \in {"milliseconds", "seconds", "microseconds", "nanoseconds"}
    BY DEF Unit
  <1>9. QED
    BY <1>3, <1>4, <1>6, <1>7, <1>8

\* A conversion to milliseconds keeps the order.
LEMMA ToMillisMonotonic ==
    ASSUME NEW v \in Int, NEW w \in Int, v <= w, NEW u
    PROVE  /\ ToMillis(v, u) \in Int /\ ToMillis(w, u) \in Int
           /\ ToMillis(v, u) <= ToMillis(w, u)
  <1>1. Thousand \in Nat \ {0} /\ Thousand * Thousand \in Nat \ {0}
    BY Bounds
  <1>2. ASSUME NEW d \in Nat \ {0}
        PROVE  /\ Quotient(v, d) \in Int /\ Quotient(w, d) \in Int
               /\ Quotient(v, d) <= Quotient(w, d)
    <2>1. CASE v < 0 /\ w < 0
      <3>1. -w \in Nat /\ -v \in Nat /\ -w <= -v
        BY <2>1
      <3>2. /\ (-w) \div d \in Nat /\ (-v) \div d \in Nat
            /\ (-w) \div d <= (-v) \div d
        BY <3>1, DividedMonotonic
      <3>3. Quotient(v, d) = -((-v) \div d) /\ Quotient(w, d) = -((-w) \div d)
        BY <2>1 DEF Quotient
      <3>4. QED
        BY <3>2, <3>3
    <2>2. CASE v < 0 /\ ~(w < 0)
      <3>1. -v \in Nat /\ w \in Nat /\ -v <= -v /\ w <= w
        BY <2>2
      <3>2. (-v) \div d \in Nat /\ w \div d \in Nat
        BY <3>1, DividedMonotonic
      <3>3. Quotient(v, d) = -((-v) \div d) /\ Quotient(w, d) = w \div d
        BY <2>2 DEF Quotient
      <3>4. QED
        BY <3>2, <3>3
    <2>3. CASE ~(v < 0)
      <3>1. v \in Nat /\ w \in Nat
        BY <2>3
      <3>2. v \div d \in Nat /\ w \div d \in Nat /\ v \div d <= w \div d
        BY <3>1, DividedMonotonic
      <3>3. Quotient(v, d) = v \div d /\ Quotient(w, d) = w \div d
        BY <2>3, <3>1 DEF Quotient
      <3>4. QED
        BY <3>2, <3>3
    <2>4. QED
      BY <2>1, <2>2, <2>3
  <1>3. CASE u = "seconds"
    <2>1. ToMillis(v, u) = v * Thousand /\ ToMillis(w, u) = w * Thousand
      BY <1>3 DEF ToMillis
    <2>2. v * Thousand \in Int /\ w * Thousand \in Int /\ v * Thousand <= w * Thousand
      BY <1>1, Z3
    <2>3. QED
      BY <2>1, <2>2
  <1>4. CASE u = "microseconds"
    BY <1>1, <1>2, <1>4 DEF ToMillis
  <1>5. CASE u = "nanoseconds"
    BY <1>1, <1>2, <1>5 DEF ToMillis
  <1>6. CASE u \notin {"seconds", "microseconds", "nanoseconds"}
    BY <1>6 DEF ToMillis
  <1>7. QED
    BY <1>3, <1>4, <1>5, <1>6

\* The timestamps that decide the unit of a line are its own.
LEMMA MiddleIsOne ==
    ASSUME NEW ts \in Seq(Int), ts # <<>>
    PROVE  (Len(ts) \div 2) + 1 \in DOMAIN ts
  <1>1. Len(ts) \in Nat /\ Len(ts) # 0 /\ DOMAIN ts = 1..Len(ts)
    OBVIOUS
  <1>2. \A n \in Nat : n # 0 => (n \div 2) + 1 \in 1..n
    OBVIOUS
  <1>3. QED
    BY <1>1, <1>2

\* Normalizing keeps the number of timestamps and their order, and leaves
\* milliseconds as they are.
LEMMA NormalizeFacts ==
    ASSUME NEW ts \in Seq(Int)
    PROVE  /\ Normalize(ts) \in Seq(Int)
           /\ Len(Normalize(ts)) = Len(ts)
           /\ Ordered(ts) => Ordered(Normalize(ts))
           /\ AllMillis(ts) => Normalize(ts) = ts
  <1>1. CASE ts = <<>>
    BY <1>1 DEF Normalize
  <1>2. CASE ts # <<>>
    <2> DEFINE u == Unit(Middle(ts))
               out == [i \in DOMAIN ts |-> ToMillis(ts[i], u)]
    <2>1. Normalize(ts) = out
      BY <1>2 DEF Normalize
    <2>2. DOMAIN ts = 1..Len(ts) /\ Len(ts) \in Nat /\ \A i \in DOMAIN ts : ts[i] \in Int
      OBVIOUS
    <2> HIDE DEF u
    <2>3. \A i \in DOMAIN ts : ToMillis(ts[i], u) \in Int
      <3>1. \A i \in DOMAIN ts : ts[i] <= ts[i]
        BY <2>2
      <3>2. QED
        BY <2>2, <3>1, ToMillisMonotonic
    <2>4. out \in Seq(Int) /\ Len(out) = Len(ts)
      BY <2>2, <2>3
    <2>5. ASSUME Ordered(ts), NEW i \in DOMAIN ts, NEW j \in DOMAIN ts, i < j
          PROVE  out[i] <= out[j]
      <3>1. ts[i] <= ts[j] /\ ts[i] \in Int /\ ts[j] \in Int
        BY <2>2, <2>5 DEF Ordered
      <3>2. ToMillis(ts[i], u) <= ToMillis(ts[j], u)
        BY <3>1, ToMillisMonotonic
      <3>3. QED
        BY <3>2
    <2>6. ASSUME AllMillis(ts)
          PROVE  out = ts
      <3>1. u = "milliseconds"
        BY <1>2, <2>6, MiddleIsOne DEF AllMillis, Middle, u
      <3>2. \A i \in DOMAIN ts : out[i] = ts[i]
        BY <3>1 DEF ToMillis
      <3>3. out \in Seq(Int) /\ Len(out) = Len(ts) /\ DOMAIN out = DOMAIN ts
        BY <2>2, <2>4
      <3> HIDE DEF out
      <3>4. QED
        BY ONLY <2>2, <3>2, <3>3, ts \in Seq(Int), SeqEqual
    <2>7. Ordered(ts) => Ordered(out)
      BY <2>5 DEF Ordered
    <2>8. QED
      BY <2>1, <2>4, <2>6, <2>7
  <1>3. QED
    BY <1>1, <1>2

\* Timestamps of one unit are milliseconds when they are normalized.
LEMMA NormalizeMakesMillis ==
    ASSUME NEW ts \in Seq(Int64),
           \A i, j \in DOMAIN ts : Unit(ts[i]) = Unit(ts[j])
    PROVE  AllMillis(Normalize(ts))
  <1>1. CASE ts = <<>>
    BY <1>1 DEF Normalize, AllMillis
  <1>2. CASE ts # <<>>
    <2>1. ts \in Seq(Int) /\ \A i \in DOMAIN ts : ts[i] \in Int64
      <3>1. Int64 \subseteq Int
        BY DEF Int64
      <3>2. ts \in Seq(Int)
        BY <3>1, SeqMonotonic
      <3>3. QED
        BY <3>2
    <2>2. (Len(ts) \div 2) + 1 \in DOMAIN ts
      BY <1>2, <2>1, MiddleIsOne
    <2>3. \A i \in DOMAIN ts : Unit(ts[i]) = Unit(Middle(ts))
      BY <2>2 DEF Middle
    <2>4. Normalize(ts) = [i \in DOMAIN ts |-> ToMillis(ts[i], Unit(Middle(ts)))]
      BY <1>2 DEF Normalize
    <2>5. \A i \in DOMAIN ts : Normalize(ts)[i] = ToMillis(ts[i], Unit(ts[i]))
      BY <2>3, <2>4
    <2>6. QED
      BY <2>1, <2>4, <2>5, MillisFromUnit DEF AllMillis
  <1>3. QED
    BY <1>1, <1>2

----------------------------------------------------------------------------
(* What is made of a line.                                                 *)

\* A shift moves every point by as much.
LEMMA ShiftFacts ==
    ASSUME NEW ts \in Seq(Int), NEW d \in Int
    PROVE  /\ Shift(ts, d) \in Seq(Int)
           /\ Len(Shift(ts, d)) = Len(ts)
           /\ \A i \in DOMAIN ts : Shift(ts, d)[i] = ts[i] + d
           /\ Ordered(ts) => Ordered(Shift(ts, d))
  <1> DEFINE out == [i \in DOMAIN ts |-> ts[i] + d]
  <1>1. DOMAIN ts = 1..Len(ts) /\ Len(ts) \in Nat /\ \A i \in DOMAIN ts : ts[i] \in Int
    OBVIOUS
  <1>2. \A i \in DOMAIN ts : ts[i] + d \in Int
    BY <1>1
  <1>3. out \in Seq(Int) /\ Len(out) = Len(ts) /\ DOMAIN out = DOMAIN ts
    BY <1>1, <1>2
  <1>4. \A i \in DOMAIN ts : out[i] = ts[i] + d
    OBVIOUS
  <1>5. Shift(ts, d) = out
    BY DEF Shift
  <1> HIDE DEF out
  <1>6. Ordered(ts) => Ordered(out)
    BY <1>1, <1>3, <1>4 DEF Ordered
  <1>7. QED
    BY <1>3, <1>4, <1>5, <1>6

\* A set of positions is finite.
LEMMA Positions ==
    ASSUME NEW n \in Nat, NEW T, T \subseteq 1..n
    PROVE  IsFiniteSet(T) /\ Cardinality(T) \in Nat /\ Cardinality(T) <= n
  <1>1. IsFiniteSet(1..n)
    BY FS_Interval
  <1>2. Cardinality(1..n) = IF 1 > n THEN 0 ELSE n - 1 + 1
    BY FS_Interval
  <1>3. Cardinality(1..n) = n
    BY <1>2
  <1>4. IsFiniteSet(T) /\ Cardinality(T) <= Cardinality(1..n)
    BY <1>1, FS_Subset
  <1>5. Cardinality(T) \in Nat
    BY <1>4, FS_CardinalityType
  <1>6. QED
    BY <1>3, <1>4, <1>5

\* What the filter keeps are positions of the line: those not before the
\* cutoff, and no more with a later one.
LEMMA KeptFacts ==
    ASSUME NEW line, NEW ts \in Seq(Int), NEW cutoff \in Int
    PROVE  /\ Kept(line, ts, cutoff) \subseteq DOMAIN ts
           /\ cutoff > 0 => \A i \in Kept(line, ts, cutoff) : ts[i] >= cutoff
           /\ \A earlier \in Int :
                earlier <= cutoff => Kept(line, ts, cutoff) \subseteq Kept(line, ts, earlier)
           /\ IsFiniteSet(Kept(line, ts, cutoff))
           /\ Len(ts) - Cardinality(Kept(line, ts, cutoff)) \in Nat
  <1> DEFINE kept == Kept(line, ts, cutoff)
  <1>1. DOMAIN ts = 1..Len(ts) /\ Len(ts) \in Nat /\ \A i \in DOMAIN ts : ts[i] \in Int
    OBVIOUS
  <1>2. kept \subseteq DOMAIN ts /\ (cutoff > 0 => \A i \in kept : ts[i] >= cutoff)
    BY <1>1 DEF Kept
  <1>3. ASSUME NEW earlier \in Int, earlier <= cutoff
        PROVE  kept \subseteq Kept(line, ts, earlier)
    BY <1>1, <1>3 DEF Kept
  <1> HIDE DEF kept
  <1>5. IsFiniteSet(kept) /\ Cardinality(kept) <= Len(ts) /\ Cardinality(kept) \in Nat
    BY <1>1, <1>2, Positions
  <1>6. Len(ts) - Cardinality(kept) \in Nat
    BY <1>1, <1>5
  <1>7. QED
    BY <1>2, <1>3, <1>5, <1>6 DEF kept

\* What is sent of a line, but for the shift.
Trimmed(line, ts, cutoff) == Normalize(At(ts, Kept(line, ts, cutoff)))

\* The points to send, if any: the trimmed ones, in their order.
LEMMA SentFrom ==
    ASSUME NEW line, NEW ts \in Seq(Int), NEW c, c.shift \in Int, NEW cutoff \in Int,
           NEW o, o = LineFrom(line, ts, c, cutoff)
    PROVE  /\ o.ts = <<>> \/ o.ts = Shift(Trimmed(line, ts, cutoff), c.shift)
           /\ o.ts \in Seq(Int)
           /\ Ordered(ts) => Ordered(o.ts)
           /\ Trimmed(line, ts, cutoff) \in Seq(Int)
  <1> DEFINE kept == Kept(line, ts, cutoff)
             at == At(ts, kept)
             sent == Shift(Trimmed(line, ts, cutoff), c.shift)
  <1>1. o.ts = <<>> \/ o.ts = sent
    BY DEF LineFrom, Skip, Trimmed
  <1>2. at \in Seq(Int) /\ (Ordered(ts) => Ordered(at))
    BY AtFacts DEF Picked
  <1>3. /\ Normalize(at) \in Seq(Int)
        /\ Ordered(at) => Ordered(Normalize(at))
    BY <1>2, NormalizeFacts
  <1>4. Trimmed(line, ts, cutoff) = Normalize(at)
    BY DEF Trimmed
  <1> HIDE DEF at
  <1>5. sent \in Seq(Int) /\ (Ordered(ts) => Ordered(sent))
    BY <1>2, <1>3, <1>4, ShiftFacts
  <1>6. <<>> \in Seq(Int) /\ Ordered(<<>>)
    BY DEF Ordered
  <1> HIDE DEF sent
  <1>7. QED
    BY <1>1, <1>3, <1>4, <1>5, <1>6 DEF sent

\* Labels that remain are labels.
LEMMA RemainingTyped ==
    ASSUME NEW labels \in LabelMap, NEW drop
    PROVE  Remaining(labels, drop) \in LabelMap
  <1>1. CASE labels = NoLabels
    BY <1>1 DEF Remaining
  <1>2. CASE labels # NoLabels
    <2>1. PICK N \in SUBSET Label : labels \in [N -> LabelValue]
      BY <1>2 DEF LabelMap
    <2> DEFINE M == N \ Dropped(drop)
    <2>2. Remaining(labels, drop) = [name \in M |-> labels[name]]
      BY <1>2, <2>1 DEF Remaining, Restrict
    <2>3. M \in SUBSET Label /\ \A name \in M : labels[name] \in LabelValue
      BY <2>1
    <2> HIDE DEF M
    <2>4. Remaining(labels, drop) \in [M -> LabelValue]
      BY <2>2, <2>3
    <2>5. QED
      BY <2>3, <2>4 DEF LabelMap
  <1>3. QED
    BY <1>1, <1>2

\* An outcome is one.
LEMMA LineTyped ==
    ASSUME NEW line \in Line, NEW ts \in Seq(Int), NEW c \in Config, NEW cutoff \in Int
    PROVE  LineFrom(line, ts, c, cutoff) \in Outcome
  <1> DEFINE o == LineFrom(line, ts, c, cutoff)
             d == Len(ts) - Cardinality(Kept(line, ts, cutoff))
             labels == Remaining(line.labels, c.drop)
  <1>1. c.shift \in Int
    <2>1. Int64 \subseteq Int
      BY DEF Int64
    <2>2. QED
      BY <2>1 DEF Config
  <1>2. o.ts \in Seq(Int)
    BY <1>1, SentFrom
  <1>3. labels \in LabelMap
    <2>1. line.labels \in LabelMap
      BY DEF Line
    <2>2. QED
      BY <2>1, RemainingTyped
  <1>4. d \in Nat
    BY KeptFacts
  <1>5. \E n \in {0, d}, s \in {<<>>, o.ts} : o = [dropped |-> n, ts |-> s, labels |-> labels]
    BY DEF LineFrom, Skip
  <1> HIDE DEF o, d, labels
  <1>6. <<>> \in Seq(Int)
    OBVIOUS
  <1>7. o \in Outcome
    BY <1>2, <1>3, <1>4, <1>5, <1>6 DEF Outcome
  <1>8. QED
    BY <1>7 DEF o

\* What is sent of a line of one unit is in milliseconds, and not older than
\* the cutoff, before the shift.
Clean(ts, shift, cutoff) ==
    \A i \in DOMAIN ts : /\ Unit(ts[i] - shift) = "milliseconds"
                         /\ cutoff > 0 => ts[i] - shift >= cutoff

\* A line of the bundle has integers for timestamps, and its settings an
\* integer for the shift.
LEMMA LineTimes ==
    /\ Int64 \subseteq Int
    /\ \A line \in Line : line.ts \in Seq(Int64) /\ line.ts \in Seq(Int)
    /\ \A c \in Config : c.shift \in Int
  <1>1. Int64 \subseteq Int
    BY DEF Int64
  <1>2. ASSUME NEW line \in Line
        PROVE  line.ts \in Seq(Int64) /\ line.ts \in Seq(Int)
    <2>1. line.ts \in Seq(Int64)
      BY DEF Line
    <2>2. QED
      BY <1>1, <2>1, SeqMonotonic
  <1>3. \A c \in Config : c.shift \in Int
    BY <1>1 DEF Config
  <1>4. QED
    BY <1>1, <1>2, <1>3

\* A line in the import.
LEMMA ImportLineFacts ==
    ASSUME NEW line \in Line, NEW c \in Config, NEW cutoff \in Int,
           NEW o, o = ImportLine(line, c, cutoff)
    PROVE  /\ o \in Outcome
           /\ o.ts \in Seq(Int)
           /\ Ordered(line.ts) => Ordered(o.ts)
           /\ OneUnit(line) => Clean(o.ts, c.shift, cutoff)
  <1> DEFINE ts == Normalize(line.ts)
             kept == Kept(line, ts, cutoff)
             at == At(ts, kept)
  <1>1. line.ts \in Seq(Int64) /\ line.ts \in Seq(Int) /\ c.shift \in Int
    BY LineTimes
  <1>2. ts \in Seq(Int) /\ (Ordered(line.ts) => Ordered(ts))
    BY <1>1, NormalizeFacts
  <1>3. o = LineFrom(line, ts, c, cutoff)
    BY DEF ImportLine
  <1> HIDE DEF ts
  <1>4. /\ o.ts = <<>> \/ o.ts = Shift(Trimmed(line, ts, cutoff), c.shift)
        /\ o.ts \in Seq(Int)
        /\ Ordered(ts) => Ordered(o.ts)
    BY <1>1, <1>2, <1>3, SentFrom
  <1>5. o \in Outcome
    BY <1>2, <1>3, LineTyped
  <1>6. ASSUME OneUnit(line)
        PROVE  Clean(o.ts, c.shift, cutoff)
    <2>1. AllMillis(ts)
      BY <1>1, <1>6, NormalizeMakesMillis DEF OneUnit, ts
    <2>2. Picked(at, Len(ts), ts, kept)
      BY <1>2, AtFacts
    <2>3. cutoff > 0 => \A i \in kept : ts[i] >= cutoff
      BY <1>2, KeptFacts
    <2> HIDE DEF kept, at
    <2>4. DOMAIN ts = 1..Len(ts) /\ at \in Seq(Int)
      BY <1>2, <2>2 DEF Picked
    <2>5. \A k \in DOMAIN at : /\ Unit(at[k]) = "milliseconds"
                               /\ cutoff > 0 => at[k] >= cutoff
      BY <2>1, <2>2, <2>3, <2>4 DEF Picked, AllMillis
    <2>6. Normalize(at) = at
      BY <2>4, <2>5, NormalizeFacts DEF AllMillis
    <2>7. Trimmed(line, ts, cutoff) = at
      BY <2>6 DEF Trimmed, at, kept
    <2>8. CASE o.ts = <<>>
      BY <2>8 DEF Clean
    <2>9. CASE o.ts = Shift(at, c.shift)
      <3>1. /\ Len(o.ts) = Len(at) /\ o.ts \in Seq(Int)
            /\ \A i \in DOMAIN at : o.ts[i] = at[i] + c.shift
        BY <1>1, <2>4, <2>9, ShiftFacts
      <3>2. DOMAIN o.ts = DOMAIN at /\ \A i \in DOMAIN at : at[i] \in Int
        BY <2>4, <3>1
      <3>3. \A i \in DOMAIN at : o.ts[i] - c.shift = at[i]
        BY <1>1, <3>1, <3>2
      <3>4. QED
        BY <2>5, <3>2, <3>3 DEF Clean
    <2>10. QED
      BY <1>4, <2>7, <2>8, <2>9
  <1>7. QED
    BY <1>2, <1>4, <1>5, <1>6

\* A line in the preflight.
LEMMA AnalyzeLineTyped ==
    ASSUME NEW line \in Line, NEW c \in Config, NEW cutoff \in Int
    PROVE  AnalyzeLine(line, c, cutoff) \in Outcome
  <1> DEFINE o == LineFrom(line, line.ts, c, cutoff)
  <1>1. o \in Outcome
    BY LineTimes, LineTyped
  <1>2. Skip(o.dropped, o.labels) \in Outcome
    <2> HIDE DEF o
    <2>1. o.dropped \in Nat /\ o.labels \in LabelMap
      BY <1>1 DEF Outcome
    <2>2. <<>> \in Seq(Int)
      OBVIOUS
    <2>3. QED
      BY <2>1, <2>2 DEF Skip, Outcome
  <1>3. QED
    BY <1>1, <1>2 DEF AnalyzeLine

\* The number of points sent is that of those kept.
LEMMA SentCount ==
    ASSUME NEW line, NEW ts \in Seq(Int), NEW shift \in Int, NEW cutoff \in Int
    PROVE  Len(Shift(Trimmed(line, ts, cutoff), shift)) = Len(At(ts, Kept(line, ts, cutoff)))
  <1> DEFINE at == At(ts, Kept(line, ts, cutoff))
  <1>1. at \in Seq(Int)
    BY AtFacts DEF Picked
  <1>2. Trimmed(line, ts, cutoff) = Normalize(at)
    BY DEF Trimmed
  <1> HIDE DEF at
  <1>3. Normalize(at) \in Seq(Int) /\ Len(Normalize(at)) = Len(at)
    BY <1>1, NormalizeFacts
  <1>4. Len(Shift(Normalize(at), shift)) = Len(at)
    BY <1>3, ShiftFacts
  <1>5. QED
    BY <1>2, <1>4 DEF at

\* Of a line's timestamps as read or as normalized: where no fewer are kept,
\* no more are dropped, and no fewer sent if all of the values encode.
LEMMA KeepingLess ==
    ASSUME NEW line \in Line, NEW ts \in Seq(Int), NEW us \in Seq(Int), Len(us) = Len(ts),
           NEW c \in Config, NEW a \in Int, NEW b \in Int,
           Kept(line, ts, a) \subseteq Kept(line, us, b)
    PROVE  /\ LineFrom(line, us, c, b).dropped <= LineFrom(line, ts, c, a).dropped
           /\ Encodes(line, DOMAIN line.values) =>
                Len(LineFrom(line, ts, c, a).ts) <= Len(LineFrom(line, us, c, b).ts)
  <1> DEFINE less == LineFrom(line, ts, c, a)
             more == LineFrom(line, us, c, b)
             K == Kept(line, ts, a)
             L == Kept(line, us, b)
  <1>1. c.shift \in Int
    BY LineTimes
  <1>2. less.ts \in Seq(Int) /\ more.ts \in Seq(Int)
    BY <1>1, SentFrom
  <1>3. more.dropped <= less.dropped
    <2>1. /\ less.dropped = IF ~line.json \/ ~Numbers(line) THEN 0 ELSE Len(ts) - Cardinality(K)
          /\ more.dropped = IF ~line.json \/ ~Numbers(line) THEN 0 ELSE Len(us) - Cardinality(L)
      BY DEF LineFrom, Skip
    <2>2. IsFiniteSet(K) /\ IsFiniteSet(L) /\ K \subseteq L
      BY KeptFacts
    <2> HIDE DEF K, L, less, more
    <2>3. Cardinality(K) \in Nat /\ Cardinality(L) \in Nat /\ Cardinality(K) <= Cardinality(L)
      BY <2>2, FS_Subset, FS_CardinalityType
    <2>4. Len(ts) \in Nat
      OBVIOUS
    <2>5. QED
      BY <2>1, <2>3, <2>4
  <1>4. ASSUME Encodes(line, DOMAIN line.values)
        PROVE  Len(less.ts) <= Len(more.ts)
    <2>1. CASE less.ts = <<>>
      <3>1. Len(less.ts) = 0 /\ Len(more.ts) \in Nat
        BY <1>2, <2>1
      <3>2. QED
        BY <3>1
    <2>2. CASE less.ts # <<>>
      <3>1. /\ line.json /\ Numbers(line) /\ K # {} /\ Len(ts) = Len(line.values)
            /\ less.ts = Shift(Trimmed(line, ts, a), c.shift)
        BY <2>2 DEF LineFrom, Skip, Trimmed
      <3>2. Encodes(line, L) /\ L # {}
        BY <1>4, <3>1 DEF Encodes
      <3>3. more.ts = Shift(Trimmed(line, us, b), c.shift)
        BY <3>1, <3>2 DEF LineFrom, Trimmed
      <3>4. Len(less.ts) = Len(At(ts, K)) /\ Len(more.ts) = Len(At(us, L))
        BY <1>1, <3>1, <3>3, SentCount
      <3>5. Len(At(ts, K)) <= Len(At(us, L))
        BY AtShorter
      <3>6. QED
        BY <3>4, <3>5
    <2>3. QED
      BY <2>1, <2>2
  <1>5. QED
    BY <1>3, <1>4

\* Where the same are kept, the same are dropped and as many sent.
LEMMA KeepingSame ==
    ASSUME NEW line \in Line, NEW ts \in Seq(Int), NEW us \in Seq(Int), Len(us) = Len(ts),
           NEW c \in Config, NEW cutoff \in Int,
           Kept(line, ts, cutoff) = Kept(line, us, cutoff)
    PROVE  /\ LineFrom(line, us, c, cutoff).dropped = LineFrom(line, ts, c, cutoff).dropped
           /\ Len(LineFrom(line, us, c, cutoff).ts) = Len(LineFrom(line, ts, c, cutoff).ts)
  <1> DEFINE one == LineFrom(line, ts, c, cutoff)
             two == LineFrom(line, us, c, cutoff)
             K == Kept(line, ts, cutoff)
             skips == \/ ~line.json \/ ~Numbers(line)
                      \/ K = {} \/ Len(ts) # Len(line.values) \/ ~Encodes(line, K)
  <1>1. c.shift \in Int
    BY LineTimes
  <1>2. one.dropped = two.dropped
    BY DEF LineFrom, Skip
  <1>3. CASE skips
    <2>1. one.ts = <<>> /\ two.ts = <<>>
      BY <1>3 DEF LineFrom, Skip
    <2>2. QED
      BY <1>2, <2>1
  <1>4. CASE ~skips
    <2>1. /\ one.ts = Shift(Trimmed(line, ts, cutoff), c.shift)
          /\ two.ts = Shift(Trimmed(line, us, cutoff), c.shift)
      BY <1>4 DEF LineFrom, Trimmed
    <2>2. Len(one.ts) = Len(At(ts, K)) /\ Len(two.ts) = Len(At(us, K))
      BY <1>1, <2>1, SentCount
    <2>3. Len(At(ts, K)) <= Len(At(us, K)) /\ Len(At(us, K)) <= Len(At(ts, K))
      BY AtShorter
    <2>4. At(ts, K) \in Seq(Int) /\ At(us, K) \in Seq(Int)
      BY AtFacts DEF Picked
    <2>5. Len(At(ts, K)) \in Nat /\ Len(At(us, K)) \in Nat
      BY <2>4
    <2>6. Len(one.ts) = Len(two.ts)
      BY ONLY <2>2, <2>3, <2>5
    <2>7. QED
      BY <1>2, <2>6
  <1>5. QED
    BY <1>3, <1>4

\* A time in seconds does not get smaller when it is converted; one in a
\* smaller unit than milliseconds does not get larger, if it is after 1970.
LEMMA Converted ==
    ASSUME NEW v \in Int, NEW unit, NEW cutoff \in Int, cutoff > 0
    PROVE  /\ unit \in {"seconds", "milliseconds"} /\ v >= cutoff =>
                ToMillis(v, unit) >= cutoff
           /\ unit \in {"milliseconds", "microseconds", "nanoseconds"}
              /\ ToMillis(v, unit) >= cutoff => v >= cutoff
  <1>1. ASSUME NEW d \in Nat \ {0}, Quotient(v, d) >= cutoff
        PROVE  v >= cutoff
    <2>1. CASE v < 0
      <3>1. PICK w \in Nat : w = -v
        BY <2>1
      <3>2. w \div d \in Nat
        BY DividedMonotonic
      <3>3. QED
        BY <1>1, <2>1, <3>1, <3>2 DEF Quotient
    <2>2. CASE v >= 0
      <3>1. PICK w \in Nat : w = v
        BY <2>2
      <3>2. w < (w + 1) * d /\ 0 * d <= w
        BY Z3
      <3>3. w \div d < w + 1 /\ w \div d \in Nat
        BY <3>2, Divided
      <3>4. Quotient(v, d) = w \div d
        BY <2>2, <3>1 DEF Quotient
      <3>5. QED
        BY ONLY <1>1, <3>1, <3>3, <3>4, cutoff \in Int
    <2>3. QED
      BY <2>1, <2>2
  <1>2. v >= cutoff => v * Thousand >= cutoff
    <2>1. Thousand \in Nat \ {0}
      BY Bounds
    <2>2. v >= 0 => v * Thousand >= v /\ v * Thousand \in Int
      BY <2>1, Z3
    <2>3. QED
      BY <2>2
  <1>3. Thousand \in Nat \ {0} /\ Thousand * Thousand \in Nat \ {0}
    BY Bounds
  <1>4. QED
    BY <1>1, <1>2, <1>3 DEF ToMillis

\* The unit of a line is guessed to be one of these.
Guessed(line, units) == line.ts # <<>> => Unit(Middle(line.ts)) \in units

\* What is kept of a line as it was read, and as it was normalized.
LEMMA KeptOfBoth ==
    ASSUME NEW line \in Line, NEW cutoff \in Int,
           NEW read, read = Kept(line, line.ts, cutoff),
           NEW normalized, normalized = Kept(line, Normalize(line.ts), cutoff)
    PROVE  /\ cutoff <= 0 \/ Guessed(line, {"milliseconds"}) => read = normalized
           /\ Guessed(line, {"seconds", "milliseconds"}) => read \subseteq normalized
           /\ Guessed(line, {"milliseconds", "microseconds", "nanoseconds"}) =>
                normalized \subseteq read
  <1> DEFINE ts == line.ts
             us == Normalize(line.ts)
             unit == Unit(Middle(ts))
  <1>1. ts \in Seq(Int)
    BY LineTimes
  <1>2. us \in Seq(Int) /\ Len(us) = Len(ts)
    BY <1>1, NormalizeFacts
  <1>3. DOMAIN ts = DOMAIN us /\ \A i \in DOMAIN ts : ts[i] \in Int
    BY <1>1, <1>2
  <1>4. CASE cutoff <= 0
    BY <1>3, <1>4 DEF Kept
  <1>5. CASE Len(ts) # Len(line.values) \/ ts = <<>>
    <2>1. ts = <<>> => us = <<>>
      BY DEF Normalize
    <2>2. QED
      BY <1>2, <1>3, <1>5, <2>1 DEF Kept
  <1>6. CASE cutoff > 0 /\ Len(ts) = Len(line.values) /\ ts # <<>>
    <2>1. /\ read = {i \in DOMAIN ts : ts[i] >= cutoff}
          /\ normalized = {i \in DOMAIN ts : us[i] >= cutoff}
      BY <1>2, <1>3, <1>6 DEF Kept
    <2>2. \A i \in DOMAIN ts : us[i] = ToMillis(ts[i], unit)
      BY <1>6 DEF Normalize
    <2> HIDE DEF ts, us, unit
    <2>3. unit \in {"seconds", "milliseconds"} => read \subseteq normalized
      BY <1>3, <1>6, <2>1, <2>2, Converted
    <2>4. unit \in {"milliseconds", "microseconds", "nanoseconds"} => normalized \subseteq read
      BY <1>3, <1>6, <2>1, <2>2, Converted
    <2>5. ~(cutoff <= 0)
      BY <1>6
    <2>6. \A units : Guessed(line, units) => unit \in units
      BY <1>6 DEF Guessed, ts, unit
    <2>7. QED
      BY <2>3, <2>4, <2>5, <2>6
  <1>7. QED
    BY <1>4, <1>5, <1>6

\* Nothing is kept of a line that was read in seconds.
LEMMA NothingOfSeconds ==
    ASSUME NEW line \in Line, AllIn(line, "seconds"), NEW cutoff \in Int, cutoff >= FromMillis,
           NEW c
    PROVE  LineFrom(line, line.ts, c, cutoff).ts = <<>>
  <1>1. line.ts \in Seq(Int) /\ FromMillis \in Nat \ {0} /\ cutoff > 0
    BY LineTimes, Bounds
  <1>2. ASSUME NEW i \in DOMAIN line.ts
        PROVE  line.ts[i] < cutoff
    <2>1. PICK v \in Int : v = line.ts[i]
      BY <1>1
    <2>2. Unit(v) = "seconds"
      BY <2>1 DEF AllIn
    <2>3. v < FromMillis
      BY <1>1, <2>2, Bounds DEF Unit, Abs
    <2>4. QED
      BY <1>1, <2>1, <2>3
  <1>3. \A i \in DOMAIN line.ts : line.ts[i] \in Int
    BY <1>1
  <1>4. Kept(line, line.ts, cutoff) = {}
    BY <1>1, <1>2, <1>3 DEF Kept
  <1>5. QED
    BY <1>4 DEF LineFrom, Skip

----------------------------------------------------------------------------
(* The sums.                                                               *)

\* f is a table of the sums of the first n numbers.
TotalUpTo(n, f, s) == f = [k \in 0..n |-> IF k = 0 THEN 0 ELSE f[k - 1] + s[k]]

\* The table, entry by entry.
TotalTable(f, s) ==
    /\ f \in [0..Len(s) -> Nat]
    /\ f[0] = 0
    /\ \A k \in 1..Len(s) : f[k] = f[k - 1] + s[k]

\* Total is the last entry of such a table.
LEMMA TotalSteps ==
    ASSUME NEW s \in Seq(Nat)
    PROVE  \E f : TotalTable(f, s) /\ Total(s) = f[Len(s)]
  <1> DEFINE n == Len(s)
             step == [x \in Nat \X (1..n) |-> x[1] + s[x[2]]]
  <1>1. n \in Nat /\ \A k \in 1..n : s[k] \in Nat
    OBVIOUS
  <1>2. step \in [Nat \X (1..n) -> Nat] /\ 0 \in Nat
    BY <1>1
  <1>3. \A x \in Nat, k \in 1..n : step[<<x, k>>] = x + s[k]
    OBVIOUS
  <1> HIDE DEF step
  <1>4. PICK g \in [0..n -> Nat] : Table(g, 0, step, n)
    BY <1>1, <1>2, Recursion
  <1>5. TotalUpTo(n, g, s)
    <2>1. \A k \in 0..n : k # 0 => k \in 1..n /\ k - 1 \in 0..n
      BY <1>1
    <2>2. \A k \in 0..n : g[k] = IF k = 0 THEN 0 ELSE g[k - 1] + s[k]
      BY <1>3, <1>4, <2>1 DEF Table
    <2>3. g = [k \in 0..n |-> g[k]]
      OBVIOUS
    <2>4. QED
      BY <2>2, <2>3 DEF TotalUpTo
  <1>6. Total(s) = (CHOOSE f : TotalUpTo(n, f, s))[n]
    BY DEF Total, TotalUpTo
  <1>7. PICK f : TotalUpTo(n, f, s) /\ Total(s) = f[n]
    BY <1>5, <1>6
  <1>8. \A k \in 0..n : f[k] = IF k = 0 THEN 0 ELSE f[k - 1] + s[k]
    BY <1>7 DEF TotalUpTo
  <1> DEFINE G == {k \in 0..n : f[k] \in Nat}
  <1>9. 0 \in G
    BY <1>1, <1>8
  <1>10. ASSUME NEW k \in 1..n, k - 1 \in G
         PROVE  k \in G
    BY <1>1, <1>8, <1>10, SMTT(30)
  <1>11. \A k \in 0..n : k \in G
    <2> HIDE DEF G
    <2>1. QED
      BY <1>1, <1>9, <1>10, Upward
  <1>12. f \in [0..n -> Nat]
    <2>1. f = [k \in 0..n |-> f[k]]
      BY <1>7 DEF TotalUpTo
    <2>2. QED
      BY <1>11, <2>1
  <1>13. TotalTable(f, s)
    <2>1. f[0] = 0
      BY <1>1, <1>8
    <2>2. \A k \in 1..n : k # 0 /\ k \in 0..n
      BY <1>1
    <2>3. QED
      BY <1>8, <1>12, <2>1, <2>2 DEF TotalTable
  <1>14. QED
    BY <1>7, <1>13

\* Numbers that are no larger, one by one, have no larger sum.
LEMMA TotalMonotonic ==
    ASSUME NEW s \in Seq(Nat), NEW t \in Seq(Nat), Len(s) = Len(t),
           \A i \in 1..Len(s) : s[i] <= t[i]
    PROVE  Total(s) \in Nat /\ Total(t) \in Nat /\ Total(s) <= Total(t)
  <1> DEFINE n == Len(s)
  <1>1. n \in Nat /\ \A i \in 1..n : s[i] \in Nat /\ t[i] \in Nat
    OBVIOUS
  <1>2. PICK f : TotalTable(f, s) /\ Total(s) = f[n]
    BY TotalSteps
  <1>3. PICK g : TotalTable(g, t) /\ Total(t) = g[n]
    BY TotalSteps
  <1>4. f \in [0..n -> Nat] /\ g \in [0..n -> Nat] /\ f[0] = 0 /\ g[0] = 0
    BY <1>2, <1>3 DEF TotalTable
  <1>5. \A k \in 1..n : f[k] = f[k - 1] + s[k] /\ g[k] = g[k - 1] + t[k]
    BY <1>2, <1>3 DEF TotalTable
  <1> DEFINE G == {k \in 0..n : f[k] <= g[k]}
  <1>6. 0 \in G
    BY <1>1, <1>4
  <1>7. ASSUME NEW k \in 1..n, k - 1 \in G
        PROVE  k \in G
    <2>1. k \in 0..n /\ k - 1 \in 0..n
      BY <1>1
    <2>2. f[k - 1] \in Nat /\ g[k - 1] \in Nat
      BY <1>4, <2>1
    <2>3. f[k - 1] <= g[k - 1]
      BY <1>7
    <2>4. f[k] = f[k - 1] + s[k] /\ g[k] = g[k - 1] + t[k] /\ s[k] \in Nat /\ t[k] \in Nat
          /\ s[k] <= t[k]
      BY <1>1, <1>5
    <2> PICK x, y, u, v : x = f[k - 1] /\ y = g[k - 1] /\ u = s[k] /\ v = t[k]
      OBVIOUS
    <2>5. f[k] <= g[k]
      <3>1. {x, y, u, v} \subseteq Nat /\ x <= y /\ u <= v
        BY <2>2, <2>3, <2>4
      <3>2. f[k] = x + u /\ g[k] = y + v
        BY <2>4
      <3>3. QED
        BY ONLY <3>1, <3>2
    <2>6. QED
      BY <2>1, <2>5
  <1>8. \A k \in 0..n : k \in G
    <2> HIDE DEF G
    <2>1. QED
      BY <1>1, <1>6, <1>7, Upward
  <1>9. f[n] \in Nat /\ g[n] \in Nat /\ f[n] <= g[n]
    BY <1>1, <1>4, <1>8
  <1>10. QED
    BY <1>2, <1>3, <1>9

\* A sum of numbers is one.
LEMMA TotalTyped == ASSUME NEW s \in Seq(Nat) PROVE Total(s) \in Nat
  <1>1. \A i \in 1..Len(s) : s[i] <= s[i]
    OBVIOUS
  <1>2. QED
    BY <1>1, TotalMonotonic

\* A sum of zeros is zero.
LEMMA TotalOfZeros ==
    ASSUME NEW s \in Seq(Nat), \A i \in 1..Len(s) : s[i] = 0
    PROVE  Total(s) = 0
  <1> DEFINE n == Len(s)
  <1>1. n \in Nat
    OBVIOUS
  <1>2. PICK f : TotalTable(f, s) /\ Total(s) = f[n]
    BY TotalSteps
  <1> DEFINE G == {k \in 0..n : f[k] = 0}
  <1>3. 0 \in G
    BY <1>1, <1>2 DEF TotalTable
  <1>4. ASSUME NEW k \in 1..n, k - 1 \in G
        PROVE  k \in G
    <2>1. f[k] = f[k - 1] + s[k] /\ f[k - 1] = 0 /\ s[k] = 0
      BY <1>2, <1>4 DEF TotalTable
    <2>2. k \in 0..n
      BY <1>1
    <2>3. QED
      BY <2>1, <2>2
  <1>5. \A k \in 0..n : k \in G
    <2> HIDE DEF G
    <2>1. QED
      BY <1>1, <1>3, <1>4, Upward
  <1>6. QED
    BY <1>1, <1>2, <1>5

\* f is a table of the durations of the first n numbers with units.
SumUpTo(n, f, parts) ==
    f = [k \in 0..n |-> IF k = 0 THEN 0
                        ELSE Wrapped(f[k - 1] + parts[k][1] * UnitLength[parts[k][2]])]

\* A duration is no less than zero.
LEMMA DurationTyped ==
    ASSUME NEW parts \in Seq(Nat \X STRING)
    PROVE  Duration(parts) \in Nat
  <1> DEFINE n == Len(parts)
             part(k) == parts[k][1] * UnitLength[parts[k][2]]
             step == [x \in Int \X (1..n) |-> Wrapped(x[1] + part(x[2]))]
  <1>1. CASE ~KnownUnits(parts)
    BY <1>1 DEF Duration
  <1>2. CASE KnownUnits(parts)
    <2>1. n \in Nat /\ DOMAIN parts = 1..n
      OBVIOUS
    <2>2. \A k \in 1..n : part(k) \in Int
      <3>1. ASSUME NEW k \in 1..n
            PROVE  part(k) \in Int
        <4>1. parts[k][1] \in Nat
          BY <2>1
        <4>2. UnitLength[parts[k][2]] \in Nat
          BY <1>2, <2>1, DurationAssumption DEF KnownUnits
        <4>3. \A x, y \in Nat : x * y \in Int
          BY Z3
        <4>4. QED
          BY <4>1, <4>2, <4>3
      <3>2. QED
        BY <3>1
    <2> HIDE DEF part
    <2>3. \A d \in Int : Wrapped(d) \in Int
      <3>1. MaxDuration \in Nat /\ 2 * MaxDuration \in Nat \ {0}
        BY DurationAssumption
      <3>2. QED
        BY <3>1 DEF Wrapped
    <2>4. step \in [Int \X (1..n) -> Int] /\ 0 \in Int
      BY <2>2, <2>3
    <2>5. \A x \in Int, k \in 1..n : step[<<x, k>>] = Wrapped(x + part(k))
      OBVIOUS
    <2> HIDE DEF step
    <2>6. PICK g \in [0..n -> Int] : Table(g, 0, step, n)
      BY <2>1, <2>4, Recursion
    <2>7. SumUpTo(n, g, parts)
      <3>1. \A k \in 0..n : k # 0 => k \in 1..n /\ k - 1 \in 0..n
        BY <2>1
      <3>2. \A k \in 0..n : g[k] = IF k = 0 THEN 0 ELSE Wrapped(g[k - 1] + part(k))
        BY <2>5, <2>6, <3>1 DEF Table
      <3>3. g = [k \in 0..n |-> g[k]]
        OBVIOUS
      <3>4. QED
        BY <3>2, <3>3 DEF SumUpTo, part
    <2>8. DurationSum(parts) = (CHOOSE f : SumUpTo(n, f, parts))[n]
      BY DEF DurationSum, SumUpTo
    <2>9. PICK f : SumUpTo(n, f, parts) /\ DurationSum(parts) = f[n]
      BY <2>7, <2>8
    <2>10. \A k \in 0..n : f[k] = IF k = 0 THEN 0 ELSE Wrapped(f[k - 1] + part(k))
      BY <2>9 DEF SumUpTo, part
    <2> DEFINE G == {k \in 0..n : f[k] \in Int}
    <2>11. 0 \in G
      BY <2>1, <2>10
    <2>12. ASSUME NEW k \in 1..n, k - 1 \in G
           PROVE  k \in G
      <3>1. f[k - 1] \in Int /\ k \in 0..n /\ k # 0
        BY <2>1, <2>12
      <3>2. f[k - 1] + part(k) \in Int
        BY <2>2, <3>1
      <3>3. f[k] = Wrapped(f[k - 1] + part(k))
        BY <2>10, <3>1
      <3>4. QED
        BY <2>3, <3>1, <3>2, <3>3
    <2>13. \A k \in 0..n : k \in G
      <3> HIDE DEF G
      <3>1. QED
        BY <2>1, <2>11, <2>12, Upward
    <2>14. DurationSum(parts) \in Int
      BY <2>1, <2>9, <2>13
    <2>15. QED
      BY <1>2, <2>14 DEF Duration
  <1>3. QED
    BY <1>1, <1>2

----------------------------------------------------------------------------
(* The range of the times.                                                 *)

\* The least and the greatest of finitely many times.
LEMMA Extremes ==
    ASSUME NEW times, IsFiniteSet(times), times \subseteq Int, times # {}
    PROVE  /\ Min(times) \in Int /\ \A t \in times : Min(times) <= t
           /\ Max(times) \in Int /\ \A t \in times : t <= Max(times)
  <1>1. PICK lo \in times : \A t \in times : lo <= t
    BY FiniteEnds
  <1>2. PICK hi \in times : \A t \in times : t <= hi
    BY FiniteEnds
  <1>3. Min(times) \in times /\ \A t \in times : Min(times) <= t
    BY <1>1 DEF Min
  <1>4. \A t \in times : hi >= t
    BY <1>2
  <1>5. Max(times) \in times /\ \A t \in times : Max(times) >= t
    BY <1>4 DEF Max
  <1>6. QED
    BY <1>3, <1>5

\* The range of times is two of them, if any.
LEMMA RangeFacts ==
    ASSUME NEW times, IsFiniteSet(times), times \subseteq Int
    PROVE  RangeOf(times) \in Seq(Int)
  <1>1. CASE times = {}
    BY <1>1 DEF RangeOf
  <1>2. CASE times # {}
    <2>1. Min(times) \in Int /\ Max(times) \in Int
      BY <1>2, Extremes
    <2>2. RangeOf(times) = <<Min(times), Max(times)>>
      BY <1>2 DEF RangeOf
    <2>3. QED
      BY <2>1, <2>2
  <1>3. QED
    BY <1>1, <1>2

\* The elements of a sequence are finitely many.
LEMMA RangeFinite ==
    ASSUME NEW S, NEW s \in Seq(S)
    PROVE  IsFiniteSet(Range(s)) /\ Range(s) \subseteq S
  <1>1. DOMAIN s = 1..Len(s) /\ Len(s) \in Nat
    OBVIOUS
  <1>2. IsFiniteSet(1..Len(s))
    BY <1>1, FS_Interval
  <1>3. s \in [1..Len(s) -> Range(s)] /\ \A t \in Range(s) : \E i \in 1..Len(s) : s[i] = t
    BY <1>1 DEF Range
  <1>4. s \in Surjection(1..Len(s), Range(s))
    BY <1>3 DEF Surjection
  <1>5. IsFiniteSet(Range(s))
    BY <1>2, <1>4, FS_Surjection
  <1>6. Range(s) \subseteq S
    BY <1>1 DEF Range
  <1>7. QED
    BY <1>5, <1>6

\* The times of some lines are finitely many integers.
LEMMA TimesFinite ==
    ASSUME NEW outcomes \in Seq(Outcome)
    PROVE  IsFiniteSet(Times(outcomes)) /\ Times(outcomes) \subseteq Int
  <1> DEFINE ranges == [i \in 1..Len(outcomes) |-> Range(outcomes[i].ts)]
  <1>1. DOMAIN outcomes = 1..Len(outcomes) /\ Len(outcomes) \in Nat
    OBVIOUS
  <1>2. \A i \in 1..Len(outcomes) : outcomes[i].ts \in Seq(Int)
    <2>1. \A o \in Outcome : o.ts \in Seq(Int)
      BY DEF Outcome
    <2>2. \A i \in 1..Len(outcomes) : outcomes[i] \in Outcome
      OBVIOUS
    <2>3. QED
      BY <2>1, <2>2
  <1>3. \A i \in 1..Len(outcomes) : /\ IsFiniteSet(Range(outcomes[i].ts))
                                    /\ Range(outcomes[i].ts) \subseteq Int
    BY <1>2, RangeFinite
  <1>4. /\ ranges \in Seq(SUBSET Int) /\ DOMAIN ranges = 1..Len(outcomes)
        /\ \A i \in 1..Len(outcomes) : ranges[i] = Range(outcomes[i].ts)
    <2>1. DOMAIN ranges = 1..Len(outcomes)
          /\ \A i \in 1..Len(outcomes) : ranges[i] = Range(outcomes[i].ts)
      OBVIOUS
    <2>2. ranges \in [1..Len(outcomes) -> SUBSET Int]
      BY <1>3
    <2> HIDE DEF ranges
    <2>3. ranges \in Seq(SUBSET Int)
      BY <1>1, <2>2
    <2>4. QED
      BY <2>1, <2>3
  <1>5. Times(outcomes) = UNION Range(ranges)
    BY <1>1, <1>4 DEF Times, Range
  <1> HIDE DEF ranges
  <1>6. IsFiniteSet(Range(ranges)) /\ Range(ranges) \subseteq SUBSET Int
    BY <1>4, RangeFinite
  <1>7. \A T \in Range(ranges) : IsFiniteSet(T)
    BY <1>3, <1>4 DEF Range
  <1>8. IsFiniteSet(UNION Range(ranges))
    BY <1>6, <1>7, FS_UNION
  <1>9. QED
    BY <1>5, <1>6, <1>8

----------------------------------------------------------------------------
(* The summaries of the bundle of a scenario.                              *)

\* What the scenario is made of.
LEMMA ScenarioTyped ==
    ASSUME scenario \in Scenario
    PROVE  /\ bundle.lines \in Seq(Line) /\ config \in Config
           /\ bundle.range # <<>> => bundle.range[1] \in Int /\ bundle.range[2] \in Int
           /\ target.tsdb \in Seq(Nat \X STRING) /\ target.flag \in Seq(Nat \X STRING)
           /\ target.limit \in Nat
           /\ MaxLabelsLimit \in Nat
  <1>1. bundle \in Bundle /\ config \in Config /\ target \in Target
    BY ScenarioAssumption DEF bundle, config, target
  <1>2. bundle.lines \in Seq(Line) /\ bundle.range \in {<<>>} \union (Int64 \X Int64)
    BY <1>1 DEF Bundle
  <1>3. bundle.range # <<>> => bundle.range[1] \in Int /\ bundle.range[2] \in Int
    BY <1>2, LineTimes
  <1>4. /\ target.tsdb \in Seq(Nat \X STRING) /\ target.flag \in Seq(Nat \X STRING)
        /\ target.limit \in Nat
    BY <1>1 DEF Target
  <1>5. config.override \in Int
    BY <1>1 DEF Config
  <1>6. MaxLabelsLimit \in Nat
    BY <1>4, <1>5 DEF MaxLabelsLimit
  <1>7. QED
    BY <1>1, <1>2, <1>3, <1>4, <1>6

\* The last times of the lines are times of the lines.
LastsOf(sent) == {Last(o.ts) : o \in {p \in Range(sent) : p.ts # <<>>}}

\* A line that has points has a first and a last one.
LEMMA EndsAreTimes ==
    ASSUME NEW sent \in Seq(Outcome), NEW n \in DOMAIN sent, sent[n].ts # <<>>
    PROVE  /\ Head(sent[n].ts) \in Times(sent) /\ Last(sent[n].ts) \in Times(sent)
           /\ Head(sent[n].ts) \in Int /\ Last(sent[n].ts) \in Int
           /\ Last(sent[n].ts) \in LastsOf(sent)
  <1> DEFINE ts == sent[n].ts
  <1>1. ts \in Seq(Int)
    <2>1. sent[n] \in Outcome
      OBVIOUS
    <2>2. QED
      BY <2>1 DEF Outcome
  <1>2. /\ Len(ts) \in Nat /\ Len(ts) # 0 /\ DOMAIN ts = 1..Len(ts)
    BY <1>1
  <1>3. 1 \in DOMAIN ts /\ Len(ts) \in DOMAIN ts
    BY <1>2
  <1>4. Head(ts) = ts[1] /\ Last(ts) = ts[Len(ts)]
    BY <1>1 DEF Last
  <1>5. Head(ts) \in Range(ts) /\ Last(ts) \in Range(ts)
    BY <1>3, <1>4 DEF Range
  <1>6. Head(ts) \in Int /\ Last(ts) \in Int
    BY <1>1, <1>3, <1>4
  <1>7. Last(ts) \in LastsOf(sent)
    BY DEF LastsOf, Range
  <1>8. QED
    BY <1>5, <1>6, <1>7 DEF Times

\* The times that may end the range of an import.
LEMMA LastTimeFacts ==
    ASSUME NEW sent \in Seq(Outcome)
    PROVE  /\ LastTime(sent) \in Int
           /\ \A n \in DOMAIN sent : sent[n].ts # <<>> => Last(sent[n].ts) <= LastTime(sent)
  <1> DEFINE lasts == {0} \union LastsOf(sent)
  <1>1. LastsOf(sent) \subseteq Times(sent)
    <2>1. ASSUME NEW e \in LastsOf(sent)
          PROVE  e \in Times(sent)
      <3>1. PICK o \in Range(sent) : o.ts # <<>> /\ e = Last(o.ts)
        BY <2>1 DEF LastsOf
      <3>2. PICK n \in DOMAIN sent : sent[n] = o
        BY <3>1 DEF Range
      <3>3. QED
        BY <3>1, <3>2, EndsAreTimes
    <2>2. QED
      BY <2>1
  <1>2. lasts \subseteq Int /\ IsFiniteSet(lasts) /\ lasts # {}
    <2>1. LastsOf(sent) \subseteq Int /\ IsFiniteSet(LastsOf(sent))
      BY <1>1, TimesFinite, FS_Subset
    <2>2. IsFiniteSet({0})
      BY FS_Singleton
    <2>3. IsFiniteSet(lasts)
      BY <2>1, <2>2, FS_Union, Zenon
    <2>4. lasts \subseteq Int /\ 0 \in lasts
      BY <2>1
    <2>5. QED
      BY <2>3, <2>4
  <1>3. LastTime(sent) = Max(lasts)
    BY DEF LastTime, LastsOf
  <1> HIDE DEF lasts
  <1>4. LastTime(sent) \in Int /\ \A t \in lasts : t <= LastTime(sent)
    BY <1>2, <1>3, Extremes
  <1>5. \A n \in DOMAIN sent : sent[n].ts # <<>> => Last(sent[n].ts) \in lasts
    BY EndsAreTimes DEF lasts
  <1>6. QED
    BY <1>4, <1>5

\* f is a table of what the loop over the lines has for the first time of
\* the first n lines.
FirstUpTo(n, f, s) ==
    f = [k \in 0..n |->
           IF k = 0 THEN 0
           ELSE IF s[k].ts # <<>> /\ (f[k - 1] = 0 \/ Head(s[k].ts) < f[k - 1])
                  THEN Head(s[k].ts)
           ELSE f[k - 1]]

\* The table, entry by entry.
FirstTable(f, s) ==
    /\ f \in [0..Len(s) -> Int]
    /\ f[0] = 0
    /\ \A k \in 1..Len(s) :
         f[k] = IF s[k].ts # <<>> /\ (f[k - 1] = 0 \/ Head(s[k].ts) < f[k - 1])
                  THEN Head(s[k].ts) ELSE f[k - 1]

\* FirstTime is the last entry of such a table.
LEMMA FirstSteps ==
    ASSUME NEW s \in Seq(Outcome)
    PROVE  \E f : FirstTable(f, s) /\ FirstTime(s) = f[Len(s)]
  <1> DEFINE n == Len(s)
             full(k) == s[k].ts # <<>>
             head(k) == Head(s[k].ts)
             step == [x \in Int \X (1..n) |->
                        IF full(x[2]) /\ (x[1] = 0 \/ head(x[2]) < x[1]) THEN head(x[2]) ELSE x[1]]
  <1>1. n \in Nat /\ DOMAIN s = 1..n
    OBVIOUS
  <1>2. \A k \in 1..n : full(k) => head(k) \in Int
    BY <1>1, EndsAreTimes
  <1> HIDE DEF full, head
  <1>3. step \in [Int \X (1..n) -> Int] /\ 0 \in Int
    BY <1>2
  <1>4. \A x \in Int, k \in 1..n :
          step[<<x, k>>] = IF full(k) /\ (x = 0 \/ head(k) < x) THEN head(k) ELSE x
    OBVIOUS
  <1> HIDE DEF step
  <1>5. PICK g \in [0..n -> Int] : Table(g, 0, step, n)
    BY <1>1, <1>3, Recursion
  <1>6. \A k \in 0..n : k # 0 => k \in 1..n /\ k - 1 \in 0..n
    BY <1>1
  <1>7. FirstUpTo(n, g, s)
    <2>1. \A k \in 0..n : g[k] = IF k = 0 THEN 0
                                 ELSE IF full(k) /\ (g[k - 1] = 0 \/ head(k) < g[k - 1])
                                        THEN head(k)
                                 ELSE g[k - 1]
      BY <1>4, <1>5, <1>6 DEF Table
    <2>2. g = [k \in 0..n |-> g[k]]
      OBVIOUS
    <2>3. QED
      BY <2>1, <2>2 DEF FirstUpTo, full, head
  <1>8. FirstTime(s) = (CHOOSE f : FirstUpTo(n, f, s))[n]
    BY DEF FirstTime, FirstUpTo
  <1>9. PICK f : FirstUpTo(n, f, s) /\ FirstTime(s) = f[n]
    BY <1>7, <1>8
  <1>10. \A k \in 0..n : f[k] = IF k = 0 THEN 0
                                ELSE IF full(k) /\ (f[k - 1] = 0 \/ head(k) < f[k - 1])
                                       THEN head(k)
                                ELSE f[k - 1]
    BY <1>9 DEF FirstUpTo, full, head
  <1> DEFINE G == {k \in 0..n : f[k] \in Int}
  <1>11. 0 \in G
    BY <1>1, <1>10
  <1>12. ASSUME NEW k \in 1..n, k - 1 \in G
         PROVE  k \in G
    BY <1>1, <1>2, <1>10, <1>12
  <1>13. \A k \in 0..n : f[k] \in Int
    <2> HIDE DEF G
    <2>1. \A k \in 0..n : k \in G
      BY <1>1, <1>11, <1>12, Upward
    <2>2. QED
      BY <2>1 DEF G
  <1>14. f \in [0..n -> Int]
    <2>1. f = [k \in 0..n |-> f[k]]
      BY <1>9 DEF FirstUpTo
    <2>2. QED
      BY <1>13, <2>1
  <1>15. FirstTable(f, s)
    <2>1. f[0] = 0 /\ \A k \in 1..n : k \in 0..n /\ k # 0
      BY <1>1, <1>10
    <2>2. QED
      BY <1>10, <1>14, <2>1 DEF FirstTable, full, head
  <1>16. QED
    BY <1>9, <1>15

\* The time that may start the range of an import: after 1970, the first.
LEMMA FirstTimeFacts ==
    ASSUME NEW sent \in Seq(Outcome)
    PROVE  /\ FirstTime(sent) \in Int
           /\ (\A t \in Times(sent) : t > 0) =>
                \A n \in DOMAIN sent : sent[n].ts # <<>> =>
                  0 < FirstTime(sent) /\ FirstTime(sent) <= Head(sent[n].ts)
  <1> DEFINE n == Len(sent)
  <1>1. n \in Nat /\ DOMAIN sent = 1..n
    OBVIOUS
  <1>2. PICK f : FirstTable(f, sent) /\ FirstTime(sent) = f[n]
    BY FirstSteps
  <1>3. /\ f \in [0..n -> Int] /\ f[0] = 0
        /\ \A k \in 1..n :
             f[k] = IF sent[k].ts # <<>> /\ (f[k - 1] = 0 \/ Head(sent[k].ts) < f[k - 1])
                      THEN Head(sent[k].ts) ELSE f[k - 1]
    BY <1>2 DEF FirstTable
  <1>4. ASSUME \A t \in Times(sent) : t > 0
        PROVE  \A m \in DOMAIN sent : sent[m].ts # <<>> => 0 < f[n] /\ f[n] <= Head(sent[m].ts)
    <2> DEFINE Done(k) == /\ f[k] >= 0
                          /\ \A m \in 1..k : sent[m].ts # <<>> =>
                               0 < f[k] /\ f[k] <= Head(sent[m].ts)
               G == {k \in 0..n : Done(k)}
    <2>1. \A m \in 1..n : sent[m].ts # <<>> => Head(sent[m].ts) \in Int /\ Head(sent[m].ts) > 0
      BY <1>1, <1>4, EndsAreTimes
    <2>2. 0 \in G
      BY <1>1, <1>3
    <2>3. ASSUME NEW k \in 1..n, k - 1 \in G
          PROVE  k \in G
      <3>1. k \in 0..n /\ k - 1 \in 0..n /\ Done(k - 1)
        BY <1>1, <2>3
      <3>2. f[k] \in Int /\ f[k - 1] \in Int
        BY <1>3, <3>1
      <3>3. \A m \in 1..k : m \in 1..n /\ (m = k \/ m \in 1..k - 1)
        BY <1>1
      <3>4. CASE f[k] = f[k - 1] /\ ~(sent[k].ts # <<>> /\ (f[k - 1] = 0 \/ Head(sent[k].ts) < f[k - 1]))
        <4>1. sent[k].ts # <<>> => 0 < f[k - 1] /\ f[k - 1] <= Head(sent[k].ts)
          BY <2>1, <3>1, <3>2, <3>4
        <4>2. QED
          BY <3>1, <3>3, <3>4, <4>1
      <3>5. CASE /\ sent[k].ts # <<>> /\ (f[k - 1] = 0 \/ Head(sent[k].ts) < f[k - 1])
                 /\ f[k] = Head(sent[k].ts)
        <4>1. f[k] > 0
          BY <2>1, <3>5
        <4>2. ASSUME NEW m \in 1..k, sent[m].ts # <<>>
              PROVE  f[k] <= Head(sent[m].ts)
          <5>1. CASE m = k
            BY <3>2, <3>5, <5>1
          <5>2. CASE m # k
            <6>1. m \in 1..k - 1 /\ 0 < f[k - 1] /\ f[k - 1] <= Head(sent[m].ts)
              BY <3>1, <3>3, <4>2, <5>2
            <6>2. f[k] < f[k - 1] /\ Head(sent[m].ts) \in Int
              BY <2>1, <3>2, <3>3, <3>5, <4>2, <6>1
            <6>3. QED
              BY <3>2, <6>1, <6>2
          <5>3. QED
            BY <5>1, <5>2
        <4>3. QED
          BY <3>1, <3>2, <4>1, <4>2
      <3>6. QED
        BY <1>3, <3>4, <3>5
    <2>4. \A k \in 0..n : k \in G
      <3> HIDE DEF G
      <3>1. QED
        BY <1>1, <2>2, <2>3, Upward
    <2>5. n \in G
      BY <1>1, <2>4
    <2>6. QED
      BY <1>1, <2>5
  <1>5. f[n] \in Int
    BY <1>1, <1>3
  <1>6. QED
    BY <1>2, <1>4, <1>5

\* The range of an import is two times, or none; and after 1970, it has the
\* first and the last one of every line.
LEMMA ImportRangeFacts ==
    ASSUME scenario \in Scenario, NEW sent \in Seq(Outcome)
    PROVE  /\ ImportRange(sent) \in Seq(Int)
           /\ (\A t \in Times(sent) : t > 0) =>
                \A n \in DOMAIN sent : sent[n].ts # <<>> =>
                  /\ ImportRange(sent) # <<>>
                  /\ ImportRange(sent)[1] \in Int /\ ImportRange(sent)[2] \in Int
                  /\ ImportRange(sent)[1] <= Head(sent[n].ts)
                  /\ Last(sent[n].ts) <= ImportRange(sent)[2]
  <1> DEFINE given(k) == IF bundle.range = <<>> THEN {} ELSE {bundle.range[k]}
             starts == given(1) \union {t \in {FirstTime(sent)} : t > 0}
             ends == given(2) \union {t \in {LastTime(sent)} : t > 0}
             range == ImportRange(sent)
  <1>1. range = IF starts = {} \/ ends = {} THEN <<>> ELSE <<Min(starts), Max(ends)>>
    BY DEF ImportRange
  <1>2. FirstTime(sent) \in Int /\ LastTime(sent) \in Int
    BY FirstTimeFacts, LastTimeFacts
  <1>3. \A k \in {1, 2} : given(k) \subseteq Int /\ IsFiniteSet(given(k))
    <2>1. bundle.range # <<>> => bundle.range[1] \in Int /\ bundle.range[2] \in Int
      BY ScenarioTyped
    <2>2. \A t : IsFiniteSet({t})
      BY FS_Singleton
    <2>3. IsFiniteSet({})
      BY FS_EmptySet
    <2>4. QED
      BY <2>1, <2>2, <2>3
  <1>4. \A t \in Int : {u \in {t} : u > 0} \subseteq Int /\ IsFiniteSet({u \in {t} : u > 0})
    <2>1. \A t : IsFiniteSet({t})
      BY FS_Singleton
    <2>2. \A t : {u \in {t} : u > 0} \subseteq {t}
      OBVIOUS
    <2>3. QED
      BY <2>1, <2>2, FS_Subset
  <1>5. /\ starts \subseteq Int /\ IsFiniteSet(starts)
        /\ ends \subseteq Int /\ IsFiniteSet(ends)
    BY <1>2, <1>3, <1>4, FS_Union
  <1>6. /\ FirstTime(sent) > 0 => FirstTime(sent) \in starts
        /\ LastTime(sent) > 0 => LastTime(sent) \in ends
    OBVIOUS
  <1> HIDE DEF starts, ends, range
  <1>7. /\ starts # {} => Min(starts) \in Int /\ \A t \in starts : Min(starts) <= t
        /\ ends # {} => Max(ends) \in Int /\ \A t \in ends : t <= Max(ends)
    BY <1>5, Extremes
  <1>8. range \in Seq(Int)
    <2>1. CASE starts = {} \/ ends = {}
      BY <1>1, <2>1
    <2>2. CASE starts # {} /\ ends # {}
      BY <1>1, <1>7, <2>2
    <2>3. QED
      BY <2>1, <2>2
  <1>9. ASSUME \A t \in Times(sent) : t > 0, NEW n \in DOMAIN sent, sent[n].ts # <<>>
        PROVE  /\ range # <<>> /\ range[1] \in Int /\ range[2] \in Int
               /\ range[1] <= Head(sent[n].ts) /\ Last(sent[n].ts) <= range[2]
    <2>1. 0 < FirstTime(sent) /\ FirstTime(sent) <= Head(sent[n].ts)
      BY <1>9, FirstTimeFacts
    <2>2. Last(sent[n].ts) <= LastTime(sent)
      BY <1>9, LastTimeFacts
    <2>3. /\ Last(sent[n].ts) > 0 /\ Last(sent[n].ts) \in Int /\ Head(sent[n].ts) \in Int
      BY <1>9, EndsAreTimes
    <2>4. FirstTime(sent) \in starts /\ LastTime(sent) \in ends
      BY <1>2, <1>6, <2>1, <2>2, <2>3
    <2>5. range = <<Min(starts), Max(ends)>>
      BY <1>1, <2>4
    <2>6. /\ Min(starts) \in Int /\ Min(starts) <= FirstTime(sent)
          /\ Max(ends) \in Int /\ LastTime(sent) <= Max(ends)
      BY <1>7, <2>4
    <2>7. range[1] = Min(starts) /\ range[2] = Max(ends) /\ range # <<>>
      BY <2>5
    <2>8. QED
      BY <1>2, <2>1, <2>2, <2>3, <2>6, <2>7
  <1>10. QED
    BY <1>8, <1>9 DEF range

\* A summary is one.
LEMMA SummaryTyped ==
    ASSUME scenario \in Scenario, NEW lines, lines \in Seq(Line),
           NEW outcomes \in Seq(Outcome), NEW cutoff \in Int, NEW range \in Seq(Int)
    PROVE  SummaryOf(lines, outcomes, cutoff, range) \in Summary
  <1> DEFINE points == [i \in DOMAIN outcomes |-> Len(outcomes[i].ts)]
             dropped == [i \in DOMAIN outcomes |-> outcomes[i].dropped]
             skipped == {i \in DOMAIN outcomes : outcomes[i].ts = <<>>}
             over == {i \in DOMAIN lines : OverLimit(lines[i], config, MaxLabelsLimit)}
  <1>1. /\ DOMAIN outcomes = 1..Len(outcomes) /\ Len(outcomes) \in Nat
        /\ DOMAIN lines = 1..Len(lines) /\ Len(lines) \in Nat
        /\ \A i \in DOMAIN outcomes : outcomes[i] \in Outcome
    OBVIOUS
  <1>2. \A o \in Outcome : Len(o.ts) \in Nat /\ o.dropped \in Nat
    BY DEF Outcome
  <1>3. points \in [1..Len(outcomes) -> Nat] /\ dropped \in [1..Len(outcomes) -> Nat]
    BY <1>1, <1>2
  <1>4. skipped \subseteq 1..Len(outcomes) /\ over \subseteq 1..Len(lines)
    BY <1>1
  <1>5. SummaryOf(lines, outcomes, cutoff, range) =
          [points |-> Total(points), dropped |-> Total(dropped),
           skipped |-> Cardinality(skipped), over |-> Cardinality(over),
           cutoff |-> cutoff, limit |-> MaxLabelsLimit, range |-> range]
    BY DEF SummaryOf
  <1> HIDE DEF points, dropped, skipped, over
  <1>6. points \in Seq(Nat) /\ dropped \in Seq(Nat)
    <2>1. \A n \in Nat : \A f \in [1..n -> Nat] : f \in Seq(Nat)
      OBVIOUS
    <2>2. QED
      BY <1>1, <1>3, <2>1
  <1>7. Total(points) \in Nat /\ Total(dropped) \in Nat
    BY <1>6, TotalTyped
  <1>8. Cardinality(skipped) \in Nat /\ Cardinality(over) \in Nat
    BY <1>1, <1>4, Positions
  <1>9. MaxLabelsLimit \in Nat
    BY ScenarioTyped
  <1>10. QED
    <2>1. cutoff \in Int /\ range \in Seq(Int)
      OBVIOUS
    <2>2. QED
      BY ONLY <1>5, <1>7, <1>8, <1>9, <2>1 DEF Summary

\* The cutoff is not in the future.
LEMMA CutoffTyped ==
    ASSUME scenario \in Scenario, now \in Nat
    PROVE  RetentionCutoff \in Int /\ RetentionCutoff <= now
  <1>1. Duration(target.tsdb) \in Nat /\ Duration(target.flag) \in Nat
    BY ScenarioTyped, DurationTyped
  <1>2. QED
    BY <1>1 DEF RetentionCutoff

\* What an import sends, line by line, and its summary.
LEMMA ImportTyped ==
    ASSUME scenario \in Scenario, NEW cutoff \in Int
    PROVE  /\ Streamed(cutoff) \in Seq(Outcome)
           /\ DOMAIN Streamed(cutoff) = DOMAIN bundle.lines
           /\ ImportSummary(cutoff) \in Summary
  <1> DEFINE lines == bundle.lines
             sent == Streamed(cutoff)
  <1>1. lines \in Seq(Line) /\ config \in Config
    BY ScenarioTyped
  <1>2. sent = [i \in DOMAIN lines |-> ImportLine(lines[i], config, cutoff)]
    BY DEF Streamed
  <1> HIDE DEF lines, sent
  <1>3. \A i \in 1..Len(lines) : ImportLine(lines[i], config, cutoff) \in Outcome
    BY <1>1, ImportLineFacts
  <1>4. Len(lines) \in Nat /\ DOMAIN lines = 1..Len(lines)
    BY <1>1
  <1>5. sent \in [1..Len(lines) -> Outcome]
    BY <1>2, <1>3, <1>4
  <1>6. sent \in Seq(Outcome) /\ DOMAIN sent = DOMAIN lines
    BY <1>4, <1>5
  <1>7. ImportRange(sent) \in Seq(Int)
    BY <1>6, ImportRangeFacts
  <1>8. SummaryOf(lines, sent, cutoff, ImportRange(sent)) \in Summary
    BY <1>1, <1>6, <1>7, SummaryTyped
  <1>9. QED
    BY <1>6, <1>8 DEF ImportSummary, sent, lines

\* The analysis of a whole bundle with some cutoff.
FullAnalysis(cutoff) ==
    LET lines    == bundle.lines
        outcomes == [i \in DOMAIN lines |-> AnalyzeLine(lines[i], config, cutoff)]
    IN  SummaryOf(lines, outcomes, cutoff, RangeOf(Times(outcomes)))

\* What a preflight answers; of a whole bundle, it is its full analysis.
LEMMA AnalysisTyped ==
    ASSUME scenario \in Scenario, now \in Nat, NEW full \in BOOLEAN
    PROVE  /\ Analysis(full) \in Summary /\ Analysis(full).cutoff <= now
           /\ full => Analysis(full) = FullAnalysis(Analysis(full).cutoff)
  <1> DEFINE lines == AnalyzedLines(full)
             cutoff == IF config.dropOld THEN RetentionCutoff ELSE 0
             outcomes == [i \in DOMAIN lines |-> AnalyzeLine(lines[i], config, cutoff)]
  <1>1. bundle.lines \in Seq(Line) /\ config \in Config
    BY ScenarioTyped
  <1>2. lines \in Seq(Line)
    <2>1. CASE lines = bundle.lines
      BY <1>1, <2>1
    <2>2. CASE lines # bundle.lines
      <3>1. lines = SubSeq(bundle.lines, 1, SampleLines) /\ ~(Len(bundle.lines) <= SampleLines)
        BY <2>2 DEF AnalyzedLines
      <3>2. \A i \in 1..SampleLines : bundle.lines[i] \in Line
        BY <1>1, <3>1, SampleAssumption
      <3>3. QED
        BY <1>1, <3>1, <3>2, SampleAssumption, SubSeqProperties
    <2>3. QED
      BY <2>1, <2>2
  <1>3. cutoff \in Int /\ cutoff <= now
    BY CutoffTyped
  <1>4. Analysis(full) = SummaryOf(lines, outcomes, cutoff, RangeOf(Times(outcomes)))
    BY DEF Analysis
  <1>5. full => lines = bundle.lines
    BY DEF AnalyzedLines
  <1> HIDE DEF lines, cutoff
  <1>6. outcomes \in Seq(Outcome)
    <2>1. \A i \in 1..Len(lines) : AnalyzeLine(lines[i], config, cutoff) \in Outcome
      BY <1>1, <1>2, <1>3, AnalyzeLineTyped
    <2>2. Len(lines) \in Nat /\ DOMAIN lines = 1..Len(lines)
      BY <1>2
    <2>3. outcomes \in [1..Len(lines) -> Outcome]
      BY <2>1, <2>2
    <2> HIDE DEF outcomes
    <2>4. QED
      BY <2>2, <2>3
  <1>7. full => Analysis(full) = FullAnalysis(cutoff)
    BY <1>4, <1>5 DEF FullAnalysis
  <1> HIDE DEF outcomes
  <1>8. RangeOf(Times(outcomes)) \in Seq(Int)
    BY <1>6, TimesFinite, RangeFacts
  <1>9. Analysis(full) \in Summary
    BY <1>2, <1>3, <1>4, <1>6, <1>8, SummaryTyped
  <1>10. Analysis(full).cutoff = cutoff
    BY <1>4 DEF SummaryOf
  <1>11. QED
    BY <1>3, <1>7, <1>9, <1>10

\* What was answered and what was sent is what the bundle gives with the
\* cutoff of the summary.
Computed ==
    /\ preflight # None /\ preflight.full =>
         preflight.summary = FullAnalysis(preflight.summary.cutoff)
    /\ Imported =>
         /\ import.sent = Streamed(import.summary.cutoff)
         /\ import.summary = ImportSummary(import.summary.cutoff)

\* The scenario alone decides what the bundle gives.
LEMMA SameBundle ==
    ASSUME UNCHANGED scenario, NEW cutoff
    PROVE  /\ FullAnalysis(cutoff)' = FullAnalysis(cutoff)
           /\ Streamed(cutoff)' = Streamed(cutoff)
           /\ ImportSummary(cutoff)' = ImportSummary(cutoff)
  <1>1. bundle' = bundle /\ config' = config /\ MaxLabelsLimit' = MaxLabelsLimit
    BY DEF bundle, config, target, MaxLabelsLimit
  <1>2. ASSUME NEW l, NEW o, NEW r
        PROVE  SummaryOf(l, o, cutoff, r)' = SummaryOf(l, o, cutoff, r)
    BY <1>1 DEF SummaryOf
  <1>3. Streamed(cutoff)' = Streamed(cutoff)
    BY <1>1 DEF Streamed
  <1>4. ASSUME NEW s
        PROVE  ImportRange(s)' = ImportRange(s)
    BY <1>1 DEF ImportRange
  <1>5. ImportSummary(cutoff)' = ImportSummary(cutoff)
    BY <1>1, <1>2, <1>3, <1>4 DEF ImportSummary
  <1>6. FullAnalysis(cutoff)' = FullAnalysis(cutoff)
    BY <1>1, <1>2 DEF FullAnalysis
  <1>7. QED
    BY <1>3, <1>5, <1>6

\* The types of the import, and of the answers.
Imports == [at : {"queued"}] \union [at : {"failed"}] \union {None}
Answers == [at : {"answered"}, full : BOOLEAN, summary : Summary]
Sends == [at : {"verifying", "completed"}, sent : Seq(Outcome), summary : Summary,
          verified : BOOLEAN]

\* A step that neither answers nor sends.
Quiet ==
    /\ UNCHANGED <<scenario, preflight>>
    /\ request' \in Requests \union {None}
    /\ files' \subseteq TempFiles
    /\ now' \in {now, now + 1} /\ now' <= TimeBound
    /\ import' = import \/ import' \in Imports

\* Such a step keeps the types and what was computed.
LEMMA QuietStep ==
    ASSUME PreflightTypeOK, Computed, Quiet
    PROVE  PreflightTypeOK' /\ Computed'
  <1>1. now \in Nat /\ now' \in Nat /\ now <= now' /\ now' \in Start..TimeBound
    BY TimeAssumption DEF PreflightTypeOK, Quiet
  <1>2. /\ preflight' = preflight /\ preflight \in Answers \union {None}
        /\ import \in Imports \union Sends /\ import' \in Imports \union Sends
        /\ import' = import \/ import' \in Imports
    BY DEF PreflightTypeOK, Quiet, Imports, Answers, Sends
  <1>3. /\ \A r \in Answers : r.at = "answered" /\ r.summary.cutoff \in Int
        /\ \A r \in Sends : r.at \in {"verifying", "completed"} /\ r.summary.cutoff \in Int
        /\ \A r \in Imports : r.at \in {"queued", "failed", "none"}
    BY DEF Answers, Sends, Imports, Summary, None
  <1>4. \A r \in {preflight, import} :
          r.at \in {"answered", "verifying", "completed"} => r.summary.cutoff <= now
    BY DEF PreflightTypeOK
  <1>5. preflight'.at \in {"answered", "verifying", "completed"} =>
          preflight'.summary.cutoff <= now'
    <2> SUFFICES ASSUME preflight.at \in {"answered", "verifying", "completed"}
                 PROVE  preflight.summary.cutoff <= now'
      BY <1>2
    <2>1. preflight \in Answers
      BY <1>2 DEF None
    <2>2. preflight.summary.cutoff \in Int /\ preflight.summary.cutoff <= now
      BY <1>3, <1>4, <2>1
    <2>3. QED
      BY <1>1, <2>2
  <1>6. import'.at \in {"answered", "verifying", "completed"} =>
          import'.summary.cutoff <= now'
    <2> SUFFICES ASSUME import'.at \in {"answered", "verifying", "completed"}
                 PROVE  import'.summary.cutoff <= now'
      OBVIOUS
    <2>1. import' = import /\ import \in Sends
      BY <1>2, <1>3
    <2>2. import.summary.cutoff \in Int /\ import.summary.cutoff <= now
      BY <1>3, <1>4, <2>1
    <2>3. QED
      BY <1>1, <2>1, <2>2
  <1>7. PreflightTypeOK'
    <2>1. scenario' \in Scenario /\ request' \in Requests \union {None} /\ files' \subseteq TempFiles
      BY DEF Quiet, PreflightTypeOK
    <2>2. preflight' \in Answers \union {None}
      BY <1>2
    <2>3. QED
      BY <1>1, <1>2, <1>5, <1>6, <2>1, <2>2 DEF PreflightTypeOK, Imports, Answers, Sends
  <1>8. Computed'
    <2>1. UNCHANGED scenario /\ None' = None
      BY DEF Quiet, None
    <2>2. ASSUME preflight # None, preflight.full
          PROVE  (preflight.summary = FullAnalysis(preflight.summary.cutoff))'
      <3>1. PICK cutoff : cutoff = preflight.summary.cutoff
        OBVIOUS
      <3>2. preflight.summary = FullAnalysis(cutoff)
        BY <2>2, <3>1 DEF Computed
      <3>3. FullAnalysis(cutoff)' = FullAnalysis(cutoff)
        BY <2>1, SameBundle
      <3>4. preflight'.summary.cutoff = cutoff /\ preflight'.summary = FullAnalysis(cutoff)'
        BY <1>2, <3>1, <3>2, <3>3
      <3>5. QED
        BY <3>4
    <2>3. ASSUME Imported'
          PROVE  (/\ import.sent = Streamed(import.summary.cutoff)
                  /\ import.summary = ImportSummary(import.summary.cutoff))'
      <3>1. import' = import /\ Imported
        BY <1>2, <1>3, <2>3 DEF Imported
      <3>2. PICK cutoff : cutoff = import.summary.cutoff
        OBVIOUS
      <3>3. import.sent = Streamed(cutoff) /\ import.summary = ImportSummary(cutoff)
        BY <3>1, <3>2 DEF Computed
      <3>4. /\ Streamed(cutoff)' = Streamed(cutoff)
            /\ ImportSummary(cutoff)' = ImportSummary(cutoff)
        BY <2>1, SameBundle
      <3>5. /\ import'.summary.cutoff = cutoff /\ import'.sent = Streamed(cutoff)'
            /\ import'.summary = ImportSummary(cutoff)'
        BY <3>1, <3>2, <3>3, <3>4
      <3>6. QED
        BY <3>5
    <2>4. QED
      BY <1>2, <2>1, <2>2, <2>3 DEF Computed
  <1>9. QED
    BY <1>7, <1>8

\* The analysis answers what it computes.
LEMMA AnalyzeBundleStep ==
    ASSUME PreflightTypeOK, Computed, AnalyzeBundle
    PROVE  PreflightTypeOK' /\ Computed'
  <1>1. /\ scenario \in Scenario /\ now \in Nat /\ request \in Requests \union {None}
        /\ UNCHANGED <<scenario, now, files, import>>
        /\ request.at = "analyzing"
    BY TimeAssumption DEF PreflightTypeOK, AnalyzeBundle
  <1>2. request \in Requests /\ request.full \in BOOLEAN
    BY <1>1 DEF None, Requests
  <1>3. PICK full \in BOOLEAN : full = request.full
    BY <1>2
  <1>4. PICK answer : answer = Analysis(full)
    OBVIOUS
  <1>5. /\ answer \in Summary /\ answer.cutoff <= now
        /\ full => answer = FullAnalysis(answer.cutoff)
    BY <1>1, <1>4, AnalysisTyped
  <1>6. preflight' = [at |-> "answered", full |-> full, summary |-> answer]
    BY <1>3, <1>4 DEF AnalyzeBundle
  <1>7. request' \in Requests
    <2>1. request' = [request EXCEPT !.at = "leaving"]
      BY DEF AnalyzeBundle
    <2>2. QED
      BY <1>2, <2>1 DEF Requests
  <1>8. /\ preflight' \in Answers /\ preflight'.full = full
        /\ preflight'.summary = answer /\ preflight'.summary.cutoff = answer.cutoff
    BY <1>5, <1>6 DEF Answers
  <1>9. PreflightTypeOK'
    <2>1. import'.at \in {"answered", "verifying", "completed"} =>
            import'.summary.cutoff <= now'
      BY <1>1 DEF PreflightTypeOK
    <2>2. preflight'.summary.cutoff <= now'
      BY <1>1, <1>5, <1>8
    <2>3. QED
      BY <1>1, <1>7, <1>8, <2>1, <2>2 DEF PreflightTypeOK, Answers
  <1>10. Computed'
    <2>1. ASSUME preflight'.full
          PROVE  (preflight.summary = FullAnalysis(preflight.summary.cutoff))'
      <3>1. PICK cutoff : cutoff = answer.cutoff
        OBVIOUS
      <3>2. answer = FullAnalysis(cutoff) /\ FullAnalysis(cutoff)' = FullAnalysis(cutoff)
        BY <1>1, <1>5, <1>8, <2>1, <3>1, SameBundle
      <3>3. preflight'.summary.cutoff = cutoff /\ preflight'.summary = FullAnalysis(cutoff)'
        BY <1>8, <3>1, <3>2
      <3>4. QED
        BY <3>3
    <2>2. ASSUME Imported'
          PROVE  (/\ import.sent = Streamed(import.summary.cutoff)
                  /\ import.summary = ImportSummary(import.summary.cutoff))'
      <3>1. import' = import /\ Imported
        BY <1>1, <2>2 DEF Imported
      <3>2. PICK cutoff : cutoff = import.summary.cutoff
        OBVIOUS
      <3>3. import.sent = Streamed(cutoff) /\ import.summary = ImportSummary(cutoff)
        BY <3>1, <3>2 DEF Computed
      <3>4. /\ Streamed(cutoff)' = Streamed(cutoff)
            /\ ImportSummary(cutoff)' = ImportSummary(cutoff)
        BY <1>1, SameBundle
      <3>5. /\ import'.summary.cutoff = cutoff /\ import'.sent = Streamed(cutoff)'
            /\ import'.summary = ImportSummary(cutoff)'
        BY <3>1, <3>2, <3>3, <3>4
      <3>6. QED
        BY <3>5
    <2>3. QED
      BY <2>1, <2>2 DEF Computed
  <1>11. QED
    BY <1>9, <1>10

\* The answer of the preflight stays computed while the bundle is imported.
LEMMA AnswerStays ==
    ASSUME Computed, UNCHANGED <<scenario, preflight>>
    PROVE  (preflight # None /\ preflight.full =>
              preflight.summary = FullAnalysis(preflight.summary.cutoff))'
  <1> SUFFICES ASSUME preflight # None, preflight.full
               PROVE  (preflight.summary = FullAnalysis(preflight.summary.cutoff))'
    BY DEF None
  <1>1. PICK cutoff : cutoff = preflight.summary.cutoff
    OBVIOUS
  <1>2. preflight.summary = FullAnalysis(cutoff) /\ FullAnalysis(cutoff)' = FullAnalysis(cutoff)
    BY <1>1, SameBundle DEF Computed
  <1>3. preflight'.summary.cutoff = cutoff /\ preflight'.summary = FullAnalysis(cutoff)'
    BY <1>1, <1>2
  <1>4. QED
    BY <1>3

\* The import sends what it computes.
LEMMA ImportStep ==
    ASSUME PreflightTypeOK, Computed, Import
    PROVE  PreflightTypeOK' /\ Computed'
  <1>1. /\ scenario \in Scenario /\ now \in Nat
        /\ UNCHANGED <<scenario, now, request, preflight>>
    BY TimeAssumption DEF PreflightTypeOK, Import
  <1>2. PICK cutoff : cutoff = RetentionCutoff
    OBVIOUS
  <1>3. cutoff \in Int /\ cutoff <= now
    BY <1>1, <1>2, CutoffTyped
  <1>4. PICK sent : sent = Streamed(cutoff)
    OBVIOUS
  <1>5. PICK summary : summary = ImportSummary(cutoff)
    OBVIOUS
  <1>6. sent \in Seq(Outcome) /\ summary \in Summary
    BY <1>1, <1>3, <1>4, <1>5, ImportTyped
  <1>7. import' = [at |-> "verifying", sent |-> sent, summary |-> summary,
                   verified |-> FALSE]
    BY <1>2, <1>4, <1>5 DEF Import
  <1>8. import' \in Sends
    BY <1>6, <1>7 DEF Sends
  <1>9. summary.cutoff = cutoff
    BY <1>5 DEF ImportSummary, SummaryOf
  <1>10. PreflightTypeOK'
    <2>1. files' \subseteq TempFiles
      BY DEF Import, PreflightTypeOK, TempFiles
    <2>2. import'.summary.cutoff <= now'
      BY <1>1, <1>3, <1>7, <1>9
    <2>3. preflight'.at \in {"answered", "verifying", "completed"} =>
            preflight'.summary.cutoff <= now'
      BY <1>1 DEF PreflightTypeOK
    <2>4. QED
      BY <1>1, <1>8, <2>1, <2>2, <2>3 DEF PreflightTypeOK, Sends
  <1>11. Computed'
    <2>1. Streamed(cutoff)' = Streamed(cutoff) /\ ImportSummary(cutoff)' = ImportSummary(cutoff)
      BY <1>1, SameBundle
    <2>2. /\ import'.summary.cutoff = cutoff /\ import'.sent = Streamed(cutoff)'
          /\ import'.summary = ImportSummary(cutoff)'
      BY <1>4, <1>5, <1>7, <1>9, <2>1
    <2>3. (/\ import.sent = Streamed(import.summary.cutoff)
           /\ import.summary = ImportSummary(import.summary.cutoff))'
      BY <2>2
    <2>4. QED
      BY <1>1, <2>3, AnswerStays DEF Computed
  <1>12. QED
    BY <1>10, <1>11

\* Verification adds its result.
LEMMA VerifyImportStep ==
    ASSUME PreflightTypeOK, Computed, VerifyImport
    PROVE  PreflightTypeOK' /\ Computed'
  <1>1. /\ UNCHANGED <<scenario, now, request, preflight>>
        /\ import.at = "verifying" /\ files' \subseteq files
    BY DEF VerifyImport
  <1>2. PICK answered \in BOOLEAN, subset \in FirstSubsets :
          import' = [import EXCEPT !.at = "completed",
                       !.verified = answered /\ Seen(subset)]
    BY DEF VerifyImport
  <1>3. import \in Sends
    BY <1>1 DEF PreflightTypeOK, Sends, None
  <1>4. PICK verified \in BOOLEAN : import' = [import EXCEPT !.at = "completed", !.verified = verified]
    <2>1. (answered /\ Seen(subset)) \in BOOLEAN
      BY Zenon
    <2>2. QED
      BY <1>2, <2>1
  <1>5. /\ import' \in Sends /\ import'.sent = import.sent /\ import'.summary = import.summary
    BY <1>3, <1>4 DEF Sends
  <1>6. import.summary.cutoff <= now
    BY <1>1 DEF PreflightTypeOK
  <1>7. PreflightTypeOK'
    <2>1. /\ scenario' \in Scenario /\ now' \in Start..TimeBound
          /\ request' \in Requests \union {None} /\ files' \subseteq TempFiles
          /\ preflight' \in Answers \union {None}
      BY <1>1 DEF PreflightTypeOK, Answers
    <2>2. preflight'.at \in {"answered", "verifying", "completed"} =>
            preflight'.summary.cutoff <= now'
      BY <1>1 DEF PreflightTypeOK
    <2>3. import'.summary.cutoff <= now'
      BY <1>1, <1>5, <1>6
    <2>4. QED
      BY <1>5, <2>1, <2>2, <2>3 DEF PreflightTypeOK, Answers, Sends
  <1>8. Computed'
    <2>1. PICK cutoff : cutoff = import.summary.cutoff
      OBVIOUS
    <2>2. import.sent = Streamed(cutoff) /\ import.summary = ImportSummary(cutoff)
      BY <1>1, <2>1 DEF Computed, Imported
    <2>3. Streamed(cutoff)' = Streamed(cutoff) /\ ImportSummary(cutoff)' = ImportSummary(cutoff)
      BY <1>1, SameBundle
    <2>4. /\ import'.summary.cutoff = cutoff /\ import'.sent = Streamed(cutoff)'
          /\ import'.summary = ImportSummary(cutoff)'
      BY <1>5, <2>1, <2>2, <2>3
    <2>5. (/\ import.sent = Streamed(import.summary.cutoff)
           /\ import.summary = ImportSummary(import.summary.cutoff))'
      BY <2>4
    <2>6. QED
      BY <1>1, <2>5, AnswerStays DEF Computed
  <1>9. QED
    BY <1>7, <1>8

\* Every other step of a request, and time, and a crash, is quiet.
LEMMA QuietSteps ==
    ASSUME PreflightTypeOK,
           \/ \E full \in BOOLEAN : StartAnalyze(full)
           \/ StartUpload \/ AfterSaving \/ PrepareBundle \/ AnalyzeFails \/ LeaveAnalyze
           \/ UploadUnresolved \/ StoreJob \/ ImportFails \/ Tick
           \/ UNCHANGED preflightVars
    PROVE  Quiet
  <1>1. /\ now \in Nat /\ now <= TimeBound /\ TimeBound \in Nat
        /\ request \in Requests \union {None} /\ files \subseteq TempFiles
    BY TimeAssumption DEF PreflightTypeOK
  <1>2. \A r \in Requests \union {None}, at \in {"preparing", "analyzing", "leaving", "resolving"} :
          r.at # "none" => [r EXCEPT !.at = at] \in Requests
    BY DEF Requests, None
  <1>3. CASE Tick
    BY <1>1, <1>3 DEF Tick, Quiet
  <1>4. CASE ~Tick
    <2>1. UNCHANGED <<scenario, preflight, now>>
      BY <1>4 DEF StartAnalyze, StartUpload, AfterSaving, PersistUploadedFile, BundleRefused,
           PrepareBundle, AnalyzeFails, LeaveAnalyze, UploadUnresolved, StoreJob, ImportFails,
           preflightVars
    <2>2. files' \subseteq TempFiles
      BY <1>1, <1>4 DEF StartAnalyze, StartUpload, AfterSaving, PersistUploadedFile, BundleRefused,
           PrepareBundle, AnalyzeFails, LeaveAnalyze, UploadUnresolved, StoreJob, ImportFails,
           preflightVars, TempFiles
    <2>3. import' = import \/ import' \in Imports
      <3>1. import' \in {import, [at |-> "queued"], [at |-> "failed"]}
        BY <1>4 DEF StartAnalyze, StartUpload, AfterSaving, PersistUploadedFile, BundleRefused,
             PrepareBundle, AnalyzeFails, LeaveAnalyze, UploadUnresolved, StoreJob, ImportFails,
             preflightVars
      <3>2. [at |-> "queued"] \in Imports /\ [at |-> "failed"] \in Imports
        BY DEF Imports
      <3>3. QED
        BY <3>1, <3>2
    <2>4. request' \in Requests \union {None}
      <3>1. CASE (\E full \in BOOLEAN : StartAnalyze(full)) \/ StartUpload
        <4>1. PICK full \in BOOLEAN, kind \in {"analyze", "upload"} :
                request' = [kind |-> kind, full |-> full, at |-> "saving"]
          BY <3>1 DEF StartAnalyze, StartUpload
        <4>2. QED
          BY <4>1 DEF Requests
      <3>2. CASE AfterSaving \/ PrepareBundle \/ AnalyzeFails
        BY <1>1, <1>2, <3>2 DEF AfterSaving, PersistUploadedFile, BundleRefused, PrepareBundle,
             AnalyzeFails
      <3>3. CASE LeaveAnalyze \/ UploadUnresolved \/ StoreJob
        BY <3>3 DEF LeaveAnalyze, UploadUnresolved, StoreJob
      <3>4. CASE ImportFails \/ UNCHANGED preflightVars
        BY <1>1, <3>4 DEF ImportFails, preflightVars
      <3>5. QED
        BY <1>4, <3>1, <3>2, <3>3, <3>4
    <2>5. QED
      BY <1>1, <2>1, <2>2, <2>3, <2>4 DEF Quiet
  <1>5. QED
    BY <1>3, <1>4

\* For any bundle, settings and target: the types of the requests and of the
\* import, and what was answered and sent.
THEOREM ComputedInvariant == Spec => [](PreflightTypeOK /\ Computed)
  <1>1. Init => PreflightTypeOK /\ Computed
    <2> SUFFICES ASSUME Init
                 PROVE  PreflightTypeOK /\ Computed
      OBVIOUS
    <2>1. /\ scenario \in Scenario /\ now = Start /\ request = None /\ files = {}
          /\ preflight = None /\ import = None
      BY DEF Init, PreflightInit
    <2>2. now \in Start..TimeBound
      BY <2>1, TimeAssumption
    <2>3. QED
      BY <2>1, <2>2 DEF PreflightTypeOK, Computed, Imported, None
  <1>2. (PreflightTypeOK /\ Computed) /\ [Next]_vars => (PreflightTypeOK /\ Computed)'
    <2> SUFFICES ASSUME PreflightTypeOK, Computed, [Next]_vars
                 PROVE  PreflightTypeOK' /\ Computed'
      OBVIOUS
    <2>1. ASSUME UNCHANGED preflightVars
          PROVE  PreflightTypeOK' /\ Computed'
      BY <2>1, QuietSteps, QuietStep
    <2>2. CASE \/ \E full \in BOOLEAN : StartSaving(StartAnalyze(full))
               \/ StartSaving(StartUpload) \/ Saved \/ Pass
      <3>1. \/ \E full \in BOOLEAN : StartAnalyze(full)
            \/ StartUpload \/ AfterSaving \/ Tick
        BY <2>2 DEF StartSaving, Saved, Pass
      <3>2. QED
        BY <3>1, QuietSteps, QuietStep
    <2>3. CASE Handle
      BY <2>3, QuietSteps, QuietStep, AnalyzeBundleStep, ImportStep, VerifyImportStep
      DEF Handle, PreflightStep
    <2>4. ASSUME NEW s \in Importer, CrashImporter(s)
          PROVE  PreflightTypeOK' /\ Computed'
      <3>1. CASE s = Here
        <4>1. /\ request' = None /\ files' = {} /\ import' \in {import, None}
              /\ UNCHANGED <<scenario, now, preflight>>
          BY <2>4, <3>1 DEF CrashImporter
        <4>2. now \in Nat /\ now <= TimeBound
          BY TimeAssumption DEF PreflightTypeOK
        <4>3. Quiet
          BY <4>1, <4>2 DEF Quiet, Imports
        <4>4. QED
          BY <4>3, QuietStep
      <3>2. CASE s # Here
        BY <2>1, <2>4, <3>2 DEF CrashImporter
      <3>3. QED
        BY <3>1, <3>2
    <2>5. QED
      BY <2>1, <2>2, <2>3, <2>4 DEF Next, CheckEndpoint, PersistStep, Restart, vars
  <1>3. QED
    BY <1>1, <1>2, PTL DEF Spec

----------------------------------------------------------------------------
(* The types of the whole importer.                                        *)

\* The states of a saver agree with the file it has open.
SaverFits(r) == r \in Saver /\ (r.fd # NoFile <=> r.at \in {"writing", "renaming"})

\* The types of the recent profiles, with the savers' one by one.
LEMMA ProfilesTyped ==
    ProfilesTypeOK <=>
      /\ profiles \in [Importer -> Lists]
      /\ saver \in [Importer -> Saver] /\ \A s \in Importer : SaverFits(saver[s])
      /\ path \in Inode \union {NoFile} /\ tmpPath \in Inode \union {NoFile}
      /\ path = tmpPath => path = NoFile
      /\ disk \in [Inode -> Files] /\ legacy \in Lists
      /\ saved \in Seq(Entry) /\ savedBy \in Importer \union {NoFile}
      /\ whole \in BOOLEAN /\ overlapped \in BOOLEAN /\ unpersisted \subseteq Importer
  BY DEF ProfilesTypeOK, SaverFits, Writing

\* At the start.
LEMMA ProfilesTypedInit == ASSUME ProfilesInit PROVE ProfilesTypeOK
  <1>1. Legacy \subseteq Seq(Entry) /\ <<>> \in Lists /\ <<>> \in Seq(Entry)
    BY ListAssumption DEF Lists
  <1>2. saver \in [Importer -> Saver] /\ \A s \in Importer : SaverFits(saver[s])
    BY DEF ProfilesInit, Saver, SaverFits
  <1>3. profiles \in [Importer -> Lists] /\ tmpPath = NoFile /\ savedBy = NoFile
        /\ whole = TRUE /\ overlapped = FALSE /\ unpersisted = {}
    BY <1>1 DEF ProfilesInit
  <1>4. /\ disk \in [Inode -> Files] /\ saved \in Seq(Entry)
        /\ path \in Inode \union {NoFile}
    BY <1>1 DEF ProfilesInit, Files
  <1>5. legacy \in Lists
    BY <1>1, RebuiltFacts DEF ProfilesInit
  <1>6. path = tmpPath => path = NoFile
    BY <1>3
  <1>7. QED
    BY <1>2, <1>3, <1>4, <1>5, <1>6, ProfilesTyped

\* Whatever becomes of one saver, and of its list.
LEMMA SaverSteps ==
    ASSUME ProfilesTypeOK, FileInv, ListInv, NEW s \in Importer,
           \/ StartImporter(s) \/ Crash(s) \/ Persist(s)
           \/ \E p \in Profile : SaveRecentProfile(s, p)
    PROVE  /\ profiles' \in [Importer -> Lists]
           /\ saver' \in [Importer -> Saver]
           /\ \A t \in Importer : SaverFits(saver'[t])
  <1>1. /\ profiles \in [Importer -> Lists] /\ saver \in [Importer -> Saver]
        /\ \A t \in Importer : SaverFits(saver[t])
    BY ProfilesTyped
  <1>2. profiles' \in [Importer -> Lists]
    <2>1. Loaded \in Lists /\ <<>> \in Lists
      BY LoadedProper, NothingIsProper DEF Proper
    <2>2. \A p \in Profile : Recent(profiles[s], p) \in Lists
      BY RecentProper DEF ListInv, Proper
    <2>3. profiles' = profiles \/ \E l \in Lists : profiles' = [profiles EXCEPT ![s] = l]
      BY <2>1, <2>2 DEF StartImporter, Crash, Persist, OpenTmp, WriteTmp, WriteFails, RenameTmp,
                        SaveRecentProfile
    <2>4. QED
      BY <1>1, <2>3
  <1>3. \E r : SaverFits(r) /\ saver' = [saver EXCEPT ![s] = r]
    <2>1. SaverFits(saver[s]) /\ saver[s] \in Saver
      BY <1>1
    <2>2. \A at : [saver EXCEPT ![s].at = at] = [saver EXCEPT ![s] = [saver[s] EXCEPT !.at = at]]
      BY <1>1
    <2>3. SaverFits(Closed) /\ SaverFits([at |-> "down", fd |-> NoFile])
      BY DEF SaverFits, Closed, Saver
    <2>4. CASE StartImporter(s)
      <3>1. saver[s].at = "down" /\ saver' = [saver EXCEPT ![s].at = "idle"]
        BY <2>4 DEF StartImporter, Up
      <3>2. SaverFits([saver[s] EXCEPT !.at = "idle"])
        BY <2>1, <3>1 DEF SaverFits, Saver
      <3>3. QED
        BY <2>2, <3>1, <3>2
    <2>5. CASE \E p \in Profile : SaveRecentProfile(s, p)
      <3>1. saver[s].at = "idle" /\ saver' = [saver EXCEPT ![s].at = "opening"]
        BY <2>5 DEF SaveRecentProfile
      <3>2. SaverFits([saver[s] EXCEPT !.at = "opening"])
        BY <2>1, <3>1 DEF SaverFits, Saver
      <3>3. QED
        BY <2>2, <3>1, <3>2
    <2>6. CASE OpenTmp(s)
      <3>1. PICK i \in Inode : saver' = [saver EXCEPT ![s] = [at |-> "writing", fd |-> i]]
        BY <2>6 DEF OpenTmp
      <3>2. SaverFits([at |-> "writing", fd |-> i])
        BY InodeAssumption DEF SaverFits, Saver
      <3>3. QED
        BY <3>1, <3>2
    <2>7. CASE WriteTmp(s)
      <3>1. saver[s].at = "writing" /\ saver' = [saver EXCEPT ![s].at = "renaming"]
        BY <2>7 DEF WriteTmp
      <3>2. SaverFits([saver[s] EXCEPT !.at = "renaming"])
        BY <2>1, <3>1 DEF SaverFits, Saver
      <3>3. QED
        BY <2>2, <3>1, <3>2
    <2>8. CASE WriteFails(s) \/ RenameTmp(s) \/ Crash(s)
      <3>1. \/ saver' = [saver EXCEPT ![s] = Closed]
            \/ saver' = [saver EXCEPT ![s] = [at |-> "down", fd |-> NoFile]]
        BY <2>8 DEF WriteFails, RenameTmp, Crash
      <3>2. QED
        BY <2>3, <3>1
    <2>9. QED
      BY <2>4, <2>5, <2>6, <2>7, <2>8 DEF Persist
  <1>4. QED
    BY <1>1, <1>2, <1>3 DEF SaverFits

\* Whatever becomes of the files.
LEMMA DiskSteps ==
    ASSUME ProfilesTypeOK, NEW s \in Importer,
           \/ StartImporter(s) \/ Crash(s) \/ Persist(s)
           \/ \E p \in Profile : SaveRecentProfile(s, p)
    PROVE  /\ disk' \in [Inode -> Files] /\ legacy' \in Lists
           /\ saved' \in Seq(Entry) /\ savedBy' \in Importer \union {NoFile}
           /\ whole' \in BOOLEAN /\ overlapped' \in BOOLEAN /\ unpersisted' \subseteq Importer
  <1>1. /\ disk \in [Inode -> Files] /\ profiles[s] \in Seq(Entry) /\ legacy \in Lists
        /\ saved \in Seq(Entry) /\ savedBy \in Importer \union {NoFile}
        /\ whole \in BOOLEAN /\ overlapped \in BOOLEAN /\ unpersisted \subseteq Importer
    BY DEF ProfilesTypeOK, Lists, Entry
  <1>2. \/ disk' = disk
        \/ \E i, l : l \in {Empty, Torn, profiles[s]} /\ disk' = [disk EXCEPT ![i] = l]
    BY DEF StartImporter, Crash, Persist, OpenTmp, WriteTmp, WriteFails, RenameTmp,
           SaveRecentProfile
  <1>3. disk' \in [Inode -> Files]
    BY <1>1, <1>2 DEF Files
  <1>4. saved' \in {saved, profiles[s]} /\ savedBy' \in {savedBy, s} /\ legacy' = legacy
    BY DEF StartImporter, Crash, Persist, OpenTmp, WriteTmp, WriteFails, RenameTmp,
           SaveRecentProfile
  <1>5. unpersisted' \in {unpersisted, unpersisted \union {s}, unpersisted \ {s}}
    BY DEF StartImporter, Crash, Persist, OpenTmp, WriteTmp, WriteFails, RenameTmp,
           SaveRecentProfile
  <1>6. overlapped' = overlapped \/ overlapped' = (Writing # {})
    BY Zenon DEF StartImporter, Crash, Persist, OpenTmp, WriteTmp, WriteFails, RenameTmp,
           SaveRecentProfile
  <1>7. whole' = whole \/ whole' = ~overlapped
    BY Zenon DEF StartImporter, Crash, Persist, OpenTmp, WriteTmp, WriteFails, RenameTmp,
           SaveRecentProfile
  <1>8. (Writing # {}) \in BOOLEAN /\ (~overlapped) \in BOOLEAN
    BY Zenon
  <1>9. overlapped' \in BOOLEAN /\ whole' \in BOOLEAN
    BY ONLY <1>1, <1>6, <1>7, <1>8
  <1>10. unpersisted' \subseteq Importer
    BY <1>1, <1>5
  <1>11. QED
    BY <1>1, <1>3, <1>4, <1>9, <1>10

\* For any number of processes, files and profiles: the types of the recent
\* profiles; a process has a file open exactly while it writes or renames.
THEOREM ProfilesTyping == Spec => []ProfilesTypeOK
  <1>1. ProfilesTypeOK /\ FileInv /\ ListInv /\ FileInv' /\ [ProfilesNext]_profileVars
          => ProfilesTypeOK'
    <2> SUFFICES ASSUME ProfilesTypeOK, FileInv, ListInv, FileInv', [ProfilesNext]_profileVars
                 PROVE  ProfilesTypeOK'
      OBVIOUS
    <2>1. /\ path' \in Inode \union {NoFile} /\ tmpPath' \in Inode \union {NoFile}
          /\ path' = tmpPath' => path' = NoFile
      BY DEF FileInv
    <2>2. CASE ProfilesNext
      <3>1. PICK s \in Importer :
              \/ StartImporter(s) \/ Crash(s) \/ Persist(s)
              \/ \E p \in Profile : SaveRecentProfile(s, p)
        BY <2>2 DEF ProfilesNext
      <3>2. /\ profiles' \in [Importer -> Lists] /\ saver' \in [Importer -> Saver]
            /\ \A t \in Importer : SaverFits(saver'[t])
        BY <3>1, SaverSteps
      <3>3. /\ disk' \in [Inode -> Files] /\ legacy' \in Lists
            /\ saved' \in Seq(Entry) /\ savedBy' \in Importer \union {NoFile}
            /\ whole' \in BOOLEAN /\ overlapped' \in BOOLEAN
            /\ unpersisted' \subseteq Importer
        BY <3>1, DiskSteps
      <3>4. \A t \in Importer : saver'[t].fd # NoFile <=> t \in Writing'
        BY <3>2 DEF SaverFits, Writing
      <3>5. QED
        BY <2>1, <3>2, <3>3, <3>4 DEF ProfilesTypeOK
    <2>3. CASE UNCHANGED profileVars
      BY <2>3 DEF profileVars, ProfilesTypeOK, Writing
    <2>4. QED
      BY <2>2, <2>3
  <1>2. Init => ProfilesTypeOK
    BY ProfilesTypedInit DEF Init
  <1>3. Spec => [][ProfilesNext]_profileVars
    BY ServesProfiles, PTL DEF ProfilesSpec
  <1>4. QED
    BY <1>1, <1>2, <1>3, FileInvariant, ListInvariant, ServesProfiles, PTL DEF Spec

\* For any bundles, settings, targets, processes and profiles: the types of
\* the whole importer.
THEOREM Typing == Spec => []TypeOK
  <1> DEFINE ServingTypeOK == /\ saving \in BOOLEAN
                              /\ since \subseteq Profile
                              /\ left \subseteq TempFiles
  <1>1. Init => ServingTypeOK
    BY DEF Init
  <1>2. ServingTypeOK /\ PreflightTypeOK /\ [Next]_vars => ServingTypeOK'
    <2> SUFFICES ASSUME ServingTypeOK, PreflightTypeOK, [Next]_vars
                 PROVE  ServingTypeOK'
      OBVIOUS
    <2>1. files \subseteq TempFiles
      BY DEF PreflightTypeOK
    <2>2. ASSUME NEW begin, StartSaving(begin)
          PROVE  ServingTypeOK'
      BY <2>2 DEF StartSaving
    <2>3. ASSUME NEW s \in Importer, NEW p \in Profile, CheckEndpoint(s, p)
          PROVE  ServingTypeOK'
      BY <2>3 DEF CheckEndpoint
    <2>4. ASSUME NEW s \in Importer, PersistStep(s) \/ Restart(s) \/ CrashImporter(s)
          PROVE  ServingTypeOK'
      BY <2>1, <2>4 DEF PersistStep, Restart, CrashImporter, servingVars
    <2>5. CASE Saved \/ Handle \/ Pass \/ UNCHANGED vars
      BY <2>5 DEF Saved, Handle, Pass, vars, servingVars
    <2>6. QED
      BY <2>2, <2>3, <2>4, <2>5 DEF Next
  <1>3. PreflightTypeOK /\ ProfilesTypeOK /\ ServingTypeOK => TypeOK
    BY DEF TypeOK
  <1> HIDE DEF ServingTypeOK
  <1>4. Spec => []PreflightTypeOK
    BY ComputedInvariant, PTL
  <1>5. QED
    BY <1>1, <1>2, <1>3, <1>4, ProfilesTyping, PTL DEF Spec

----------------------------------------------------------------------------
(* The preflight's prediction, and what the import sends.                  *)

\* The lines of the bundle, one by one.
LEMMA BundleLines ==
    ASSUME scenario \in Scenario
    PROVE  /\ \A n \in DOMAIN bundle.lines : bundle.lines[n] \in Line
           /\ \A n \in DOMAIN bundle.lines : bundle.lines[n] \in Lines
           /\ \A l \in Lines : \E n \in DOMAIN bundle.lines : l = bundle.lines[n]
  BY ScenarioTyped DEF Lines, Range

\* What the analysis makes of a whole bundle.
Analyzed(cutoff) ==
    [n \in DOMAIN bundle.lines |-> AnalyzeLine(bundle.lines[n], config, cutoff)]

PointsOf(outcomes) == Total([i \in DOMAIN outcomes |-> Len(outcomes[i].ts)])
DropsOf(outcomes)  == Total([i \in DOMAIN outcomes |-> outcomes[i].dropped])
SkipsOf(outcomes)  == Cardinality({i \in DOMAIN outcomes : outcomes[i].ts = <<>>})

\* What the summaries count.
LEMMA SummaryCounts ==
    ASSUME NEW cutoff,
           NEW p, p = FullAnalysis(cutoff), NEW i, i = ImportSummary(cutoff)
    PROVE  /\ p.points = PointsOf(Analyzed(cutoff)) /\ i.points = PointsOf(Streamed(cutoff))
           /\ p.dropped = DropsOf(Analyzed(cutoff)) /\ i.dropped = DropsOf(Streamed(cutoff))
           /\ p.skipped = SkipsOf(Analyzed(cutoff)) /\ i.skipped = SkipsOf(Streamed(cutoff))
           /\ p.over = i.over
  BY DEF FullAnalysis, ImportSummary, SummaryOf, Analyzed, PointsOf, DropsOf, SkipsOf

\* The outcomes of a bundle whose lines have labels, one by one.
LEMMA OutcomesOf ==
    ASSUME scenario \in Scenario, \A l \in Lines : l.labels # NoLabels, NEW cutoff \in Int
    PROVE  /\ Analyzed(cutoff) \in Seq(Outcome) /\ Streamed(cutoff) \in Seq(Outcome)
           /\ Len(Analyzed(cutoff)) = Len(bundle.lines)
           /\ Len(Streamed(cutoff)) = Len(bundle.lines)
           /\ \A n \in 1..Len(bundle.lines) :
                LET line == bundle.lines[n] IN
                /\ line \in Line /\ line \in Lines
                /\ Analyzed(cutoff)[n] = LineFrom(line, line.ts, config, cutoff)
                /\ Streamed(cutoff)[n] = LineFrom(line, Normalize(line.ts), config, cutoff)
  <1> DEFINE lines == bundle.lines
  <1>1. /\ lines \in Seq(Line) /\ config \in Config
        /\ DOMAIN lines = 1..Len(lines) /\ Len(lines) \in Nat
    BY ScenarioTyped
  <1>2. \A n \in 1..Len(lines) : /\ lines[n] \in Line /\ lines[n] \in Lines
                                 /\ lines[n].labels # NoLabels
    BY <1>1, BundleLines
  <1>3. \A n \in 1..Len(lines) : AnalyzeLine(lines[n], config, cutoff) \in Outcome
    BY <1>1, <1>2, AnalyzeLineTyped
  <1>4. \A n \in 1..Len(lines) : ImportLine(lines[n], config, cutoff) \in Outcome
    BY <1>1, <1>2, ImportLineFacts
  <1>5. /\ Analyzed(cutoff) = [n \in 1..Len(lines) |-> AnalyzeLine(lines[n], config, cutoff)]
        /\ Streamed(cutoff) = [n \in 1..Len(lines) |-> ImportLine(lines[n], config, cutoff)]
    BY <1>1 DEF Analyzed, Streamed
  <1> HIDE DEF lines
  <1>6. /\ Analyzed(cutoff) \in Seq(Outcome) /\ Len(Analyzed(cutoff)) = Len(lines)
        /\ Streamed(cutoff) \in Seq(Outcome) /\ Len(Streamed(cutoff)) = Len(lines)
    <2>1. \A k \in Nat : \A f \in [1..k -> Outcome] : f \in Seq(Outcome) /\ Len(f) = k
      OBVIOUS
    <2>2. /\ Analyzed(cutoff) \in [1..Len(lines) -> Outcome]
          /\ Streamed(cutoff) \in [1..Len(lines) -> Outcome]
      BY <1>3, <1>4, <1>5
    <2>3. QED
      BY <1>1, <2>1, <2>2
  <1>7. ASSUME NEW n \in 1..Len(lines)
        PROVE  /\ Analyzed(cutoff)[n] = LineFrom(lines[n], lines[n].ts, config, cutoff)
               /\ Streamed(cutoff)[n] = LineFrom(lines[n], Normalize(lines[n].ts), config, cutoff)
    BY <1>2, <1>5 DEF AnalyzeLine, ImportLine
  <1>8. QED
    BY <1>2, <1>6, <1>7 DEF lines

\* Sums of outcomes that are no larger, one by one.
LEMMA SumsGrow ==
    ASSUME NEW a \in Seq(Outcome), NEW b \in Seq(Outcome), Len(b) = Len(a)
    PROVE  /\ (\A n \in 1..Len(a) : Len(a[n].ts) <= Len(b[n].ts)) => PointsOf(a) <= PointsOf(b)
           /\ (\A n \in 1..Len(a) : a[n].dropped <= b[n].dropped) => DropsOf(a) <= DropsOf(b)
  <1>1. /\ DOMAIN a = 1..Len(a) /\ DOMAIN b = 1..Len(a) /\ Len(a) \in Nat
        /\ \A n \in 1..Len(a) : a[n] \in Outcome /\ b[n] \in Outcome
    OBVIOUS
  <1>2. \A o \in Outcome : Len(o.ts) \in Nat /\ o.dropped \in Nat
    BY DEF Outcome
  <1>3. ASSUME NEW s \in [1..Len(a) -> Nat], NEW t \in [1..Len(a) -> Nat],
               \A n \in 1..Len(a) : s[n] <= t[n]
        PROVE  Total(s) <= Total(t)
    <2>1. \A k \in Nat : \A f \in [1..k -> Nat] : f \in Seq(Nat) /\ Len(f) = k
      OBVIOUS
    <2>2. s \in Seq(Nat) /\ t \in Seq(Nat) /\ Len(s) = Len(a) /\ Len(t) = Len(a)
      BY <1>1, <2>1
    <2>3. QED
      BY <1>3, <2>2, TotalMonotonic
  <1>4. ASSUME \A n \in 1..Len(a) : Len(a[n].ts) <= Len(b[n].ts)
        PROVE  PointsOf(a) <= PointsOf(b)
    <2> DEFINE s == [n \in 1..Len(a) |-> Len(a[n].ts)]
               t == [n \in 1..Len(a) |-> Len(b[n].ts)]
    <2>1. s \in [1..Len(a) -> Nat] /\ t \in [1..Len(a) -> Nat]
          /\ \A n \in 1..Len(a) : s[n] <= t[n]
      BY <1>1, <1>2, <1>4
    <2>2. PointsOf(a) = Total(s) /\ PointsOf(b) = Total(t)
      BY <1>1 DEF PointsOf
    <2> HIDE DEF s, t
    <2>3. QED
      BY <1>3, <2>1, <2>2
  <1>5. ASSUME \A n \in 1..Len(a) : a[n].dropped <= b[n].dropped
        PROVE  DropsOf(a) <= DropsOf(b)
    <2> DEFINE s == [n \in 1..Len(a) |-> a[n].dropped]
               t == [n \in 1..Len(a) |-> b[n].dropped]
    <2>1. s \in [1..Len(a) -> Nat] /\ t \in [1..Len(a) -> Nat]
          /\ \A n \in 1..Len(a) : s[n] <= t[n]
      BY <1>1, <1>2, <1>5
    <2>2. DropsOf(a) = Total(s) /\ DropsOf(b) = Total(t)
      BY <1>1 DEF DropsOf
    <2> HIDE DEF s, t
    <2>3. QED
      BY <1>3, <2>1, <2>2
  <1>6. QED
    BY <1>4, <1>5

\* Without a cutoff, or in milliseconds, the analysis counts what the import
\* does.
LEMMA SameCounts ==
    ASSUME scenario \in Scenario, \A l \in Lines : l.labels # NoLabels, NEW cutoff \in Int,
           cutoff <= 0 \/ GuessedIn({"milliseconds"})
    PROVE  /\ PointsOf(Analyzed(cutoff)) = PointsOf(Streamed(cutoff))
           /\ DropsOf(Analyzed(cutoff)) = DropsOf(Streamed(cutoff))
           /\ SkipsOf(Analyzed(cutoff)) = SkipsOf(Streamed(cutoff))
  <1> DEFINE p == Analyzed(cutoff)
             i == Streamed(cutoff)
             N == 1..Len(bundle.lines)
  <1>1. /\ p \in Seq(Outcome) /\ i \in Seq(Outcome) /\ config \in Config
        /\ DOMAIN p = N /\ DOMAIN i = N
    <2>1. /\ p \in Seq(Outcome) /\ Len(p) = Len(bundle.lines)
          /\ i \in Seq(Outcome) /\ Len(i) = Len(bundle.lines)
      BY OutcomesOf
    <2> HIDE DEF p, i
    <2>2. DOMAIN p = 1..Len(p) /\ DOMAIN i = 1..Len(i)
      BY <2>1
    <2>3. QED
      BY <2>1, <2>2, ScenarioTyped
  <1>2. ASSUME NEW n \in N
        PROVE  Len(p[n].ts) = Len(i[n].ts) /\ p[n].dropped = i[n].dropped
    <2> DEFINE line == bundle.lines[n]
    <2>1. /\ line \in Line /\ line \in Lines
          /\ p[n] = LineFrom(line, line.ts, config, cutoff)
          /\ i[n] = LineFrom(line, Normalize(line.ts), config, cutoff)
      BY OutcomesOf
    <2>2. cutoff <= 0 \/ Guessed(line, {"milliseconds"})
      BY <2>1 DEF GuessedIn, Guessed
    <2> HIDE DEF line
    <2>3. Kept(line, line.ts, cutoff) = Kept(line, Normalize(line.ts), cutoff)
      BY <2>1, <2>2, KeptOfBoth
    <2>4. /\ line.ts \in Seq(Int) /\ Normalize(line.ts) \in Seq(Int)
          /\ Len(Normalize(line.ts)) = Len(line.ts)
      BY <2>1, LineTimes, NormalizeFacts
    <2>5. QED
      BY <1>1, <2>1, <2>3, <2>4, KeepingSame
  <1>3. \A n \in N : p[n].ts = <<>> <=> i[n].ts = <<>>
    <2> HIDE DEF p, i, N
    <2>1. \A n \in N : p[n].ts \in Seq(Int) /\ i[n].ts \in Seq(Int)
      <3>1. \A o \in Outcome : o.ts \in Seq(Int)
        BY DEF Outcome
      <3>2. \A n \in N : p[n] \in Outcome /\ i[n] \in Outcome
        BY <1>1
      <3>3. QED
        BY <3>1, <3>2
    <2>2. \A s \in Seq(Int) : s = <<>> <=> Len(s) = 0
      OBVIOUS
    <2>3. QED
      BY <1>2, <2>1, <2>2
  <1> HIDE DEF p, i, N
  <1>4. [n \in N |-> Len(p[n].ts)] = [n \in N |-> Len(i[n].ts)]
    BY <1>2
  <1>5. [n \in N |-> p[n].dropped] = [n \in N |-> i[n].dropped]
    BY <1>2
  <1>6. {n \in N : p[n].ts = <<>>} = {n \in N : i[n].ts = <<>>}
    BY <1>3
  <1>7. PointsOf(p) = PointsOf(i) /\ DropsOf(p) = DropsOf(i) /\ SkipsOf(p) = SkipsOf(i)
    BY <1>1, <1>4, <1>5, <1>6 DEF PointsOf, DropsOf, SkipsOf
  <1>8. QED
    BY <1>7 DEF p, i

\* In seconds the analysis drops no less than the import.
LEMMA DropsMore ==
    ASSUME scenario \in Scenario, \A l \in Lines : l.labels # NoLabels, NEW cutoff \in Int,
           GuessedIn({"seconds", "milliseconds"})
    PROVE  DropsOf(Streamed(cutoff)) <= DropsOf(Analyzed(cutoff))
  <1> DEFINE p == Analyzed(cutoff)
             i == Streamed(cutoff)
             N == 1..Len(bundle.lines)
  <1>1. /\ p \in Seq(Outcome) /\ i \in Seq(Outcome) /\ config \in Config
        /\ Len(p) = Len(bundle.lines) /\ Len(i) = Len(bundle.lines)
    BY OutcomesOf, ScenarioTyped
  <1>2. ASSUME NEW n \in N
        PROVE  i[n].dropped <= p[n].dropped
    <2> DEFINE line == bundle.lines[n]
    <2>1. /\ line \in Line /\ line \in Lines
          /\ p[n] = LineFrom(line, line.ts, config, cutoff)
          /\ i[n] = LineFrom(line, Normalize(line.ts), config, cutoff)
      BY OutcomesOf
    <2>2. Guessed(line, {"seconds", "milliseconds"})
      BY <2>1 DEF GuessedIn, Guessed
    <2> HIDE DEF line
    <2>3. Kept(line, line.ts, cutoff) \subseteq Kept(line, Normalize(line.ts), cutoff)
      BY <2>1, <2>2, KeptOfBoth
    <2>4. /\ line.ts \in Seq(Int) /\ Normalize(line.ts) \in Seq(Int)
          /\ Len(Normalize(line.ts)) = Len(line.ts)
      BY <2>1, LineTimes, NormalizeFacts
    <2>5. QED
      BY <1>1, <2>1, <2>3, <2>4, KeepingLess
  <1> HIDE DEF p, i
  <1>3. DropsOf(i) <= DropsOf(p)
    BY <1>1, <1>2, SumsGrow
  <1>4. QED
    BY <1>3 DEF p, i

\* In milliseconds and smaller units, and with a cutoff that is the same or
\* later, the import drops no less than the analysis, and sends no more if
\* all of the values encode.
LEMMA SendsLess ==
    ASSUME scenario \in Scenario, \A l \in Lines : l.labels # NoLabels,
           NEW earlier \in Int, NEW later \in Int, earlier <= later,
           GuessedIn({"milliseconds", "microseconds", "nanoseconds"})
    PROVE  /\ DropsOf(Analyzed(earlier)) <= DropsOf(Streamed(later))
           /\ (\A l \in Lines : Encodes(l, DOMAIN l.values)) =>
                PointsOf(Streamed(later)) <= PointsOf(Analyzed(earlier))
  <1> DEFINE p == Analyzed(earlier)
             i == Streamed(later)
             N == 1..Len(bundle.lines)
  <1>1. /\ p \in Seq(Outcome) /\ i \in Seq(Outcome) /\ config \in Config
        /\ Len(p) = Len(bundle.lines) /\ Len(i) = Len(bundle.lines)
    BY OutcomesOf, ScenarioTyped
  <1>2. ASSUME NEW n \in N
        PROVE  /\ p[n].dropped <= i[n].dropped
               /\ (\A l \in Lines : Encodes(l, DOMAIN l.values)) =>
                    Len(i[n].ts) <= Len(p[n].ts)
    <2> DEFINE line == bundle.lines[n]
    <2>1. /\ line \in Line /\ line \in Lines
          /\ p[n] = LineFrom(line, line.ts, config, earlier)
          /\ i[n] = LineFrom(line, Normalize(line.ts), config, later)
      BY OutcomesOf
    <2>2. Guessed(line, {"milliseconds", "microseconds", "nanoseconds"})
      BY <2>1 DEF GuessedIn, Guessed
    <2> HIDE DEF line, p, i
    <2>3. /\ line.ts \in Seq(Int) /\ Normalize(line.ts) \in Seq(Int)
          /\ Len(Normalize(line.ts)) = Len(line.ts)
      BY <2>1, LineTimes, NormalizeFacts
    <2>4. Kept(line, Normalize(line.ts), later) \subseteq Kept(line, line.ts, earlier)
      <3>1. Kept(line, Normalize(line.ts), later) \subseteq Kept(line, line.ts, later)
        BY <2>1, <2>2, KeptOfBoth
      <3>2. Kept(line, line.ts, later) \subseteq Kept(line, line.ts, earlier)
        BY <2>3, KeptFacts
      <3>3. QED
        BY <3>1, <3>2
    <2>5. QED
      BY <1>1, <2>1, <2>3, <2>4, KeepingLess
  <1> HIDE DEF p, i
  <1>3. /\ DropsOf(p) <= DropsOf(i)
        /\ (\A l \in Lines : Encodes(l, DOMAIN l.values)) => PointsOf(i) <= PointsOf(p)
    BY <1>1, <1>2, SumsGrow
  <1>4. QED
    BY <1>3 DEF p, i

\* Of a bundle in seconds, with a cutoff that is a date in milliseconds, the
\* analysis keeps nothing.
LEMMA SecondsVanish ==
    ASSUME scenario \in Scenario, \A l \in Lines : l.labels # NoLabels, NEW cutoff \in Int,
           cutoff >= FromMillis, \A l \in Lines : AllIn(l, "seconds")
    PROVE  PointsOf(Analyzed(cutoff)) = 0
  <1> DEFINE N == 1..Len(bundle.lines)
             p == Analyzed(cutoff)
             s == [n \in DOMAIN p |-> Len(p[n].ts)]
  <1>1. p \in Seq(Outcome) /\ DOMAIN p = N /\ Len(bundle.lines) \in Nat
    <2>1. p \in Seq(Outcome) /\ Len(p) = Len(bundle.lines)
      BY OutcomesOf
    <2> HIDE DEF p
    <2>2. DOMAIN p = 1..Len(p) /\ Len(p) \in Nat
      BY <2>1
    <2>3. QED
      BY <2>1, <2>2
  <1>2. ASSUME NEW n \in N
        PROVE  p[n].ts = <<>>
    <2> DEFINE line == bundle.lines[n]
    <2>1. /\ line \in Line /\ line \in Lines
          /\ p[n] = LineFrom(line, line.ts, config, cutoff)
      BY OutcomesOf
    <2> HIDE DEF line
    <2>2. AllIn(line, "seconds")
      BY <2>1
    <2>3. QED
      BY <2>1, <2>2, NothingOfSeconds
  <1> HIDE DEF p
  <1>3. s = [n \in N |-> 0]
    BY <1>1, <1>2
  <1>4. s \in Seq(Nat) /\ Len(s) = Len(bundle.lines) /\ \A n \in 1..Len(s) : s[n] = 0
    BY <1>1, <1>3
  <1> HIDE DEF s
  <1>5. Total(s) = 0
    BY <1>4, TotalOfZeros
  <1>6. QED
    BY <1>5 DEF PointsOf, s, p

\* For any bundles, settings and targets, and any thresholds of the units: a
\* preflight of a whole bundle whose lines have labels predicts the import.
\* Without a cutoff, or in milliseconds, their counts are the same; in other
\* units the preflight errs on the side that the unit says, because it trims
\* before it normalizes, and of a bundle in seconds it keeps nothing.
THEOREM PreflightAlwaysPredicts == Spec => []PreflightPredicts
  <1>1. PreflightTypeOK /\ Computed => PreflightPredicts
    <2> SUFFICES ASSUME PreflightTypeOK, Computed, Imported, preflight # None, preflight.full,
                        \A l \in Lines : l.labels # NoLabels
                 PROVE  PreflightPredicts
      BY DEF PreflightPredicts
    <2>1. preflight \in Answers /\ import \in Sends /\ scenario \in Scenario
      BY DEF PreflightTypeOK, Answers, Sends, Imported, None
    <2>2. PICK p, i : p = preflight.summary /\ i = import.summary
      OBVIOUS
    <2>3. p \in Summary /\ i \in Summary
      BY <2>1, <2>2 DEF Answers, Sends
    <2>4. PICK a, b : a = p.cutoff /\ b = i.cutoff
      OBVIOUS
    <2>5. a \in Int /\ b \in Int
      BY <2>3, <2>4 DEF Summary
    <2>6. p = FullAnalysis(a) /\ i = ImportSummary(b)
      BY <2>2, <2>4 DEF Computed
    <2>7. /\ p.points = PointsOf(Analyzed(a)) /\ i.points = PointsOf(Streamed(b))
          /\ p.dropped = DropsOf(Analyzed(a)) /\ i.dropped = DropsOf(Streamed(b))
          /\ p.skipped = SkipsOf(Analyzed(a)) /\ i.skipped = SkipsOf(Streamed(b))
          /\ a = b => p.over = i.over
      BY <2>6, SummaryCounts
    <2>8. ASSUME a = b
          PROVE  /\ p.over = i.over
                 /\ a <= 0 \/ GuessedIn({"milliseconds"}) =>
                      <<p.points, p.dropped, p.skipped>> = <<i.points, i.dropped, i.skipped>>
                 /\ GuessedIn({"seconds", "milliseconds"}) => p.dropped >= i.dropped
                 /\ GuessedIn({"milliseconds", "microseconds", "nanoseconds"}) =>
                      p.dropped <= i.dropped
      <3>1. a <= a
        BY <2>5
      <3>2. a <= 0 \/ GuessedIn({"milliseconds"}) =>
              <<p.points, p.dropped, p.skipped>> = <<i.points, i.dropped, i.skipped>>
        BY <2>1, <2>5, <2>7, <2>8, SameCounts
      <3>3. GuessedIn({"seconds", "milliseconds"}) => p.dropped >= i.dropped
        BY <2>1, <2>5, <2>7, <2>8, DropsMore
      <3>4. GuessedIn({"milliseconds", "microseconds", "nanoseconds"}) =>
              p.dropped <= i.dropped
        BY <2>1, <2>5, <2>7, <2>8, <3>1, SendsLess
      <3>5. QED
        BY <2>7, <2>8, <3>2, <3>3, <3>4
    <2>9. a >= FromMillis /\ (\A l \in Lines : AllIn(l, "seconds")) => p.points = 0
      BY <2>1, <2>5, <2>7, SecondsVanish
    <2>10. /\ a <= b
           /\ GuessedIn({"milliseconds", "microseconds", "nanoseconds"})
           /\ \A l \in Lines : Encodes(l, DOMAIN l.values)
           => i.points <= p.points
      BY <2>1, <2>5, <2>7, SendsLess
    <2>11. QED
      BY <2>2, <2>4, <2>8, <2>9, <2>10 DEF PreflightPredicts
  <1>2. QED
    BY <1>1, ComputedInvariant, PTL


\* What the import has made of each line.
LEMMA SentLine ==
    ASSUME PreflightTypeOK, Computed, Imported
    PROVE  /\ scenario \in Scenario /\ config \in Config
           /\ import.summary.cutoff \in Int
           /\ import.sent \in Seq(Outcome)
           /\ \A n \in DOMAIN import.sent :
                /\ bundle.lines[n] \in Line /\ bundle.lines[n] \in Lines
                /\ import.sent[n] = ImportLine(bundle.lines[n], config, import.summary.cutoff)
  <1>1. import \in Sends /\ scenario \in Scenario
    BY DEF PreflightTypeOK, Sends, Imported, None
  <1>2. import.summary \in Summary /\ import.sent \in Seq(Outcome)
    BY <1>1 DEF Sends
  <1>3. PICK cutoff : cutoff = import.summary.cutoff
    OBVIOUS
  <1>4. cutoff \in Int
    BY <1>2, <1>3 DEF Summary
  <1>5. import.sent = Streamed(cutoff)
    BY <1>3 DEF Computed
  <1>6. \A n \in DOMAIN import.sent :
          /\ bundle.lines[n] \in Line /\ bundle.lines[n] \in Lines
          /\ import.sent[n] = ImportLine(bundle.lines[n], config, cutoff)
    BY <1>1, <1>5, BundleLines DEF Streamed
  <1>7. QED
    BY <1>1, <1>2, <1>3, <1>4, <1>6, ScenarioTyped

\* For any bundles, settings and targets, and any thresholds of the units:
\* what an import sends of a line of one unit is in milliseconds and not
\* older than the cutoff.
THEOREM SentAlwaysTrimmed == Spec => []SentIsTrimmed
  <1>1. PreflightTypeOK /\ Computed => SentIsTrimmed
    <2> SUFFICES ASSUME PreflightTypeOK, Computed, Imported,
                        NEW n \in DOMAIN import.sent, OneUnit(bundle.lines[n]),
                        NEW t \in Range(import.sent[n].ts)
                 PROVE  /\ Unit(t - config.shift) = "milliseconds"
                        /\ import.summary.cutoff > 0 =>
                             t - config.shift >= import.summary.cutoff
      BY DEF SentIsTrimmed
    <2>1. /\ config \in Config /\ import.summary.cutoff \in Int /\ bundle.lines[n] \in Line
          /\ import.sent[n] = ImportLine(bundle.lines[n], config, import.summary.cutoff)
      BY SentLine
    <2>2. Clean(import.sent[n].ts, config.shift, import.summary.cutoff)
      BY <2>1, ImportLineFacts
    <2>3. \E k \in DOMAIN import.sent[n].ts : t = import.sent[n].ts[k]
      BY DEF Range
    <2>4. QED
      BY <2>2, <2>3 DEF Clean
  <1>2. QED
    BY <1>1, ComputedInvariant, PTL

\* In order, the first point of a line is its earliest and the last its latest.
LEMMA EndsOfLine ==
    ASSUME NEW ts \in Seq(Int), ts # <<>>, Ordered(ts), NEW t \in Range(ts)
    PROVE  /\ Head(ts) \in Int /\ Last(ts) \in Int
           /\ Head(ts) <= t /\ t <= Last(ts)
  <1>1. PICK k \in DOMAIN ts : t = ts[k]
    BY DEF Range
  <1>2. DOMAIN ts = 1..Len(ts) /\ Len(ts) \in Nat /\ 1 \in DOMAIN ts /\ Len(ts) \in DOMAIN ts
    OBVIOUS
  <1>3. Head(ts) = ts[1] /\ Last(ts) = ts[Len(ts)]
    BY DEF Last
  <1>4. \A i, j \in DOMAIN ts : i < j => ts[i] <= ts[j]
    BY DEF Ordered
  <1>5. \A i \in DOMAIN ts : ts[i] \in Int
    OBVIOUS
  <1>6. ts[1] <= ts[k]
    <2>1. CASE k = 1
      BY <1>2, <1>5, <2>1
    <2>2. CASE k # 1
      <3>1. 1 < k
        BY <1>2, <2>2
      <3>2. QED
        BY <1>2, <1>4, <3>1
    <2>3. QED
      BY <2>1, <2>2
  <1>7. ts[k] <= ts[Len(ts)]
    <2>1. CASE k = Len(ts)
      BY <1>2, <1>5, <2>1
    <2>2. CASE k # Len(ts)
      <3>1. k < Len(ts)
        BY <1>2, <2>2
      <3>2. QED
        BY <1>2, <1>4, <3>1
    <2>3. QED
      BY <2>1, <2>2
  <1>8. QED
    BY <1>1, <1>2, <1>3, <1>5, <1>6, <1>7

\* Sorted times are in order.
LEMMA SortedIsOrdered ==
    ASSUME NEW s \in Seq(Int), IsSorted(s, <=)
    PROVE  Ordered(s)
  <1>1. \A i, j \in 1..Len(s) : i < j => s[i] <= s[j]
    BY DEF IsSorted
  <1>2. QED
    BY ONLY <1>1, s \in Seq(Int) DEF Ordered

\* Every line is in order of time.
LinesOrdered == \A l \in Lines : Ordered(l.ts)

\* As it is when the timestamps of every line are sorted.
LEMMA SortedLines ==
    ASSUME scenario \in Scenario, \A l \in Lines : IsSorted(l.ts, <=)
    PROVE  LinesOrdered
  <1>1. \A l \in Lines : l.ts \in Seq(Int)
    BY ONLY scenario \in Scenario, BundleLines, LineTimes
  <1>2. ASSUME NEW l \in Lines
        PROVE  Ordered(l.ts)
    <2>1. IsSorted(l.ts, <=)
      BY Zenon
    <2>2. QED
      BY <1>1, <2>1, SortedIsOrdered, Zenon
  <1>3. QED
    BY ONLY <1>2 DEF LinesOrdered

\* The window of the verification has every point sent of such lines.
LEMMA WindowCovers ==
    ASSUME PreflightTypeOK, Computed, Imported, LinesOrdered,
           \A t \in Times(import.sent) : t > 0, NEW t \in Times(import.sent)
    PROVE  import.summary.range # <<>> /\ t \in Window(import.summary.range)
  <1> DEFINE sent == import.sent
             range == import.summary.range
  <1>1. scenario \in Scenario /\ config \in Config /\ sent \in Seq(Outcome)
    BY SentLine
  <1>2. range = ImportRange(sent)
    <2>1. PICK cutoff : cutoff = import.summary.cutoff
      OBVIOUS
    <2>2. sent = Streamed(cutoff) /\ import.summary = ImportSummary(cutoff)
      BY <2>1 DEF Computed
    <2>3. ImportSummary(cutoff).range = ImportRange(Streamed(cutoff))
      BY DEF ImportSummary, SummaryOf
    <2>4. QED
      BY <2>2, <2>3
  <1>3. PICK n \in DOMAIN sent : t \in Range(sent[n].ts)
    BY DEF Times
  <1> DEFINE ts == sent[n].ts
  <1>4. ts \in Seq(Int) /\ Ordered(ts)
    <2>1. /\ bundle.lines[n] \in Line /\ bundle.lines[n] \in Lines
          /\ sent[n] = ImportLine(bundle.lines[n], config, import.summary.cutoff)
          /\ import.summary.cutoff \in Int
      BY SentLine
    <2>2. Ordered(bundle.lines[n].ts)
      BY <2>1 DEF LinesOrdered
    <2>3. QED
      BY <1>1, <2>1, <2>2, ImportLineFacts
  <1>5. ts # <<>>
    BY <1>3 DEF Range
  <1>6. /\ Head(ts) \in Int /\ Last(ts) \in Int /\ t \in Int
        /\ Head(ts) <= t /\ t <= Last(ts)
    <2>1. t \in Int
      BY <1>3, <1>4 DEF Range
    <2>2. QED
      BY <1>3, <1>4, <1>5, <2>1, EndsOfLine
  <1>7. /\ range # <<>> /\ range[1] \in Int /\ range[2] \in Int
        /\ range[1] <= Head(ts) /\ Last(ts) <= range[2]
    BY <1>1, <1>2, <1>5, ImportRangeFacts
  <1> HIDE DEF ts, sent, range
  <1>8. /\ Minute \in Nat
        /\ range[1] - Minute <= t /\ t <= range[2] + Minute
    BY <1>6, <1>7, TimeAssumption, SMTT(30)
  <1>9. QED
    BY <1>6, <1>7, <1>8 DEF Window, range

\* The labels that identify a series are some of its own.
LEMMA SubsetsAreOwn ==
    ASSUME NEW labels, NEW subset \in LabelSubsets(labels), NEW name \in DOMAIN subset
    PROVE  ValueOf(labels, name) = subset[name]
  <1>1. PICK N : N \subseteq Names(labels) /\ subset = Restrict(labels, N)
    <2> DEFINE preferred == Names(labels) \intersect Preferred
               visible   == Names(labels) \ Hidden
               k         == Min({3, Cardinality(visible)})
    <2>1. CASE preferred # {}
      BY <2>1 DEF LabelSubsets
    <2>2. CASE preferred = {}
      <3>1. subset \in {Restrict(labels, N) : N \in kSubset(k, visible)}
        BY <2>2 DEF LabelSubsets
      <3> HIDE DEF k
      <3>2. QED
        BY <3>1 DEF kSubset
    <2>3. QED
      BY <2>1, <2>2
  <1>2. name \in N /\ subset[name] = labels[name]
    BY <1>1 DEF Restrict
  <1>3. QED
    BY <1>1, <1>2 DEF ValueOf

\* The lines sent have numbers, and points.
LEMMA SentAreNumbered ==
    ASSUME import.sent \in Seq(Outcome)
    PROVE  /\ SentLines \subseteq Nat
           /\ \A i \in SentLines : /\ i \in DOMAIN import.sent
                                   /\ import.sent[i].ts \in Seq(Int)
                                   /\ 1 \in DOMAIN import.sent[i].ts
  <1>1. \A s \in Seq(Outcome) : /\ DOMAIN s \subseteq Nat
                                /\ \A i \in DOMAIN s : s[i] \in Outcome
    OBVIOUS
  <1>2. \A o \in Outcome : o.ts \in Seq(Int)
    BY DEF Outcome
  <1>3. \A s \in Seq(Int) : s # <<>> => 1 \in DOMAIN s
    OBVIOUS
  <1>4. /\ DOMAIN import.sent \subseteq Nat
        /\ \A i \in DOMAIN import.sent : import.sent[i] \in Outcome
    BY ONLY <1>1, import.sent \in Seq(Outcome), Zenon
  <1>5. \A i \in SentLines : i \in DOMAIN import.sent /\ import.sent[i].ts # <<>>
    BY DEF SentLines
  <1>6. QED
    BY <1>2, <1>3, <1>4, <1>5

\* The first line sent is the first of those with a name, if it has one; so
\* its own name and its own labels are looked for.
LEMMA FirstMatches ==
    ASSUME import.sent \in Seq(Outcome), SentLines # {},
           NameOf(Min(SentLines)) # "", NEW subset \in FirstSubsets
    PROVE  /\ Min(SentLines) \in SentLines
           /\ MetricName # ""
           /\ Matches(Min(SentLines), subset)
  <1> DEFINE first == Min(SentLines)
             named == {i \in SentLines : NameOf(i) # ""}
  <1>1. SentLines \subseteq Nat
    BY SentAreNumbered
  <1>2. PICK least \in SentLines : \A j \in SentLines : least <= j
    BY <1>1, Least
  <1>3. first \in SentLines /\ \A j \in SentLines : first <= j
    BY <1>2 DEF Min
  <1>4. named \subseteq SentLines /\ first \in named
    BY <1>3
  <1>5. Min(named) \in named /\ \A j \in named : Min(named) <= j
    BY <1>3, <1>4 DEF Min
  <1> HIDE DEF named, first
  <1>6. Min(named) = first
    <2>1. PICK m : m = Min(named)
      OBVIOUS
    <2>2. m <= first /\ first <= m /\ m \in Nat /\ first \in Nat
      BY <1>1, <1>3, <1>4, <1>5, <2>1
    <2>3. m = first
      BY ONLY <2>2
    <2>4. QED
      BY <2>1, <2>3
  <1>7. MetricName = NameOf(first)
    BY <1>4, <1>6 DEF MetricName, named
  <1>8. subset \in LabelSubsets(import.sent[first].labels)
    BY DEF FirstSubsets, first
  <1>9. \A name \in DOMAIN subset : ValueOf(import.sent[first].labels, name) = subset[name]
    BY <1>8, SubsetsAreOwn
  <1>10. QED
    BY <1>3, <1>7, <1>9 DEF Matches, first

\* And its points are in the window.
LEMMA FirstIsSeen ==
    ASSUME PreflightTypeOK, Computed, Imported, LinesOrdered,
           \A t \in Times(import.sent) : t > 0,
           SentLines # {}, NameOf(Min(SentLines)) # "", NEW subset \in FirstSubsets
    PROVE  Seen(subset)
  <1>1. import.sent \in Seq(Outcome)
    BY SentLine
  <1>2. PICK i \in SentLines : Matches(i, subset) /\ MetricName # ""
    BY <1>1, FirstMatches
  <1> DEFINE ts == import.sent[i].ts
  <1>3. i \in DOMAIN import.sent /\ 1 \in DOMAIN ts
    BY <1>1, <1>2, SentAreNumbered
  <1>4. ts[1] \in Range(ts)
    BY <1>3 DEF Range
  <1>5. ts[1] \in Times(import.sent)
    BY <1>3, <1>4 DEF Times
  <1>6. import.summary.range # <<>> /\ ts[1] \in Window(import.summary.range)
    BY <1>5, WindowCovers
  <1> HIDE DEF ts
  <1>7. Range(ts) \intersect Window(import.summary.range) # {}
    BY <1>4, <1>6
  <1>8. QED
    BY <1>2, <1>6, <1>7 DEF Seen, ts

\* For any bundles, settings and targets, and any thresholds of the units:
\* the window of the verification has every point sent, and what was sent is
\* found in it if the first line sent has a name, whichever of its labels
\* are looked for.
THEOREM WindowAlwaysCovers == Spec => []WindowCoversImport
  <1>1. PreflightTypeOK /\ Computed => WindowCoversImport
    <2>1. PreflightTypeOK => scenario \in Scenario
      BY DEF PreflightTypeOK
    <2>2. scenario \in Scenario /\ (\A l \in Lines : IsSorted(l.ts, <=)) => LinesOrdered
      BY SortedLines, Zenon
    <2>3. /\ PreflightTypeOK /\ Computed /\ Imported /\ LinesOrdered
          /\ \A t \in Times(import.sent) : t > 0
          => \A t \in Times(import.sent) : t \in Window(import.summary.range)
      BY WindowCovers
    <2>4. /\ PreflightTypeOK /\ Computed /\ Imported /\ LinesOrdered
          /\ \A t \in Times(import.sent) : t > 0
          /\ SentLines # {} /\ NameOf(Min(SentLines)) # ""
          => \A subset \in FirstSubsets : Seen(subset)
      BY FirstIsSeen
    <2>5. QED
      BY <2>1, <2>2, <2>3, <2>4, Zenon DEF WindowCoversImport
  <1>2. QED
    BY <1>1, ComputedInvariant, PTL
=============================================================================
