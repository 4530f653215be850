--------------------------- MODULE RecentProfiles ---------------------------
(***************************************************************************)
(* The importer's list of recently used connection settings                *)
(* (internal/importer/server/server.go: saveRecentProfile,                 *)
(* loadRecentProfiles, persistRecentProfilesLocked): most recent first, in *)
(* memory, and in one file of the user's cache directory that every        *)
(* importer process of this user shares.                                   *)
(*                                                                         *)
(* A profile stands for its ID, the hash of all of its settings.  A list   *)
(* that another version has left in the file may name some twice, or have  *)
(* entries without an ID.  The file is replaced by writing a temporary     *)
(* file of a fixed name and renaming it; a process that has the temporary  *)
(* file open keeps writing to the same inode after another has renamed it. *)
(***************************************************************************)
EXTENDS Integers, Sequences, FiniteSets

CONSTANTS
    Importer,           \* processes
    Profile,            \* the IDs of profiles; one that cannot be built is blank
    Nameless,           \* profiles in the file without an ID
    RebuiltId,          \* RebuiltId[e]: the ID that buildRecentProfile gives e
    MaxRecentProfiles,
    Inode,              \* files the two paths may name
    Legacy,             \* lists that another version may have left in the file
    NoFile,
    Empty,              \* the contents of a file as opened with O_TRUNC
    Torn,               \* contents that are not the JSON of a list
    CrashBound,         \* bound: crashes
    SaveBound           \* bound: saves of all processes

Entry == Profile \union Nameless

ASSUME ListAssumption ==
    /\ MaxRecentProfiles \in Nat \ {0, 1}
    /\ Profile \intersect Nameless = {}
    /\ RebuiltId \in [Nameless -> Profile]
    /\ Legacy \subseteq Seq(Entry)
ASSUME InodeAssumption == NoFile \notin Inode \union Importer

VARIABLES
    profiles,   \* profiles[s]: s.profiles of process s
    saver,      \* saver[s]: where process s is in persistRecentProfilesLocked
    path,       \* the inode the profiles file names
    tmpPath,    \* the inode its temporary file names
    disk,       \* the contents of the inodes
    legacy,      \* history: the list that was in the file at first
    saved,       \* history: the list of the last save that was renamed
    savedBy,     \* history: and the process that did it
    whole,       \* history: that save had the temporary file to itself
    overlapped,  \* history: those who write now have not
    unpersisted, \* history: processes whose last save was not persisted
    crashes, saves

profileVars == <<profiles, saver, path, tmpPath, disk, legacy, saved, savedBy, whole,
                 overlapped, unpersisted, crashes, saves>>

Lists == Seq(Profile)
Files == {Empty, Torn} \union Seq(Entry)
Saver == [at : {"down", "idle", "opening", "writing", "renaming"},
          fd : Inode \union {NoFile}]
Up(s) == saver[s].at # "down"
Writing == {s \in Importer : saver[s].at \in {"writing", "renaming"}}

\* The profiles that l names more than once.
Repeated(l) == {l[i] : i \in {k \in 1..Len(l) : \E j \in 1..Len(l) : j # k /\ l[j] = l[k]}}

ProfilesTypeOK ==
    /\ profiles \in [Importer -> Lists]
    /\ saver \in [Importer -> Saver]
    /\ \A s \in Importer : saver[s].fd # NoFile <=> s \in Writing
    /\ path \in Inode \union {NoFile}
    /\ tmpPath \in Inode \union {NoFile}
    /\ path = tmpPath => path = NoFile
    /\ disk \in [Inode -> Files]
    /\ legacy \in Lists
    /\ saved \in Seq(Entry)
    /\ savedBy \in Importer \union {NoFile}
    /\ {whole, overlapped} \subseteq BOOLEAN
    /\ unpersisted \subseteq Importer

\* What loadRecentProfiles makes of a list: profiles without an ID get one;
\* what the list repeats is not removed.
Rebuilt(l) ==
    [i \in 1..Len(l) |-> IF l[i] \in Nameless THEN RebuiltId[l[i]] ELSE l[i]]

ProfilesInit ==
    /\ profiles = [s \in Importer |-> <<>>]
    /\ saver = [s \in Importer |-> [at |-> "down", fd |-> NoFile]]
    /\ tmpPath = NoFile
    /\ \E l \in Legacy : \E i \in Inode :
         \/ /\ path = i
            /\ disk = [j \in Inode |-> IF j = i THEN l ELSE Empty]
            /\ saved = l
            /\ legacy = Rebuilt(l)
         \/ /\ path = NoFile
            /\ disk = [j \in Inode |-> Empty]
            /\ saved = <<>>
            /\ legacy = <<>>
    /\ savedBy = NoFile
    /\ whole = TRUE
    /\ overlapped = FALSE
    /\ unpersisted = {}
    /\ crashes = 0
    /\ saves = 0

----------------------------------------------------------------------------
\* loadRecentProfiles: a file that is missing or does not decode is no list.
Loaded ==
    IF path = NoFile THEN <<>>
    ELSE IF disk[path] \in {Empty, Torn} THEN <<>>
    ELSE SubSeq(Rebuilt(disk[path]), 1, IF Len(disk[path]) > MaxRecentProfiles
                                        THEN MaxRecentProfiles ELSE Len(disk[path]))

\* newServer
StartImporter(s) ==
    /\ ~Up(s)
    /\ profiles' = [profiles EXCEPT ![s] = Loaded]
    /\ saver' = [saver EXCEPT ![s].at = "idle"]
    /\ UNCHANGED <<path, tmpPath, disk, legacy, saved, savedBy, whole, overlapped,
                   unpersisted, crashes, saves>>

\* The elements of l that are not p.
OthersOf(l, p) ==
    LET others[n \in 0..Len(l)] ==
          IF n = 0 THEN <<>>
          ELSE IF l[n] = p THEN others[n - 1] ELSE Append(others[n - 1], l[n])
    IN  others[Len(l)]

\* Mutant: the profile is put in front and stays where it was.
RecentRepeated(l, p) == SubSeq(<<p>> \o l, 1,
    IF Len(l) >= MaxRecentProfiles THEN MaxRecentProfiles ELSE Len(l) + 1)

\* The list that saveRecentProfile makes of l.
Recent(l, p) ==
    LET others == OthersOf(l, p)
    IN  <<p>> \o SubSeq(others, 1, IF Len(others) >= MaxRecentProfiles
                                   THEN MaxRecentProfiles - 1 ELSE Len(others))

\* saveRecentProfile, up to the first call of persistRecentProfilesLocked
\* that can be seen outside; profilesMu is held until the save is over.
SaveRecentProfile(s, p) ==
    /\ saver[s].at = "idle"
    /\ saves < SaveBound
    /\ profiles' = [profiles EXCEPT ![s] = Recent(profiles[s], p)]
    /\ saver' = [saver EXCEPT ![s].at = "opening"]
    /\ saves' = saves + 1
    /\ UNCHANGED <<path, tmpPath, disk, legacy, saved, savedBy, whole, overlapped,
                   unpersisted, crashes>>

Unused(i) == /\ i # path
             /\ i # tmpPath
             /\ \A s \in Importer : saver[s].fd # i

\* Mutant: the file itself is opened.
OpenInPlace(s) ==
    /\ saver[s].at = "opening"
    /\ \E i \in Inode :
         /\ IF path = NoFile THEN Unused(i) ELSE i = path
         /\ path' = i
         /\ disk' = [disk EXCEPT ![i] = Empty]
         /\ saver' = [saver EXCEPT ![s] = [at |-> "writing", fd |-> i]]
    /\ overlapped' = (Writing # {})
    /\ UNCHANGED <<profiles, tmpPath, legacy, saved, savedBy, whole, unpersisted, crashes,
                   saves>>

\* os.WriteFile opens the temporary file, and truncates it if it is there.
OpenTmp(s) ==
    /\ saver[s].at = "opening"
    /\ \E i \in Inode :
         /\ IF tmpPath = NoFile THEN Unused(i) ELSE i = tmpPath
         /\ tmpPath' = i
         /\ disk' = [disk EXCEPT ![i] = Empty]
         /\ saver' = [saver EXCEPT ![s] = [at |-> "writing", fd |-> i]]
    /\ overlapped' = (Writing # {})
    /\ UNCHANGED <<profiles, path, legacy, saved, savedBy, whole, unpersisted, crashes, saves>>

\* ... and writes from the start of it: over what another process may have
\* written in the meantime, the end of which stays if it was longer.
WriteTmp(s) ==
    /\ saver[s].at = "writing"
    /\ LET fd == saver[s].fd IN
       \E after \in {profiles[s]} \union
                    (IF disk[fd] = Empty THEN {} ELSE {Torn}) :
         disk' = [disk EXCEPT ![fd] = after]
    /\ saver' = [saver EXCEPT ![s].at = "renaming"]
    /\ UNCHANGED <<profiles, path, tmpPath, legacy, saved, savedBy, whole, overlapped,
                   unpersisted, crashes, saves>>

Closed == [at |-> "idle", fd |-> NoFile]

\* The disk is full: the error is logged, the temporary file stays.
WriteFails(s) ==
    /\ saver[s].at \in {"opening", "writing"}
    /\ disk' = IF saver[s].at = "writing"
               THEN [disk EXCEPT ![saver[s].fd] = Torn] ELSE disk
    /\ saver' = [saver EXCEPT ![s] = Closed]
    /\ unpersisted' = unpersisted \union {s}
    /\ UNCHANGED <<profiles, path, tmpPath, legacy, saved, savedBy, whole, overlapped,
                   crashes, saves>>

\* os.Rename of the path, whichever file it names now; an error is logged.
RenameTmp(s) ==
    /\ saver[s].at = "renaming"
    /\ IF tmpPath = NoFile
         THEN /\ unpersisted' = unpersisted \union {s}
              /\ UNCHANGED <<path, tmpPath, saved, savedBy, whole>>
         ELSE /\ path' = tmpPath
              /\ tmpPath' = NoFile
              /\ saved' = profiles[s]
              /\ savedBy' = s
              /\ whole' = ~overlapped
              /\ unpersisted' = unpersisted \ {s}
    /\ saver' = [saver EXCEPT ![s] = Closed]
    /\ UNCHANGED <<profiles, disk, legacy, overlapped, crashes, saves>>

\* The process ends, wherever it is.
Crash(s) ==
    /\ Up(s)
    /\ crashes < CrashBound
    /\ crashes' = crashes + 1
    /\ profiles' = [profiles EXCEPT ![s] = <<>>]
    /\ saver' = [saver EXCEPT ![s] = [at |-> "down", fd |-> NoFile]]
    /\ UNCHANGED <<path, tmpPath, disk, legacy, saved, savedBy, whole, overlapped,
                   unpersisted, saves>>

Persist(s) == OpenTmp(s) \/ WriteTmp(s) \/ WriteFails(s) \/ RenameTmp(s)

ProfilesNext ==
    \E s \in Importer :
      \/ StartImporter(s)
      \/ \E p \in Profile : SaveRecentProfile(s, p)
      \/ Persist(s)
      \/ Crash(s)

ProfilesSpec == ProfilesInit /\ [][ProfilesNext]_profileVars

----------------------------------------------------------------------------
\* No process ever has more profiles than it may, or repeats one that the
\* file it found at first did not repeat: over saves of the same profile,
\* files torn by another process, profiles without IDs, and restarts.
ListIsRecent ==
    \A s \in Importer : /\ Len(profiles[s]) <= MaxRecentProfiles
                        /\ Repeated(profiles[s]) \subseteq Repeated(legacy)

\* The file is what the last save that was renamed has written, whole,
\* whatever else failed or crashed half-way before it or since, if nobody
\* had the temporary file open when it did, or opened it before it renamed
\* it.  So the file also heals: the next save that has the temporary file
\* to itself undoes what two processes that wrote at once have made of it.
FileIsLastSave ==
    whole /\ path # NoFile => disk[path] = saved
=============================================================================
