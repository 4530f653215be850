---------------------------- MODULE Obfuscation ----------------------------
(***************************************************************************)
(* The labels of an export with obfuscation on: Obfuscator                 *)
(* (obfuscation/obfuscator.go) and the way ExecuteExport uses it.  Every   *)
(* run of an export has an obfuscator of its own; all attempts of the run  *)
(* share it, those whose output is thrown away too; and a resumed run      *)
(* appends to what the runs before it have written.                        *)
(***************************************************************************)
EXTENDS Integers, FiniteSets

CONSTANTS
    Instance, JobName, Component, Label, Value,  \* what metrics are labelled with
    Hashed(_),   \* instances without a port, which are replaced by a hash
    Port(_),     \* the port of any other instance
    Metric,      \* the metrics the backend may return
    None,        \* a label a metric does not have; a name not mapped yet
    OctetSize,   \* how many values an octet of the fake addresses takes (255)
    ResumeBound  \* how often the export is resumed

ASSUME OctetAssumption == OctetSize \in Nat \ {0}
ASSUME ResumeAssumption == ResumeBound \in Nat
ASSUME NoneAssumption ==
    /\ None \notin Instance \union JobName \union Component \union Value
    /\ \A i \in Instance : Hashed(i) \in BOOLEAN
ASSUME MetricAssumption ==
    Metric \subseteq [instance : Instance \union {None}, job : JobName \union {None},
                      component : Component \union {None}, named : BOOLEAN,
                      custom : [Label -> Value \union {None}]]

VARIABLES
    instanceMap, instanceCounter,  \* the obfuscator of the run under way
    jobMap, jobCounter,
    customLabels, customCounters,
    attempt,   \* the labels written to the file of the attempt under way
    staging,   \* the labels written to the staging file, by any run
    resumes,   \* how often the export was resumed
    phase      \* "running" or "done"

obfuscator == <<instanceMap, instanceCounter, jobMap, jobCounter,
                customLabels, customCounters>>
vars == <<obfuscator, attempt, staging, resumes, phase>>

\* A component may be a job's name (guessComponent).
Comp == Component \union JobName \union {"unknown"}

\* A mutant: the third octet stays the same.
AddressOfOneSubnet(n, i) ==
    [third |-> 1, fourth |-> ((n - 1) % OctetSize) + 1, port |-> Port(i)]

\* "777.777.<third>.<fourth>:<port>", or the hash of an instance, which is
\* taken to be another for every instance.
Address(n, i) == [third |-> ((n - 1) \div OctetSize) + 1,
                  fourth |-> ((n - 1) % OctetSize) + 1, port |-> Port(i)]
Hash(i) == [hash |-> i]

\* "vm_component_<component>_<n>"
JobAlias(c, n) == [component |-> c, n |-> n]

Init ==
    /\ instanceMap = [i \in Instance |-> None]
    /\ instanceCounter = 0
    /\ jobMap = [j \in JobName |-> None]
    /\ jobCounter = [c \in Comp |-> 0]
    /\ customLabels = [l \in Label |-> [v \in Value |-> None]]
    /\ customCounters = [l \in Label |-> 0]
    /\ attempt = {}
    /\ staging = {}
    /\ resumes = 0
    /\ phase = "running"

----------------------------------------------------------------------------
ObfuscateInstance(i) ==
    IF i = None \/ instanceMap[i] # None
      THEN UNCHANGED <<instanceMap, instanceCounter>>
    ELSE IF Hashed(i)
      THEN /\ instanceMap' = [instanceMap EXCEPT ![i] = Hash(i)]
           /\ UNCHANGED instanceCounter
    ELSE /\ instanceCounter' = instanceCounter + 1
         /\ instanceMap' = [instanceMap EXCEPT ![i] = Address(instanceCounter + 1, i)]

\* A mutant: the counter is advanced after it is used.
ObfuscateJobFromZero(j, c) ==
    IF j = None \/ jobMap[j] # None
      THEN UNCHANGED <<jobMap, jobCounter>>
    ELSE /\ jobCounter' = [jobCounter EXCEPT ![c] = jobCounter[c] + 1]
         /\ jobMap' = [jobMap EXCEPT ![j] = JobAlias(c, jobCounter[c])]

ObfuscateJob(j, c) ==
    IF j = None \/ jobMap[j] # None
      THEN UNCHANGED <<jobMap, jobCounter>>
    ELSE /\ jobCounter' = [jobCounter EXCEPT ![c] = jobCounter[c] + 1]
         /\ jobMap' = [jobMap EXCEPT ![j] = JobAlias(c, jobCounter[c] + 1)]

\* The labels of a metric that get a new name, of which each name has its own
\* counter; the alias "<label>-<n>" is represented by n.
Fresh(custom) ==
    {l \in Label : custom[l] # None /\ customLabels[l][custom[l]] = None}

ObfuscateCustomLabels(custom) ==
    /\ customCounters' = [l \in Label |->
         IF l \in Fresh(custom) THEN customCounters[l] + 1 ELSE customCounters[l]]
    /\ customLabels' = [l \in Label |->
         IF l \in Fresh(custom)
           THEN [customLabels[l] EXCEPT ![custom[l]] = customCounters[l] + 1]
           ELSE customLabels[l]]

\* m.component: a label, or what the name hints at.  The job of a metric
\* without a name (the result of a query) is not looked at.
GuessComponent(m) ==
    IF m.component # None THEN m.component
    ELSE IF m.named /\ m.job # None THEN m.job ELSE "unknown"

\* What the line of a metric shows of its labels, with what it shows it for.
Written(m) ==
    {[label |-> "instance", original |-> m.instance, shown |-> instanceMap'[i]]
       : i \in {m.instance} \ {None}}
    \union {[label |-> "job", original |-> m.job, shown |-> jobMap'[j]]
       : j \in {m.job} \ {None}}
    \union {[label |-> l, original |-> m.custom[l], shown |-> customLabels'[l][m.custom[l]]]
       : l \in {k \in Label : m.custom[k] # None}}

\* applyObfuscation on one metric of the attempt.
ApplyObfuscation(m) ==
    /\ phase = "running"
    /\ ObfuscateInstance(m.instance)
    /\ ObfuscateJob(m.job, GuessComponent(m))
    /\ ObfuscateCustomLabels(m.custom)
    /\ attempt' = attempt \union Written(m)
    /\ UNCHANGED <<staging, resumes, phase>>

\* The attempt's output is appended to the staging file.
AttemptSucceeds ==
    /\ phase = "running"
    /\ staging' = staging \union attempt
    /\ attempt' = {}
    /\ UNCHANGED <<obfuscator, resumes, phase>>

\* A mutant: the next attempt starts with an obfuscator of its own.
AttemptFailsForgetting ==
    /\ phase = "running"
    /\ attempt' = {}
    /\ jobMap' = [j \in JobName |-> None]
    /\ UNCHANGED <<instanceMap, instanceCounter, jobCounter, customLabels,
                   customCounters, staging, resumes, phase>>

\* Its output is thrown away, and the window tried again in another way.
AttemptFails ==
    /\ phase = "running"
    /\ attempt' = {}
    /\ UNCHANGED <<obfuscator, staging, resumes, phase>>

\* The run fails or is canceled, and another one resumes the export, from the
\* first batch if none was complete: a new obfuscator.
Resume ==
    /\ resumes < ResumeBound
    /\ resumes' = resumes + 1
    /\ phase = "running"
    /\ instanceMap' = [i \in Instance |-> None]
    /\ instanceCounter' = 0
    /\ jobMap' = [j \in JobName |-> None]
    /\ jobCounter' = [c \in Comp |-> 0]
    /\ customLabels' = [l \in Label |-> [v \in Value |-> None]]
    /\ customCounters' = [l \in Label |-> 0]
    /\ attempt' = {}
    /\ staging' \in {staging, {}}
    /\ UNCHANGED phase

\* Every batch is in, and the archive is made from the staging file.
Archive ==
    /\ phase = "running"
    /\ attempt = {}
    /\ phase' = "done"
    /\ UNCHANGED <<obfuscator, attempt, staging, resumes>>

Next ==
    \/ \E m \in Metric : ApplyObfuscation(m)
    \/ AttemptSucceeds
    \/ AttemptFails
    \/ Resume
    \/ Archive

Spec == Init /\ [][Next]_vars

----------------------------------------------------------------------------
\* Addresses in use are numbered by instanceCounter, aliases of jobs by their
\* component's counter, and those of custom labels by their label's.
TypeOK ==
    /\ DOMAIN instanceMap = Instance
    /\ instanceCounter \in Nat
    /\ \A i \in Instance :
         \/ instanceMap[i] = None
         \/ Hashed(i) /\ instanceMap[i] = Hash(i)
         \/ ~Hashed(i) /\ \E n \in 1..instanceCounter : instanceMap[i] = Address(n, i)
    /\ DOMAIN jobMap = JobName
    /\ jobCounter \in [Comp -> Nat]
    /\ \A j \in JobName :
         \/ jobMap[j] = None
         \/ \E c \in Comp : \E n \in 1..jobCounter[c] : jobMap[j] = JobAlias(c, n)
    /\ DOMAIN customLabels = Label
    /\ \A l \in Label : DOMAIN customLabels[l] = Value
    /\ customCounters \in [Label -> Nat]
    /\ \A l \in Label, v \in Value :
         customLabels[l][v] # None => customLabels[l][v] \in 1..customCounters[l]
    /\ resumes \in 0..ResumeBound
    /\ phase \in {"running", "done"}

\* Two names never share an alias: instances do not even share an address,
\* beyond the 255 * 255 first ones too, nor jobs of different components.
AliasesDistinct ==
    /\ \A i, k \in Instance :
         instanceMap[i] # None /\ instanceMap[i] = instanceMap[k] => i = k
    /\ \A j, k \in JobName : jobMap[j] # None /\ jobMap[j] = jobMap[k] => j = k
    /\ \A l \in Label : \A v, w \in Value :
         customLabels[l][v] # None /\ customLabels[l][v] = customLabels[l][w] => v = w

\* Once given, an alias stays: a run renames a label in one way, however many
\* of its attempts failed, and whichever component the metric hints at.
AliasesStable ==
    [][resumes' = resumes =>
         /\ \A i \in Instance : instanceMap[i] # None => instanceMap'[i] = instanceMap[i]
         /\ \A j \in JobName : jobMap[j] # None => jobMap'[j] = jobMap[j]]_vars

\* What a file shows: one alias per name, and one name per alias.
OneToOne(labels) ==
    \A x, y \in labels :
        x.label = y.label => (x.original = y.original <=> x.shown = y.shown)

\* "the same input within a session maps to the same output so support can
\* correlate metrics" (docs/architecture.md), for the archive of any export.
ArchiveCorrelates == phase = "done" => OneToOne(staging)
=============================================================================
