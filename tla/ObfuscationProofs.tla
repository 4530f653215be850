------------------------- MODULE ObfuscationProofs -------------------------
(***************************************************************************)
(* For any number of instances, jobs and labels, and octets of any size:   *)
(* no two of them ever share an alias.  TypeOK is what makes it inductive: *)
(* an alias that is in use has a number that its counter has passed, so    *)
(* that the next number is a new one, and an alias determines its number.  *)
(***************************************************************************)
EXTENDS Obfuscation, TLAPS

\* What TypeOK and AliasesDistinct say of each of the three kinds of names.
InstancesOK ==
    /\ DOMAIN instanceMap = Instance
    /\ instanceCounter \in Nat
    /\ \A i \in Instance :
         \/ instanceMap[i] = None
         \/ Hashed(i) /\ instanceMap[i] = Hash(i)
         \/ ~Hashed(i) /\ \E n \in 1..instanceCounter : instanceMap[i] = Address(n, i)
    /\ \A i, k \in Instance :
         instanceMap[i] # None /\ instanceMap[i] = instanceMap[k] => i = k

JobsOK ==
    /\ DOMAIN jobMap = JobName
    /\ jobCounter \in [Comp -> Nat]
    /\ \A j \in JobName :
         \/ jobMap[j] = None
         \/ \E c \in Comp : \E n \in 1..jobCounter[c] : jobMap[j] = JobAlias(c, n)
    /\ \A j, k \in JobName : jobMap[j] # None /\ jobMap[j] = jobMap[k] => j = k

LabelsOK ==
    /\ DOMAIN customLabels = Label
    /\ \A l \in Label : DOMAIN customLabels[l] = Value
    /\ customCounters \in [Label -> Nat]
    /\ \A l \in Label, v \in Value :
         customLabels[l][v] # None => customLabels[l][v] \in 1..customCounters[l]
    /\ \A l \in Label : \A v, w \in Value :
         customLabels[l][v] # None /\ customLabels[l][v] = customLabels[l][w] => v = w

RestOK == resumes \in 0..ResumeBound /\ phase \in {"running", "done"}

IInv == InstancesOK /\ JobsOK /\ LabelsOK /\ RestOK

----------------------------------------------------------------------------
\* A number is determined by its quotient and remainder.
LEMMA QuotientRemainder ==
    ASSUME NEW a \in Nat, NEW b \in Nat, NEW d \in Nat \ {0},
           a \div d = b \div d, a % d = b % d
    PROVE  a = b
  <1>1. a = d * (a \div d) + (a % d)
    BY Z3
  <1>2. b = d * (b \div d) + (b % d)
    BY Z3
  <1> QED
    BY <1>1, <1>2

\* The address of an instance determines its number, whatever its port.
LEMMA AddressInjective ==
    ASSUME NEW n \in Nat \ {0}, NEW m \in Nat \ {0}, NEW i, NEW k,
           Address(n, i) = Address(m, k)
    PROVE  n = m
  <1>1. /\ ((n - 1) \div OctetSize) + 1 = ((m - 1) \div OctetSize) + 1
        /\ ((n - 1) % OctetSize) + 1 = ((m - 1) % OctetSize) + 1
    <2>1. /\ Address(n, i).third = Address(m, k).third
          /\ Address(n, i).fourth = Address(m, k).fourth
      OBVIOUS
    <2> QED
      BY <2>1 DEF Address
  <1>2. n - 1 \in Nat /\ m - 1 \in Nat
    OBVIOUS
  <1>3. /\ (n - 1) \div OctetSize \in Int /\ (m - 1) \div OctetSize \in Int
        /\ (n - 1) % OctetSize \in Int /\ (m - 1) % OctetSize \in Int
    BY <1>2, OctetAssumption
  <1>4. /\ (n - 1) \div OctetSize = (m - 1) \div OctetSize
        /\ (n - 1) % OctetSize = (m - 1) % OctetSize
    BY <1>1, <1>3
  <1>5. n - 1 = m - 1
    BY <1>2, <1>4, OctetAssumption, QuotientRemainder
  <1> QED
    BY <1>5

\* The hash of an instance is not an address.
LEMMA HashNotAddress ==
    ASSUME NEW i, NEW k, NEW n
    PROVE  Hash(i) # Address(n, k)
  <1>1. "hash" \in DOMAIN Hash(i)
    BY DEF Hash
  <1>2. "hash" \notin DOMAIN Address(n, k)
    BY DEF Address
  <1> QED
    BY <1>1, <1>2

----------------------------------------------------------------------------
\* A new instance takes the next address, or its hash.
LEMMA ObfuscateInstanceOK ==
    ASSUME InstancesOK, NEW i \in Instance \union {None}, ObfuscateInstance(i)
    PROVE  InstancesOK'
  <1>1. CASE UNCHANGED <<instanceMap, instanceCounter>>
    BY <1>1 DEF InstancesOK
  <1>2. CASE /\ i \in Instance /\ Hashed(i)
             /\ instanceMap' = [instanceMap EXCEPT ![i] = Hash(i)]
             /\ UNCHANGED instanceCounter
    <2>1. /\ DOMAIN instanceMap' = Instance
          /\ instanceMap'[i] = Hash(i)
          /\ \A k \in Instance \ {i} : instanceMap'[k] = instanceMap[k]
      BY <1>2 DEF InstancesOK
    <2>2. \A k \in Instance \ {i} : instanceMap[k] # None => instanceMap[k] # Hash(i)
      <3> SUFFICES ASSUME NEW k \in Instance \ {i}, instanceMap[k] # None,
                          instanceMap[k] = Hash(i)
                   PROVE  FALSE
        OBVIOUS
      <3>1. CASE instanceMap[k] = Hash(k)
        <4>1. Hash(i).hash = Hash(k).hash
          BY <3>1
        <4> QED
          BY <4>1 DEF Hash
      <3>2. CASE \E n \in 1..instanceCounter : instanceMap[k] = Address(n, k)
        BY <3>2, HashNotAddress
      <3> QED
        BY <3>1, <3>2 DEF InstancesOK
    <2> QED
      BY <1>2, <2>1, <2>2 DEF InstancesOK
  <1>3. CASE /\ i \in Instance /\ ~Hashed(i)
             /\ instanceCounter' = instanceCounter + 1
             /\ instanceMap' = [instanceMap EXCEPT ![i] = Address(instanceCounter + 1, i)]
    <2> DEFINE n == instanceCounter
    <2>1. /\ DOMAIN instanceMap' = Instance
          /\ instanceMap'[i] = Address(n + 1, i)
          /\ \A k \in Instance \ {i} : instanceMap'[k] = instanceMap[k]
          /\ n \in Nat /\ instanceCounter' = n + 1
      BY <1>3 DEF InstancesOK
    <2>2. \A k \in Instance \ {i} :
             instanceMap[k] # None => instanceMap[k] # Address(n + 1, i)
      <3> SUFFICES ASSUME NEW k \in Instance \ {i}, instanceMap[k] # None,
                          instanceMap[k] = Address(n + 1, i)
                   PROVE  FALSE
        OBVIOUS
      <3>1. CASE instanceMap[k] = Hash(k)
        BY <3>1, HashNotAddress
      <3>2. CASE \E m \in 1..n : instanceMap[k] = Address(m, k)
        <4>1. PICK m \in 1..n : instanceMap[k] = Address(m, k)
          BY <3>2
        <4>2. m = n + 1
          BY <2>1, <4>1, AddressInjective
        <4> QED
          BY <2>1, <4>1, <4>2
      <3> QED
        BY <3>1, <3>2 DEF InstancesOK
    <2>3. \A k \in Instance :
             \/ instanceMap'[k] = None
             \/ Hashed(k) /\ instanceMap'[k] = Hash(k)
             \/ ~Hashed(k) /\ \E m \in 1..(n + 1) : instanceMap'[k] = Address(m, k)
      <3> SUFFICES ASSUME NEW k \in Instance
                   PROVE  \/ instanceMap'[k] = None
                          \/ Hashed(k) /\ instanceMap'[k] = Hash(k)
                          \/ ~Hashed(k) /\ \E m \in 1..(n + 1) :
                                               instanceMap'[k] = Address(m, k)
        OBVIOUS
      <3>1. CASE k = i
        BY <1>3, <2>1, <3>1
      <3>2. CASE k # i
        <4>1. 1..n \subseteq 1..(n + 1)
          BY <2>1
        <4> QED
          BY <2>1, <3>2, <4>1 DEF InstancesOK
      <3> QED
        BY <3>1, <3>2
    <2>4. \A k, m \in Instance :
             instanceMap'[k] # None /\ instanceMap'[k] = instanceMap'[m] => k = m
      BY <2>1, <2>2 DEF InstancesOK
    <2> QED
      BY <2>1, <2>3, <2>4 DEF InstancesOK
  <1> QED
    BY <1>1, <1>2, <1>3 DEF ObfuscateInstance

\* A new job takes the next number of its component.
LEMMA ObfuscateJobOK ==
    ASSUME JobsOK, NEW j \in JobName \union {None}, NEW c \in Comp, ObfuscateJob(j, c)
    PROVE  JobsOK'
  <1>1. CASE UNCHANGED <<jobMap, jobCounter>>
    BY <1>1 DEF JobsOK
  <1>2. CASE /\ j \in JobName
             /\ jobCounter' = [jobCounter EXCEPT ![c] = jobCounter[c] + 1]
             /\ jobMap' = [jobMap EXCEPT ![j] = JobAlias(c, jobCounter[c] + 1)]
    <2>1. /\ DOMAIN jobMap' = JobName
          /\ jobMap'[j] = JobAlias(c, jobCounter[c] + 1)
          /\ \A k \in JobName \ {j} : jobMap'[k] = jobMap[k]
          /\ jobCounter[c] \in Nat /\ jobCounter' \in [Comp -> Nat]
          /\ jobCounter'[c] = jobCounter[c] + 1
          /\ \A d \in Comp : jobCounter[d] \in Nat /\ jobCounter[d] <= jobCounter'[d]
      BY <1>2 DEF JobsOK
    <2>2. \A k \in JobName \ {j} :
             jobMap[k] # None => jobMap[k] # JobAlias(c, jobCounter[c] + 1)
      <3> SUFFICES ASSUME NEW k \in JobName \ {j}, jobMap[k] # None,
                          jobMap[k] = JobAlias(c, jobCounter[c] + 1)
                   PROVE  FALSE
        OBVIOUS
      <3>1. PICK d \in Comp : \E n \in 1..jobCounter[d] : jobMap[k] = JobAlias(d, n)
        BY DEF JobsOK
      <3>2. PICK n \in 1..jobCounter[d] : jobMap[k] = JobAlias(d, n)
        BY <3>1
      <3>3. d = c /\ n = jobCounter[c] + 1
        BY <3>2 DEF JobAlias
      <3> QED
        BY <2>1, <3>2, <3>3
    <2>3. \A k \in JobName :
             \/ jobMap'[k] = None
             \/ \E d \in Comp : \E n \in 1..jobCounter'[d] : jobMap'[k] = JobAlias(d, n)
      <3> SUFFICES ASSUME NEW k \in JobName, jobMap'[k] # None
                   PROVE  \E d \in Comp : \E n \in 1..jobCounter'[d] :
                             jobMap'[k] = JobAlias(d, n)
        OBVIOUS
      <3>1. CASE k = j
        BY <2>1, <3>1
      <3>2. CASE k # j
        <4>1. PICK d \in Comp : \E n \in 1..jobCounter[d] : jobMap[k] = JobAlias(d, n)
          BY <2>1, <3>2 DEF JobsOK
        <4>2. 1..jobCounter[d] \subseteq 1..jobCounter'[d]
          BY <2>1
        <4> QED
          BY <2>1, <3>2, <4>1, <4>2
      <3> QED
        BY <3>1, <3>2
    <2>4. \A k, m \in JobName : jobMap'[k] # None /\ jobMap'[k] = jobMap'[m] => k = m
      BY <2>1, <2>2 DEF JobsOK
    <2> QED
      BY <2>1, <2>3, <2>4 DEF JobsOK
  <1> QED
    BY <1>1, <1>2 DEF ObfuscateJob

\* New values of labels take the next number of their label.
LEMMA ObfuscateCustomLabelsOK ==
    ASSUME LabelsOK, NEW custom \in [Label -> Value \union {None}],
           ObfuscateCustomLabels(custom)
    PROVE  LabelsOK'
  <1> USE DEF ObfuscateCustomLabels
  <1>1. /\ DOMAIN customLabels' = Label
        /\ customCounters' \in [Label -> Nat]
    BY DEF LabelsOK
  <1> SUFFICES ASSUME NEW l \in Label
               PROVE  /\ DOMAIN customLabels'[l] = Value
                      /\ \A v \in Value : customLabels'[l][v] # None =>
                            customLabels'[l][v] \in 1..customCounters'[l]
                      /\ \A v, w \in Value :
                            customLabels'[l][v] # None
                            /\ customLabels'[l][v] = customLabels'[l][w] => v = w
    BY <1>1 DEF LabelsOK
  <1>2. CASE l \notin Fresh(custom)
    BY <1>2 DEF LabelsOK
  <1>3. CASE l \in Fresh(custom)
    <2> DEFINE n == customCounters[l]
    <2>1. custom[l] \in Value /\ n \in Nat /\ customCounters'[l] = n + 1
      BY <1>3 DEF Fresh, LabelsOK
    <2>2. /\ DOMAIN customLabels'[l] = Value
          /\ customLabels'[l][custom[l]] = n + 1
          /\ \A v \in Value \ {custom[l]} : customLabels'[l][v] = customLabels[l][v]
      BY <1>3, <2>1 DEF LabelsOK
    <2>3. \A v \in Value : customLabels[l][v] # None => customLabels[l][v] \in 1..n
      BY DEF LabelsOK
    <2> QED
      BY <2>1, <2>2, <2>3 DEF LabelsOK
  <1> QED
    BY <1>2, <1>3

----------------------------------------------------------------------------
\* A new obfuscator has given no alias.
LEMMA InitIInv == Init => IInv
  BY ResumeAssumption DEF Init, IInv, InstancesOK, JobsOK, LabelsOK, RestOK

\* One metric is renamed.
LEMMA ApplyObfuscationIInv ==
    ASSUME IInv, NEW m \in Metric, ApplyObfuscation(m)
    PROVE  IInv'
  <1>1. /\ m.instance \in Instance \union {None}
        /\ m.job \in JobName \union {None}
        /\ m.component \in Component \union {None}
        /\ m.custom \in [Label -> Value \union {None}]
    BY MetricAssumption
  <1>2. GuessComponent(m) \in Comp
    BY <1>1 DEF GuessComponent, Comp
  <1>3. InstancesOK'
    BY <1>1, ObfuscateInstanceOK DEF IInv, ApplyObfuscation
  <1>4. JobsOK'
    BY <1>1, <1>2, ObfuscateJobOK DEF IInv, ApplyObfuscation
  <1>5. LabelsOK'
    BY <1>1, ObfuscateCustomLabelsOK DEF IInv, ApplyObfuscation
  <1>6. RestOK'
    BY DEF IInv, RestOK, ApplyObfuscation
  <1> QED
    BY <1>3, <1>4, <1>5, <1>6 DEF IInv

\* A resumed run starts anew.
LEMMA ResumeIInv == IInv /\ Resume => IInv'
  <1> SUFFICES ASSUME IInv, Resume PROVE IInv'
    OBVIOUS
  <1>1. InstancesOK' /\ JobsOK' /\ LabelsOK'
    BY DEF Resume, InstancesOK, JobsOK, LabelsOK
  <1>2. RestOK'
    BY ResumeAssumption DEF IInv, RestOK, Resume
  <1> QED
    BY <1>1, <1>2 DEF IInv

\* No step breaks the invariant.
LEMMA NextIInv == IInv /\ [Next]_vars => IInv'
  <1> SUFFICES ASSUME IInv, [Next]_vars PROVE IInv'
    OBVIOUS
  <1>1. CASE UNCHANGED obfuscator /\ UNCHANGED resumes /\ phase' \in {phase, "done"}
    BY <1>1 DEF IInv, InstancesOK, JobsOK, LabelsOK, RestOK, obfuscator
  <1>2. CASE AttemptSucceeds \/ AttemptFails \/ Archive \/ UNCHANGED vars
    BY <1>1, <1>2 DEF AttemptSucceeds, AttemptFails, Archive, vars
  <1> QED
    BY <1>2, ApplyObfuscationIInv, ResumeIInv DEF Next

\* The invariant holds throughout.
LEMMA InductiveInvariant == Spec => []IInv
  BY InitIInv, NextIInv, PTL DEF Spec

----------------------------------------------------------------------------
\* However many instances, jobs and labels a backend has, two of them never
\* get the same alias from one obfuscator (Obfuscator).
THEOREM AliasesAlwaysDistinct == Spec => []AliasesDistinct
  <1>1. IInv => AliasesDistinct
    BY DEF IInv, InstancesOK, JobsOK, LabelsOK, AliasesDistinct
  <1> QED
    BY <1>1, InductiveInvariant, PTL

\* Its maps are total, and every alias has a number that its counter passed.
THEOREM TypeCorrect == Spec => []TypeOK
  <1>1. IInv => TypeOK
    BY DEF IInv, InstancesOK, JobsOK, LabelsOK, RestOK, TypeOK
  <1> QED
    BY <1>1, InductiveInvariant, PTL

\* Within a run, no alias is ever replaced by another: not by a failed attempt,
\* and not by a metric that hints at another component.
THEOREM AliasesNeverChange == Spec => AliasesStable
  <1> DEFINE Stable ==
        resumes' = resumes =>
          /\ \A i \in Instance : instanceMap[i] # None => instanceMap'[i] = instanceMap[i]
          /\ \A j \in JobName : jobMap[j] # None => jobMap'[j] = jobMap[j]
  <1>1. IInv /\ [Next]_vars => Stable
    <2> SUFFICES ASSUME IInv, Next, resumes' = resumes
                 PROVE  Stable
      BY DEF vars, obfuscator
    <2>1. ~Resume
      BY DEF IInv, RestOK, Resume
    <2>2. CASE AttemptSucceeds \/ AttemptFails \/ Archive
      BY <2>2 DEF AttemptSucceeds, AttemptFails, Archive, obfuscator
    <2>3. ASSUME NEW m \in Metric, ApplyObfuscation(m)
          PROVE  Stable
      <3>1. \A i \in Instance : instanceMap[i] # None => instanceMap'[i] = instanceMap[i]
        BY <2>3 DEF IInv, InstancesOK, ApplyObfuscation, ObfuscateInstance
      <3>2. \A j \in JobName : jobMap[j] # None => jobMap'[j] = jobMap[j]
        BY <2>3 DEF IInv, JobsOK, ApplyObfuscation, ObfuscateJob
      <3> QED
        BY <3>1, <3>2
    <2> QED
      BY <2>1, <2>2, <2>3 DEF Next
  <1> QED
    BY <1>1, InductiveInvariant, PTL DEF Spec, AliasesStable
=============================================================================
