------------------------ MODULE CapabilityBrokerProofs ------------------------
(***************************************************************************)
(* Proofs about CapabilityBroker, for every set of targets, permissions    *)
(* and sizes and for runs of any length.                                   *)
(***************************************************************************)
EXTENDS CapabilityBroker, Induction, FiniteSetTheorems, SequenceTheorems, TLAPS

\* The permissions of a run are well formed: from the assumptions.
LEMMA ConfigTypes ==
    ASSUME config \in Configs
    PROVE  /\ config.maxBytes \in Nat
           /\ config.maxFiles \in Nat
           /\ config.maxRequests \in Nat
           /\ U64Max \in Nat
<1>1. config \in ConfigType
    BY BrokerPaths
<1>2. U64Max \in Nat
    BY BrokerNumbers
<1>3. QED
    BY <1>1, <1>2 DEF ConfigType
-------------------------------------------------------------------------------
(* The bytes and the requests.                                             *)

\* Inductive: as long as the bytes have a budget that the sum can reach, the
\* counter is exactly what went through the broker.
BytesCounted ==
    /\ config \in Configs
    /\ bytesUsed \in Nat /\ moved \in Nat
    /\ \A h \in DOMAIN disk : disk[h] \in Nat \cup {Absent}
    /\ config.maxBytes > 0 /\ config.maxBytes < U64Max =>
          moved = bytesUsed /\ bytesUsed <= config.maxBytes

\* Moving n more bytes after the quota was tested keeps the count exact.
LEMMA BytesAdded ==
    ASSUME BytesCounted, NEW n \in Nat, ~ BytesExceeded(n)
    PROVE  /\ SaturatingAdd(bytesUsed, n) \in Nat
           /\ config.maxBytes > 0 /\ config.maxBytes < U64Max =>
                 /\ moved + n = SaturatingAdd(bytesUsed, n)
                 /\ SaturatingAdd(bytesUsed, n) <= config.maxBytes
BY ConfigTypes DEF BytesCounted, BytesExceeded, SaturatingAdd

LEMMA BytesCountedHolds == Spec => []BytesCounted
<1>1. Init => BytesCounted
    BY ConfigTypes DEF Init, BytesCounted
<1>2. BytesCounted /\ [Next]_vars => BytesCounted'
  <2> SUFFICES ASSUME BytesCounted, [Next]_vars PROVE BytesCounted'
      OBVIOUS
  <2> USE DEF BytesCounted
  <2>1. CASE UNCHANGED <<config, fsVars>>
      BY <2>1 DEF fsVars
  <2>2. ASSUME NEW t \in Targets, FsRead(t) PROVE BytesCounted'
    <3>1. CASE UNCHANGED fsVars
        BY <2>2, <3>1 DEF FsRead, fsVars
    <3>2. CASE ~ UNCHANGED fsVars
      <4> DEFINE h == HostPath(t, config.readRoots)
      <4>1. /\ h \in Files /\ ~ BytesExceeded(disk[h])
            /\ bytesUsed' = SaturatingAdd(bytesUsed, disk[h])
            /\ moved' = moved + disk[h]
            /\ UNCHANGED <<disk, config>>
          BY <2>2, <3>2 DEF FsRead
      <4> HIDE DEF h
      <4>2. disk[h] \in Nat
          BY <4>1 DEF Files
      <4>3. QED
          BY <4>1, <4>2, BytesAdded
    <3>3. QED
        BY <3>1, <3>2
  <2>3. ASSUME NEW t \in Targets, NEW n \in Sizes, FsWrite(t, n) PROVE BytesCounted'
    <3> DEFINE h == HostPath(t, config.writeRoots)
    <3>0. n \in Nat /\ Sizes \subseteq Nat
        BY BrokerNumbers
    <3>1. CASE UNCHANGED fsVars
        BY <2>3, <3>1 DEF FsWrite, fsVars
    <3>2. CASE /\ ~ BytesExceeded(n)
               /\ bytesUsed' = SaturatingAdd(bytesUsed, n)
               /\ disk' = [disk EXCEPT ![h] = n]
               /\ moved' = moved + n
      <4>1. config' = config
          BY <2>3 DEF FsWrite
      <4> HIDE DEF h
      <4>2. QED
          BY <3>0, <3>2, <4>1, BytesAdded
    <3>3. CASE /\ \E part \in Sizes : part <= n /\ disk' = [disk EXCEPT ![h] = part]
               /\ UNCHANGED <<bytesUsed, moved>>
      <4>1. config' = config
          BY <2>3 DEF FsWrite
      <4> HIDE DEF h
      <4>2. QED
          BY <3>0, <3>3, <4>1
    <3>4. QED
        BY <2>3, <3>1, <3>2, <3>3 DEF FsWrite
  <2>4. CASE Finish
      BY <2>4 DEF Finish
  <2>5. QED
      BY <2>1, <2>2, <2>3, <2>4
      DEF Next, vars, HttpGet, EnvGet, UnknownCall
<1>3. QED
    BY <1>1, <1>2, PTL DEF Spec

\* The bytes a run reads and writes through the broker (fs_write and fs_read
\* of process_host_capability_request) never exceed a budget that u64 can
\* tell from no budget, whatever fails in between.
THEOREM BytesBudgetHolds == Spec => []BytesWithinBudget
<1>1. BytesCounted => BytesWithinBudget
    BY ConfigTypes DEF BytesCounted, BytesWithinBudget
<1>2. QED
    BY <1>1, BytesCountedHolds, PTL

RequestsCounted ==
    /\ config \in Configs
    /\ requestsUsed \in Nat
    /\ RequestsWithinBudget

\* http_get never counts more requests than the permissions allow.
THEOREM RequestsBudgetHolds == Spec => []RequestsWithinBudget
<1>1. Init => RequestsCounted
    BY ConfigTypes DEF Init, RequestsCounted, RequestsWithinBudget
<1>2. RequestsCounted /\ [Next]_vars => RequestsCounted'
  <2> SUFFICES ASSUME RequestsCounted, [Next]_vars PROVE RequestsCounted'
      OBVIOUS
  <2> USE DEF RequestsCounted, RequestsWithinBudget
  <2>1. CASE UNCHANGED <<config, requestsUsed>>
      BY <2>1
  <2>2. ASSUME NEW o \in Origins, HttpGet(o) PROVE RequestsCounted'
      BY <2>2, ConfigTypes DEF HttpGet, RequestsExhausted
  <2>3. QED
      BY <2>1, <2>2
      DEF Next, vars, FsRead, FsWrite, EnvGet, UnknownCall, Finish
<1>3. RequestsCounted => RequestsWithinBudget
    BY DEF RequestsCounted
<1>4. QED
    BY <1>1, <1>2, <1>3, PTL DEF Spec
-------------------------------------------------------------------------------
(* The audit trail and the result.                                         *)

\* The denial that is kept is the first one of the trail.
FirstOfTrail ==
    \E i \in 1..Len(audit) :
        /\ audit[i] = Entry("policy_denied", policyDenial)
        /\ \A j \in 1..i - 1 : audit[j].kind # "policy_denied"

\* Inductive: a code is kept from the first refusal of its kind on, and the
\* run ended "ok" only when none was.
DenialsKept ==
    /\ audit \in Seq(AuditEntry)
    /\ policyDenial \in DenialCodes \cup {NoCode}
    /\ engineError \in FailureCodes \cup {NoCode}
    /\ policyDenial = NoCode => \A i \in 1..Len(audit) : audit[i].kind # "policy_denied"
    /\ engineError = NoCode => \A i \in 1..Len(audit) : audit[i].kind # "engine_error"
    /\ policyDenial # NoCode => FirstOfTrail
    /\ result = "ok" => policyDenial = NoCode /\ engineError = NoCode

\* The three ways a call ends in the trail.
Granted ==
    \/ \E kind \in {"fs_read", "fs_write"}, t \in Targets : Grant(kind, t)
    \/ \E o \in Origins : Grant("http_request", o)
    \/ \E k \in Keys : Grant("env_read", k)
Failed  == \E code \in FailureCodes : Fail(code)
Denied  == \E code \in DenialCodes : Deny(code)

\* A call that is granted leaves the codes alone.
LEMMA GrantKeeps ==
    ASSUME DenialsKept, Granted, result' = "running"
    PROVE  DenialsKept'
<1>1. PICK e \in AuditEntry :
          /\ ~ Refused(e)
          /\ audit' = Append(audit, e) /\ UNCHANGED <<policyDenial, engineError>>
    BY DEF Granted, Grant, Entry, AuditEntry, Refused
<1>2. e.kind # "policy_denied" /\ e.kind # "engine_error"
    BY <1>1 DEF Refused
<1>3. /\ audit' \in Seq(AuditEntry) /\ Len(audit') = Len(audit) + 1 /\ Len(audit) \in Nat
      /\ \A i \in 1..Len(audit) : audit'[i] = audit[i]
      /\ audit'[Len(audit) + 1] = e
    BY <1>1 DEF DenialsKept
<1>4. policyDenial # NoCode => FirstOfTrail'
    BY <1>1, <1>3 DEF DenialsKept, FirstOfTrail
<1>5. QED
    BY <1>1, <1>2, <1>3, <1>4 DEF DenialsKept

\* A failure of the engine is kept when it is the first.
LEMMA FailKeeps ==
    ASSUME DenialsKept, Failed, result' = "running"
    PROVE  DenialsKept'
<1>0. PICK code \in FailureCodes : Fail(code)
    BY DEF Failed
<1>a. code # NoCode
    BY <1>0 DEF FailureCodes, NoCode
<1> DEFINE e == Entry("engine_error", code)
<1>1. e \in AuditEntry /\ e.kind = "engine_error"
    BY <1>0 DEF Entry, AuditEntry
<1> HIDE DEF e
<1>2. /\ audit' = Append(audit, e) /\ UNCHANGED policyDenial
      /\ engineError' = IF engineError = NoCode THEN code ELSE engineError
    BY <1>0 DEF Fail, Keep, e
<1>3. /\ audit' \in Seq(AuditEntry) /\ Len(audit') = Len(audit) + 1 /\ Len(audit) \in Nat
      /\ \A i \in 1..Len(audit) : audit'[i] = audit[i]
      /\ audit'[Len(audit) + 1] = e
    BY <1>1, <1>2 DEF DenialsKept
<1>4. policyDenial # NoCode => FirstOfTrail'
    BY <1>2, <1>3 DEF DenialsKept, FirstOfTrail
<1>5. QED
    BY <1>0, <1>a, <1>1, <1>2, <1>3, <1>4 DEF DenialsKept

\* A denial is kept when it is the first.
LEMMA DenyKeeps ==
    ASSUME DenialsKept, Denied, result' = "running"
    PROVE  DenialsKept'
<1>0. PICK code \in DenialCodes : Deny(code)
    BY DEF Denied
<1>a. code # NoCode
    BY <1>0 DEF DenialCodes, NoCode
<1> DEFINE e == Entry("policy_denied", code)
<1>1. e \in AuditEntry /\ e.kind = "policy_denied"
    BY <1>0 DEF Entry, AuditEntry
<1>2. /\ audit' = Append(audit, e) /\ UNCHANGED engineError
      /\ policyDenial' = IF policyDenial = NoCode THEN code ELSE policyDenial
    BY <1>0 DEF Deny, Keep
<1> HIDE DEF e
<1>3. /\ audit' \in Seq(AuditEntry) /\ Len(audit') = Len(audit) + 1 /\ Len(audit) \in Nat
      /\ \A i \in 1..Len(audit) : audit'[i] = audit[i]
      /\ audit'[Len(audit) + 1] = e
    BY <1>1, <1>2 DEF DenialsKept
<1>4. CASE policyDenial = NoCode
  <2>1. \A j \in 1..Len(audit) : audit'[j].kind # "policy_denied"
      BY <1>3, <1>4 DEF DenialsKept
  <2>2. Len(audit) + 1 \in 1..Len(audit') /\ (Len(audit) + 1) - 1 = Len(audit)
      BY <1>3
  <2>3. policyDenial' = code
      BY <1>2, <1>4
  <2>4. FirstOfTrail'
      BY <1>3, <2>1, <2>2, <2>3 DEF FirstOfTrail, e
  <2>5. QED
      BY <1>0, <1>a, <1>1, <1>2, <1>3, <2>3, <2>4 DEF DenialsKept
<1>5. CASE policyDenial # NoCode
  <2>1. FirstOfTrail'
      BY <1>2, <1>3, <1>5 DEF DenialsKept, FirstOfTrail
  <2>2. QED
      BY <1>1, <1>2, <1>3, <1>5, <2>1 DEF DenialsKept
<1>6. QED
    BY <1>4, <1>5

LEMMA DenialsKeptHolds == Spec => []DenialsKept
<1>1. Init => DenialsKept
    BY DEF Init, DenialsKept, NoCode
<1>2. DenialsKept /\ [Next]_vars => DenialsKept'
  <2> SUFFICES ASSUME DenialsKept, [Next]_vars PROVE DenialsKept'
      OBVIOUS
  <2>1. ASSUME NEW t \in Targets, FsRead(t) PROVE DenialsKept'
    <3>1. result' = "running"
        BY <2>1 DEF FsRead, Calls
    <3>2. Denied \/ Failed \/ Granted
        BY <2>1 DEF FsRead, Denied, Failed, Granted, DenialCodes, FailureCodes
    <3>3. QED
        BY <3>1, <3>2, DenyKeeps, FailKeeps, GrantKeeps
  <2>2. ASSUME NEW t \in Targets, NEW n \in Sizes, FsWrite(t, n) PROVE DenialsKept'
    <3>1. result' = "running"
        BY <2>2 DEF FsWrite, Calls
    <3>2. Denied \/ Failed \/ Granted
        BY <2>2 DEF FsWrite, Denied, Failed, Granted, DenialCodes, FailureCodes
    <3>3. QED
        BY <3>1, <3>2, DenyKeeps, FailKeeps, GrantKeeps
  <2>3. ASSUME NEW o \in Origins, HttpGet(o) PROVE DenialsKept'
    <3>1. result' = "running"
        BY <2>3 DEF HttpGet, Calls
    <3>2. Denied \/ Failed \/ Granted
        BY <2>3 DEF HttpGet, Denied, Failed, Granted, DenialCodes, FailureCodes
    <3>3. QED
        BY <3>1, <3>2, DenyKeeps, FailKeeps, GrantKeeps
  <2>4. ASSUME NEW k \in Keys, EnvGet(k) PROVE DenialsKept'
    <3>1. result' = "running"
        BY <2>4 DEF EnvGet, Calls
    <3>2. Denied \/ Granted
        BY <2>4 DEF EnvGet, Denied, Granted, DenialCodes
    <3>3. QED
        BY <3>1, <3>2, DenyKeeps, GrantKeeps
  <2>5. CASE UnknownCall
    <3>1. result' = "running" /\ Failed
        BY <2>5 DEF UnknownCall, Calls, Failed, FailureCodes
    <3>2. QED
        BY <3>1, FailKeeps
  <2>6. CASE Finish
    <3>1. result' = "ok" => policyDenial = NoCode /\ engineError = NoCode
        BY <2>6 DEF Finish, Classify
    <3>2. UNCHANGED <<audit, policyDenial, engineError>>
        BY <2>6 DEF Finish
    <3>3. QED
        BY <3>1, <3>2 DEF DenialsKept, FirstOfTrail
  <2>7. CASE UNCHANGED vars
      BY <2>7 DEF DenialsKept, FirstOfTrail, vars
  <2>8. QED
      BY <2>1, <2>2, <2>3, <2>4, <2>5, <2>6, <2>7 DEF Next
<1>3. QED
    BY <1>1, <1>2, PTL DEF Spec

\* A run after a refused call never ends "ok", even when the guest catches
\* every exception, and the denial WasiExecutor::run reports is the first of
\* the audit trail (invoke_internal keeps it), for any number of calls.
THEOREM NoSilentDenialHolds == Spec => []NoSilentDenial
<1>1. DenialsKept => NoSilentDenial
    BY DEF DenialsKept, NoSilentDenial, Refused, FirstOfTrail
<1>2. QED
    BY <1>1, DenialsKeptHolds, PTL
-------------------------------------------------------------------------------
(* The files, and the types.                                               *)

\* The part of the type invariant that the actions on files change.
FileTypes ==
    /\ config \in Configs
    /\ bytesUsed \in 0..U64Max /\ moved \in Nat
    /\ writtenFiles \subseteq HostPaths /\ damaged \subseteq HostPaths
    /\ disk \in [HostPaths -> Nat \cup {Absent}]

FilesWithinQuota ==
    config.maxFiles > 0 => Cardinality(writtenFiles) <= config.maxFiles

\* Inductive: what was written whole was counted.
FilesCounted ==
    /\ FileTypes
    /\ IsFiniteSet(writtenFiles)
    /\ Files \ damaged \subseteq writtenFiles
    /\ FilesWithinQuota

LEMMA SameHostPaths ==
    ASSUME config' = config
    PROVE  HostPaths' = HostPaths
BY DEF HostPaths

\* The sum saturates at the largest number.
LEMMA SumBounded ==
    ASSUME NEW a \in 0..U64Max, NEW n \in Nat
    PROVE  SaturatingAdd(a, n) \in 0..U64Max
BY BrokerNumbers DEF SaturatingAdd

\* A path the permissions let through stands for a file of the run.
LEMMA PermittedPaths ==
    ASSUME NEW t \in Targets
    PROVE  /\ Permitted(t, config.readRoots) => HostPath(t, config.readRoots) \in HostPaths
           /\ Permitted(t, config.writeRoots) => HostPath(t, config.writeRoots) \in HostPaths
BY DEF HostPaths

LEMMA FilesCountedHolds == Spec => []FilesCounted
<1>1. Init => FilesCounted
  <2> SUFFICES ASSUME Init PROVE FilesCounted
      OBVIOUS
  <2>1. IsFiniteSet({}) /\ Cardinality({}) = 0
      BY FS_EmptySet
  <2>2. Files = {}
      BY DEF Init, Files
  <2>3. FileTypes
      BY BrokerNumbers DEF Init, FileTypes
  <2>4. QED
      BY <2>1, <2>2, <2>3, ConfigTypes DEF Init, FilesCounted, FilesWithinQuota
<1>2. FilesCounted /\ [Next]_vars => FilesCounted'
  <2> SUFFICES ASSUME FilesCounted, [Next]_vars PROVE FilesCounted'
      OBVIOUS
  <2>0. config' = config /\ HostPaths' = HostPaths
    <3>1. config' = config
        BY DEF Next, vars, FsRead, FsWrite, HttpGet, EnvGet, UnknownCall, Finish
    <3>2. QED
        BY <3>1, SameHostPaths
  <2>1. CASE UNCHANGED fsVars
      BY <2>0, <2>1 DEF FilesCounted, FileTypes, FilesWithinQuota, Files, fsVars
  <2>2. ASSUME NEW t \in Targets, FsRead(t), ~ UNCHANGED fsVars PROVE FilesCounted'
    <3> DEFINE h == HostPath(t, config.readRoots)
    <3>1. /\ h \in Files
          /\ bytesUsed' = SaturatingAdd(bytesUsed, disk[h])
          /\ moved' = moved + disk[h]
          /\ UNCHANGED <<writtenFiles, disk, damaged>>
        BY <2>2 DEF FsRead
    <3> HIDE DEF h
    <3>2. disk[h] \in Nat
        BY <3>1 DEF FilesCounted, FileTypes, Files
    <3>3. bytesUsed' \in 0..U64Max /\ moved' \in Nat
      <4>1. PICK n \in Nat : n = disk[h]
          BY <3>2
      <4>2. bytesUsed \in 0..U64Max /\ moved \in Nat
          BY DEF FilesCounted, FileTypes
      <4>3. SaturatingAdd(bytesUsed, n) \in 0..U64Max
          BY <4>2, SumBounded
      <4>4. QED
          BY <3>1, <4>1, <4>2, <4>3
    <3>4. FileTypes'
        BY <2>0, <3>1, <3>3 DEF FilesCounted, FileTypes
    <3>5. QED
        BY <2>0, <3>1, <3>4 DEF FilesCounted, FilesWithinQuota, Files
  <2>3. ASSUME NEW t \in Targets, NEW n \in Sizes, FsWrite(t, n), ~ UNCHANGED fsVars
        PROVE FilesCounted'
    <3> DEFINE h == HostPath(t, config.writeRoots)
    <3>0. n \in Nat /\ Sizes \subseteq Nat
        BY BrokerNumbers
    <3>1. h \in HostPaths
        BY <2>3, PermittedPaths DEF FsWrite
    <3>2. CASE /\ ~ FilesExceeded(h)
               /\ bytesUsed' = SaturatingAdd(bytesUsed, n)
               /\ writtenFiles' = writtenFiles \cup {h}
               /\ disk' = [disk EXCEPT ![h] = n]
               /\ moved' = moved + n
               /\ damaged' = damaged \ {h}
      <4> HIDE DEF h
      <4>0. bytesUsed' \in 0..U64Max /\ moved' \in Nat
          BY <3>0, <3>2, SumBounded DEF FilesCounted, FileTypes
      <4>a. disk' \in [HostPaths -> Nat \cup {Absent}]
          BY <3>0, <3>1, <3>2 DEF FilesCounted, FileTypes
      <4>1. FileTypes'
          BY <2>0, <3>1, <3>2, <4>0, <4>a DEF FilesCounted, FileTypes
      <4>2. Files' \ damaged' \subseteq writtenFiles'
          BY <3>1, <3>2 DEF FilesCounted, FileTypes, Files
      <4>3. /\ IsFiniteSet(writtenFiles')
            /\ Cardinality(writtenFiles') =
                  IF h \in writtenFiles THEN Cardinality(writtenFiles)
                  ELSE Cardinality(writtenFiles) + 1
            /\ Cardinality(writtenFiles) \in Nat
          BY <3>2, FS_AddElement, FS_CardinalityType DEF FilesCounted
      <4>4. FilesWithinQuota'
          BY <2>0, <3>2, <4>3, ConfigTypes
          DEF FilesCounted, FileTypes, FilesWithinQuota, FilesExceeded
      <4>5. QED
          BY <4>1, <4>2, <4>3, <4>4 DEF FilesCounted
    <3>3. CASE /\ \E part \in Sizes : part <= n /\ disk' = [disk EXCEPT ![h] = part]
               /\ damaged' = damaged \cup {h}
               /\ UNCHANGED <<bytesUsed, writtenFiles, moved>>
      <4> HIDE DEF h
      <4>1. FileTypes'
          BY <2>0, <3>0, <3>1, <3>3 DEF FilesCounted, FileTypes
      <4>2. Files' \ damaged' \subseteq writtenFiles'
          BY <3>1, <3>3 DEF FilesCounted, FileTypes, Files
      <4>3. QED
          BY <2>0, <3>3, <4>1, <4>2 DEF FilesCounted, FilesWithinQuota
    <3>4. QED
        BY <2>3, <3>2, <3>3 DEF FsWrite
  <2>4. CASE Finish
    <3>1. disk' = [x \in HostPaths |-> Absent] \/ disk' = disk
        BY <2>4 DEF Finish
    <3>2. Files' \subseteq Files
        BY <3>1 DEF FilesCounted, FileTypes, Files
    <3>3. UNCHANGED <<bytesUsed, writtenFiles, moved, damaged>>
        BY <2>4 DEF Finish
    <3>4. FileTypes'
        BY <2>0, <3>1, <3>3 DEF FilesCounted, FileTypes
    <3>5. QED
        BY <2>0, <3>2, <3>3, <3>4 DEF FilesCounted, FilesWithinQuota
  <2>5. QED
      BY <2>1, <2>2, <2>3, <2>4
      DEF Next, vars, HttpGet, EnvGet, UnknownCall
<1>3. QED
    BY <1>1, <1>2, PTL DEF Spec

\* The files fs_write writes whole never outnumber the budget; a write that
\* fails half way is the only way past it.
THEOREM FilesBudgetHolds == Spec => []FilesWithinBudget
<1>1. FilesCounted => FilesWithinBudget
  <2> SUFFICES ASSUME FilesCounted, config.maxFiles > 0
               PROVE  Cardinality(Files \ damaged) <= config.maxFiles
      BY DEF FilesWithinBudget
  <2>1. /\ Cardinality(Files \ damaged) <= Cardinality(writtenFiles)
        /\ Cardinality(Files \ damaged) \in Nat
        /\ Cardinality(writtenFiles) \in Nat
      BY FS_Subset, FS_CardinalityType DEF FilesCounted
  <2>2. QED
      BY <2>1, ConfigTypes DEF FilesCounted, FileTypes, FilesWithinQuota
<1>2. QED
    BY <1>1, FilesCountedHolds, PTL

\* Every variable keeps its type: in particular the byte counter stays a u64
\* (saturating_add) and the trail holds entries of known kinds only.
THEOREM BrokerTypeCorrect == Spec => []TypeOK
<1> DEFINE ResultOK == requestsUsed \in Nat /\ result \in {"running", "policy_denied"} \cup Outcomes
<1>1. Init => ResultOK
    BY DEF Init
<1>2. ResultOK /\ [Next]_vars => ResultOK'
  <2> SUFFICES ASSUME ResultOK, [Next]_vars PROVE ResultOK'
      OBVIOUS
  <2>1. CASE Finish
      BY <2>1 DEF Finish, Classify, Outcomes
  <2>2. CASE UNCHANGED <<result, requestsUsed>>
      BY <2>2
  <2>3. ASSUME NEW o \in Origins, HttpGet(o) PROVE ResultOK'
      BY <2>3 DEF HttpGet
  <2>4. QED
      BY <2>1, <2>2, <2>3 DEF Next, vars, FsRead, FsWrite, EnvGet, UnknownCall
<1>3. FilesCounted /\ DenialsKept /\ ResultOK => TypeOK
    BY DEF FilesCounted, FileTypes, DenialsKept, TypeOK
<1>4. QED
    BY <1>1, <1>2, <1>3, FilesCountedHolds, DenialsKeptHolds, PTL DEF Spec
-------------------------------------------------------------------------------
(* What is on the disk.                                                    *)

\* Entry e accounts for the file h: a granted write that names h, which is
\* whole, or a failed write, which left h behind.
AccountsFor(e, h) ==
    \/ /\ e.kind = "fs_write" /\ h \notin damaged
       /\ Permitted(e.detail, config.writeRoots)
       /\ HostPath(e.detail, config.writeRoots) = h
    \/ e = Entry("engine_error", "fs_write_failed") /\ h \in damaged

\* An entry of the trail keeps its place.
LEMMA TrailGrows ==
    ASSUME DenialsKept, NEW e, audit' = Append(audit, e)
    PROVE  /\ \A i \in 1..Len(audit) : i \in 1..Len(audit') /\ audit'[i] = audit[i]
           /\ Len(audit') \in 1..Len(audit') /\ audit'[Len(audit')] = e
<1>1. audit \in Seq(AuditEntry)
    BY DEF DenialsKept
<1>2. Len(audit) \in Nat /\ Len(audit') = Len(audit) + 1
    BY <1>1
<1>3. \A i \in 1..Len(audit) : audit'[i] = audit[i]
    BY <1>1, <1>2
<1>4. audit'[Len(audit) + 1] = e
    BY <1>1, <1>2
<1>5. QED
    BY <1>2, <1>3, <1>4

\* A file that was there, and is as whole as it was, is accounted for as before.
LEMMA StillAccounted ==
    ASSUME DenialsKept, EffectsAudited, config' = config,
           audit' = audit \/ \E e : audit' = Append(audit, e),
           NEW h \in Files, h \in damaged' <=> h \in damaged
    PROVE  \E i \in 1..Len(audit') : AccountsFor(audit[i], h)' 
<1>1. PICK i \in 1..Len(audit) : AccountsFor(audit[i], h)
    BY DEF EffectsAudited, AccountsFor
<1>2. i \in 1..Len(audit') /\ audit'[i] = audit[i]
    BY TrailGrows
<1>3. AccountsFor(audit[i], h)'
    BY <1>1, <1>2 DEF AccountsFor, Entry
<1>4. QED
    BY <1>2, <1>3

\* Whatever the guest catches and however its writes fail, every file on the
\* disk is one the audit trail shows: the trail is written by invoke_internal
\* for every call, and the disk only by fs_write.
THEOREM EffectsAuditedHolds == Spec => []EffectsAudited
<1>1. Init => EffectsAudited
    BY DEF Init, EffectsAudited, Files
<1>2. FilesCounted /\ DenialsKept /\ EffectsAudited /\ [Next]_vars => EffectsAudited'
  <2> SUFFICES ASSUME FilesCounted, DenialsKept, EffectsAudited, [Next]_vars,
                      NEW h \in Files'
               PROVE  \E i \in 1..Len(audit') : AccountsFor(audit[i], h)'
      BY DEF EffectsAudited, AccountsFor
  <2>0. config' = config
      BY DEF Next, vars, FsRead, FsWrite, HttpGet, EnvGet, UnknownCall, Finish
  <2>a. audit' = audit \/ \E e : audit' = Append(audit, e)
      BY DEF Next, vars, FsRead, FsWrite, HttpGet, EnvGet, UnknownCall, Finish, Deny, Fail, Grant
  <2>b. disk \in [HostPaths -> Nat \cup {Absent}]
      BY DEF FilesCounted, FileTypes
  <2>1. CASE Files' \subseteq Files /\ damaged' = damaged
      BY <2>0, <2>1, <2>a, StillAccounted
  <2>2. ASSUME NEW t \in Targets, NEW n \in Sizes, FsWrite(t, n)
        PROVE  \E i \in 1..Len(audit') : AccountsFor(audit[i], h)'
    <3> DEFINE w == HostPath(t, config.writeRoots)
    <3>1. CASE UNCHANGED fsVars
        BY <2>1, <3>1 DEF fsVars, Files
    <3>2. CASE /\ Permitted(t, config.writeRoots)
               /\ disk' = [disk EXCEPT ![w] = n] /\ damaged' = damaged \ {w}
               /\ Grant("fs_write", t)
      <4>1. CASE h = w
        <5>1. audit' = Append(audit, Entry("fs_write", t))
            BY <3>2 DEF Grant
        <5>2. Len(audit') \in 1..Len(audit') /\ audit'[Len(audit')] = Entry("fs_write", t)
            BY <5>1, TrailGrows
        <5>3. AccountsFor(audit[Len(audit)], h)'
            BY <2>0, <3>2, <4>1, <5>2 DEF AccountsFor, Entry
        <5>4. QED
            BY <5>2, <5>3
      <4>2. CASE h # w
        <5> HIDE DEF w
        <5>1. h \in Files /\ (h \in damaged' <=> h \in damaged)
            BY <2>b, <3>2, <4>2 DEF Files
        <5>2. QED
            BY <2>0, <2>a, <5>1, StillAccounted
      <4>3. QED
          BY <4>1, <4>2
    <3>3. CASE /\ \E part \in Sizes : disk' = [disk EXCEPT ![w] = part]
               /\ damaged' = damaged \cup {w}
               /\ Fail("fs_write_failed")
      <4>1. CASE h = w
        <5>1. audit' = Append(audit, Entry("engine_error", "fs_write_failed"))
            BY <3>3 DEF Fail
        <5>2. /\ Len(audit') \in 1..Len(audit')
              /\ audit'[Len(audit')] = Entry("engine_error", "fs_write_failed")
            BY <5>1, TrailGrows
        <5>3. AccountsFor(audit[Len(audit)], h)'
            BY <3>3, <4>1, <5>2 DEF AccountsFor, Entry
        <5>4. QED
            BY <5>2, <5>3
      <4>2. CASE h # w
        <5> HIDE DEF w
        <5>1. h \in Files /\ (h \in damaged' <=> h \in damaged)
            BY <2>b, <3>3, <4>2 DEF Files
        <5>2. QED
            BY <2>0, <2>a, <5>1, StillAccounted
      <4>3. QED
          BY <4>1, <4>2
    <3>4. QED
        BY <2>2, <3>1, <3>2, <3>3 DEF FsWrite
  <2>3. CASE Finish
    <3>1. Files' \subseteq Files /\ damaged' = damaged
        BY <2>b, <2>3 DEF Finish, Files
    <3>2. QED
        BY <2>1, <3>1
  <2>4. CASE UNCHANGED <<disk, damaged>>
      BY <2>1, <2>4 DEF Files
  <2>5. QED
      BY <2>2, <2>3, <2>4 DEF Next, vars, fsVars, FsRead, HttpGet, EnvGet, UnknownCall
<1>3. QED
    BY <1>1, <1>2, FilesCountedHolds, DenialsKeptHolds, PTL DEF Spec
-------------------------------------------------------------------------------
(* Paths.  Normal is defined by recursion: what it does for every path is  *)
(* proved by induction on the components looked at.                        *)

KeepStep(s, keep, i) ==
    IF i = 0 THEN <<>>
    ELSE IF s[i] \in {".", ""} THEN keep[i - 1] ELSE Append(keep[i - 1], s[i])

\* The recursion has a solution, so Named is one.
LEMMA NamedUnfolds ==
    ASSUME NEW S, NEW s \in Seq(S)
    PROVE  Named(s) = [i \in 0..Len(s) |-> KeepStep(s, Named(s), i)]
<1> DEFINE T == {n \in Nat : \E keep : keep = [i \in 0..n |-> KeepStep(s, keep, i)]}
<1>1. 0 \in T
  <2>1. [i \in 0..0 |-> <<>>] = [i \in 0..0 |-> KeepStep(s, [j \in 0..0 |-> <<>>], i)]
      BY DEF KeepStep
  <2>2. QED
      BY <2>1
<1>2. ASSUME NEW n \in Nat, n \in T PROVE n + 1 \in T
  <2>1. PICK keep : keep = [i \in 0..n |-> KeepStep(s, keep, i)]
      BY <1>2
  <2> DEFINE more == [i \in 0..n + 1 |-> IF i = n + 1 THEN KeepStep(s, keep, n + 1) ELSE keep[i]]
  <2>2. ASSUME NEW i \in 0..n + 1 PROVE more[i] = KeepStep(s, more, i)
    <3>1. i = 0 \/ (i - 1 \in 0..n + 1 /\ i - 1 # n + 1)
        OBVIOUS
    <3>2. i = 0 \/ more[i - 1] = keep[i - 1]
        BY <3>1
    <3>3. more[i] = IF i = n + 1 THEN KeepStep(s, keep, n + 1) ELSE keep[i]
        OBVIOUS
    <3>4. i = n + 1 \/ i \in 0..n
        OBVIOUS
    <3>5. i \in 0..n => keep[i] = KeepStep(s, keep, i)
        BY <2>1
    <3> HIDE DEF more
    <3>6. KeepStep(s, more, i) = KeepStep(s, keep, i)
      <4>1. CASE i = 0
          BY <4>1, Zenon DEF KeepStep
      <4>2. CASE more[i - 1] = keep[i - 1]
          BY <4>2, Zenon DEF KeepStep
      <4>3. QED
          BY <3>2, <4>1, <4>2
    <3>7. QED
        BY <3>3, <3>4, <3>5, <3>6
  <2>3. more = [i \in 0..n + 1 |-> KeepStep(s, more, i)]
      BY <2>2
  <2> HIDE DEF more
  <2>4. QED
      BY <2>3
<1>3. Len(s) \in T
  <2> HIDE DEF T
  <2>1. Nat \subseteq T
      BY <1>1, <1>2, SetInduction
  <2>2. QED
      BY <2>1, LenProperties
<1>4. PICK keep : keep = [i \in 0..Len(s) |-> KeepStep(s, keep, i)]
    BY <1>3
<1>5. QED
    BY <1>4 DEF Named, KeepStep

LEMMA NamedSteps ==
    ASSUME NEW S, NEW s \in Seq(S)
    PROVE  /\ Named(s)[0] = <<>>
           /\ \A i \in 0..Len(s) - 1 :
                 Named(s)[i + 1] = IF s[i + 1] \in {".", ""} THEN Named(s)[i]
                                   ELSE Append(Named(s)[i], s[i + 1])
<1>0. Len(s) \in Nat
    BY LenProperties
<1>1. \A i \in 0..Len(s) : Named(s)[i] = KeepStep(s, Named(s), i)
    BY NamedUnfolds
<1>2. 0 \in 0..Len(s)
    BY <1>0
<1>3. ASSUME NEW i \in 0..Len(s) - 1
      PROVE  i + 1 \in 0..Len(s) /\ i + 1 # 0 /\ (i + 1) - 1 = i
    BY <1>0
<1>4. QED
    BY <1>1, <1>2, <1>3 DEF KeepStep

\* What is kept are components.
LEMMA NamedType ==
    ASSUME NEW S, NEW s \in Seq(S)
    PROVE  \A i \in 0..Len(s) : Named(s)[i] \in Seq(S)
<1> DEFINE T == {n \in Nat : n <= Len(s) => Named(s)[n] \in Seq(S)}
<1>0. Len(s) \in Nat /\ \A i \in 1..Len(s) : s[i] \in S
    BY LenProperties
<1>1. 0 \in T
    BY NamedSteps, EmptySeq
<1>2. ASSUME NEW n \in Nat, n \in T PROVE n + 1 \in T
  <2>1. CASE n + 1 <= Len(s)
    <3>1. n \in 0..Len(s) - 1 /\ n <= Len(s) /\ n + 1 \in 1..Len(s)
        BY <1>0, <2>1
    <3>2. Named(s)[n] \in Seq(S) /\ s[n + 1] \in S
        BY <1>0, <1>2, <3>1
    <3>3. Named(s)[n + 1] \in {Named(s)[n], Append(Named(s)[n], s[n + 1])}
        BY <3>1, NamedSteps
    <3>4. Append(Named(s)[n], s[n + 1]) \in Seq(S)
        BY <3>2, AppendProperties
    <3>5. Named(s)[n + 1] \in Seq(S)
        BY <3>2, <3>3, <3>4
    <3>6. QED
        BY <3>5
  <2>2. QED
      BY <2>1
<1>3. Nat \subseteq T
  <2> HIDE DEF T
  <2>1. QED
      BY <1>1, <1>2, SetInduction
<1>4. QED
    BY <1>0, <1>3

\* Append moves out of a concatenation.
LEMMA AppendMovesOut ==
    ASSUME NEW S, NEW x \in Seq(S), NEW y \in Seq(S), NEW e \in S
    PROVE  x \o Append(y, e) = Append(x \o y, e)
<1>1. <<e>> \in Seq(S) /\ x \o y \in Seq(S)
    BY ConcatProperties
<1>2. Append(y, e) = y \o <<e>> /\ Append(x \o y, e) = (x \o y) \o <<e>>
    BY <1>1, AppendIsConcat
<1>3. QED
    BY <1>1, <1>2, ConcatAssociative

\* Of a path in two parts, what is kept is what is kept of each.
LEMMA NormalConcat ==
    ASSUME NEW S, NEW a \in Seq(S), NEW b \in Seq(S)
    PROVE  Normal(a \o b) = Normal(a) \o Normal(b)
<1> DEFINE c == a \o b
           T == {n \in Nat : n <= Len(a) => Named(c)[n] = Named(a)[n]}
           U == {n \in Nat : n <= Len(b) => Named(c)[Len(a) + n] = Normal(a) \o Named(b)[n]}
<1>0. /\ c \in Seq(S) /\ Len(a) \in Nat /\ Len(b) \in Nat
      /\ Len(c) = Len(a) + Len(b)
      /\ \A i \in 1..Len(a) : c[i] = a[i]
      /\ \A i \in 1..Len(b) : c[Len(a) + i] = b[i] /\ b[i] \in S
  <2>1. c \in Seq(S) /\ Len(a) \in Nat /\ Len(b) \in Nat /\ Len(c) = Len(a) + Len(b)
      BY ConcatProperties, LenProperties
  <2>2. \A i \in 1..Len(a) + Len(b) : c[i] = IF i <= Len(a) THEN a[i] ELSE b[i - Len(a)]
      BY ConcatProperties
  <2>3. ASSUME NEW i \in 1..Len(a) PROVE c[i] = a[i]
    <3>1. i \in 1..Len(a) + Len(b) /\ i <= Len(a)
        BY <2>1
    <3>2. QED
        BY <3>1, <2>2
  <2>4. ASSUME NEW i \in 1..Len(b) PROVE c[Len(a) + i] = b[i] /\ b[i] \in S
    <3>1. Len(a) + i \in 1..Len(a) + Len(b) /\ ~ (Len(a) + i <= Len(a)) /\ (Len(a) + i) - Len(a) = i
        BY <2>1
    <3>2. b[i] \in S
        BY ElementOfSeq
    <3>3. QED
        BY <3>1, <3>2, <2>2
  <2>5. QED
      BY <2>1, <2>3, <2>4
<1> HIDE DEF c
<1>a. Normal(a) \in Seq(S)
    BY <1>0, NamedType DEF Normal
<1>1. 0 \in T
    BY <1>0, NamedSteps
<1>2. ASSUME NEW n \in Nat, n \in T PROVE n + 1 \in T
  <2>1. CASE n + 1 <= Len(a)
    <3>1. n \in 0..Len(a) - 1 /\ n \in 0..Len(c) - 1 /\ n <= Len(a) /\ n + 1 \in 1..Len(a)
        BY <1>0, <2>1
    <3>2. Named(c)[n] = Named(a)[n] /\ c[n + 1] = a[n + 1]
        BY <1>0, <1>2, <3>1
    <3>3. Named(c)[n + 1] = IF c[n + 1] \in {".", ""} THEN Named(c)[n]
                            ELSE Append(Named(c)[n], c[n + 1])
        BY <1>0, <3>1, NamedSteps
    <3>4. Named(a)[n + 1] = IF a[n + 1] \in {".", ""} THEN Named(a)[n]
                            ELSE Append(Named(a)[n], a[n + 1])
        BY <3>1, NamedSteps
    <3>5. Named(c)[n + 1] = Named(a)[n + 1]
        BY <3>2, <3>3, <3>4
    <3>6. QED
        BY <3>5
  <2>2. QED
      BY <2>1
<1>3. Named(c)[Len(a)] = Normal(a)
  <2>1. Nat \subseteq T
    <3> HIDE DEF T
    <3>1. QED
        BY <1>1, <1>2, SetInduction
  <2>2. QED
      BY <2>1, <1>0 DEF Normal
<1>4. 0 \in U
  <2>1. Len(a) + 0 = Len(a)
      BY <1>0
  <2>2. Named(b)[0] = <<>>
      BY NamedSteps
  <2>3. Normal(a) \o <<>> = Normal(a)
      BY <1>a, ConcatEmptySeq
  <2>4. Named(c)[Len(a) + 0] = Normal(a) \o Named(b)[0]
      BY <1>3, <2>1, <2>2, <2>3
  <2>5. QED
      BY <2>4
<1>5. ASSUME NEW n \in Nat, n \in U PROVE n + 1 \in U
  <2>1. CASE n + 1 <= Len(b)
    <3>1. /\ n \in 0..Len(b) - 1 /\ n \in 0..Len(b) /\ n <= Len(b) /\ n + 1 \in 1..Len(b)
          /\ Len(a) + n \in 0..Len(c) - 1 /\ (Len(a) + n) + 1 = Len(a) + (n + 1)
        BY <1>0, <2>1
    <3>2. Named(c)[Len(a) + n] = Normal(a) \o Named(b)[n]
        BY <1>5, <3>1
    <3>3. c[Len(a) + (n + 1)] = b[n + 1] /\ b[n + 1] \in S
        BY <1>0, <3>1
    <3>4. Named(c)[(Len(a) + n) + 1] =
              IF c[(Len(a) + n) + 1] \in {".", ""} THEN Named(c)[Len(a) + n]
              ELSE Append(Named(c)[Len(a) + n], c[(Len(a) + n) + 1])
        BY <1>0, <3>1, NamedSteps
    <3>5. Named(b)[n + 1] = IF b[n + 1] \in {".", ""} THEN Named(b)[n]
                            ELSE Append(Named(b)[n], b[n + 1])
        BY <3>1, NamedSteps
    <3>6. Named(b)[n] \in Seq(S)
        BY <3>1, NamedType
    <3>7. Normal(a) \o Append(Named(b)[n], b[n + 1]) = Append(Normal(a) \o Named(b)[n], b[n + 1])
      <4> DEFINE x == Normal(a)
                 y == Named(b)[n]
                 e == b[n + 1]
      <4>1. x \in Seq(S) /\ y \in Seq(S) /\ e \in S
          BY <1>a, <3>3, <3>6
      <4> HIDE DEF x, y, e
      <4>2. x \o Append(y, e) = Append(x \o y, e)
          BY <4>1, AppendMovesOut
      <4>3. QED
          BY <4>2 DEF x, y, e
    <3>8. Named(c)[Len(a) + (n + 1)] =
              IF b[n + 1] \in {".", ""} THEN Normal(a) \o Named(b)[n]
              ELSE Append(Normal(a) \o Named(b)[n], b[n + 1])
        BY <3>1, <3>2, <3>3, <3>4
    <3>9. Named(c)[Len(a) + (n + 1)] = Normal(a) \o Named(b)[n + 1]
        BY <3>5, <3>7, <3>8
    <3>10. QED
        BY <3>9
  <2>2. QED
      BY <2>1
<1>6. Named(c)[Len(a) + Len(b)] = Normal(a) \o Named(b)[Len(b)]
  <2>1. Nat \subseteq U
    <3> HIDE DEF U
    <3>1. QED
        BY <1>4, <1>5, SetInduction
  <2>2. QED
      BY <2>1, <1>0
<1>7. QED
    BY <1>0, <1>6 DEF Normal, c

\* The longest root that a path is under exists, so it is the one selected.
LEMMA SelectedRootFits ==
    ASSUME NEW t \in Path, NEW roots \in SUBSET Path, PathUnderRoots(t, roots)
    PROVE  /\ SelectedRoot(t, roots) \in roots
           /\ PathUnderRoot(t, SelectedRoot(t, roots))
<1> DEFINE above == {root \in roots : PathUnderRoot(t, root)}
           T == {n \in Nat : \E root \in above : Len(t) - Len(root) = n}
<1>1. Len(t) \in Nat /\ \A root \in above : Len(root) \in Nat /\ Len(root) <= Len(t)
  <2>1. \A s \in Path : Len(s) \in Nat
      BY LenProperties DEF Path
  <2>2. \A root \in above : Len(root) <= Len(t)
      BY DEF PathUnderRoot, IsPrefix
  <2>3. QED
      BY <2>1, <2>2
<1>2. \A root \in above : Len(t) - Len(root) \in T
    BY <1>1
<1>3. T # {}
    BY <1>2 DEF PathUnderRoots
<1>4. PICK n \in T : \A m \in T : n <= m
    BY <1>3, LeastNumber
<1>5. PICK root \in above : Len(t) - Len(root) = n
    BY <1>4
<1>6. ASSUME NEW other \in above PROVE Len(other) <= Len(root)
  <2>1. n <= Len(t) - Len(other)
      BY <1>2, <1>4
  <2>2. QED
      BY <1>1, <1>5, <2>1
<1>7. /\ root \in roots /\ PathUnderRoot(t, root)
      /\ \A other \in roots : PathUnderRoot(t, other) => Len(other) <= Len(root)
    BY <1>5, <1>6
<1>8. QED
    BY <1>7, Zenon DEF SelectedRoot

\* Under a root that names a file, the host path is what the whole path names.
LEMMA HostPathIsNormal ==
    ASSUME NEW t \in Path, NEW roots \in SUBSET Path, PathUnderRoots(t, roots),
           Normal(SelectedRoot(t, roots)) # <<>>
    PROVE  HostPath(t, roots) = Normal(t)
<1> DEFINE Names == {"work", "sub", "x", ".", "", "..", "__root__"}
           tail(root) == SubSeq(t, Len(root) + 1, Len(t))
<1>1. PICK root : root = SelectedRoot(t, roots)
    OBVIOUS
<1>2. root \in Path /\ PathUnderRoot(t, root)
    BY <1>1, SelectedRootFits
<1>3. root \in Seq(Names) /\ t \in Seq(Names)
    BY <1>2 DEF Path
<1> HIDE DEF Names
<1>4. Len(root) \in Nat /\ Len(t) \in Nat /\ Len(root) <= Len(t)
    BY <1>2, <1>3, LenProperties DEF PathUnderRoot, IsPrefix
<1>5. root = SubSeq(t, 1, Len(root))
  <2>1. SubSeq(root, 1, Len(root)) = root
      BY <1>3, SubSeqFull
  <2>2. QED
      BY <1>2, <2>1 DEF PathUnderRoot, IsPrefix
<1>6. SubSeq(t, 1, Len(root)) \o tail(root) = t
  <2>1. /\ 1 \in 1..Len(t) + 1 /\ Len(root) \in 1 - 1..Len(t)
        /\ Len(t) \in Len(root)..Len(t)
      BY <1>4
  <2>2. SubSeq(t, 1, Len(root)) \o SubSeq(t, Len(root) + 1, Len(t)) = SubSeq(t, 1, Len(t))
      BY <1>3, <2>1, ConcatAdjacentSubSeq
  <2>3. SubSeq(t, 1, Len(t)) = t
      BY <1>3, SubSeqFull
  <2>4. QED
      BY <2>2, <2>3
<1>7. tail(root) \in Seq(Names)
  <2>1. \A i \in Len(root) + 1..Len(t) : t[i] \in Names
      BY <1>3, <1>4, ElementOfSeq
  <2>2. QED
      BY <1>4, <2>1, SubSeqProperties
<1>8. HostPath(t, roots) = SanitizeVirtualRoot(root) \o Normal(tail(root))
    BY <1>1 DEF HostPath
<1>9. SanitizeVirtualRoot(root) = Normal(root)
    BY <1>1 DEF SanitizeVirtualRoot
<1> HIDE DEF tail
<1>10. Normal(root \o tail(root)) = Normal(root) \o Normal(tail(root))
    BY <1>3, <1>7, NormalConcat
<1>11. root \o tail(root) = t
    BY <1>5, <1>6
<1>12. QED
    BY <1>8, <1>9, <1>10, <1>11

\* A path that may be written and read names the same file for both: roots
\* "/work" and "/work/sub", or "/work/." and "/work", lead to one file, which
\* resolve_fs_binding_path composes of two parts that it normalises apart.
THEOREM SameFileHolds == Spec => []SameFile
<1>1. TypeOK => SameFile
  <2> SUFFICES ASSUME TypeOK, NEW t \in Targets,
                      Permitted(t, config.readRoots), Permitted(t, config.writeRoots),
                      Normal(SelectedRoot(t, config.readRoots)) # <<>>,
                      Normal(SelectedRoot(t, config.writeRoots)) # <<>>
               PROVE  HostPath(t, config.readRoots) = HostPath(t, config.writeRoots)
      BY DEF SameFile
  <2>1. /\ t \in Path
        /\ config.readRoots \in SUBSET Path /\ config.writeRoots \in SUBSET Path
      BY BrokerPaths DEF TypeOK, ConfigType
  <2>2. PathUnderRoots(t, config.readRoots) /\ PathUnderRoots(t, config.writeRoots)
      BY DEF Permitted
  <2>3. QED
      BY <2>1, <2>2, HostPathIsNormal
<1>2. QED
    BY <1>1, BrokerTypeCorrect, PTL
===============================================================================
