--------------------------- MODULE CapabilityBroker ---------------------------
(***************************************************************************)
(* The worker's capability broker during one run (rust/aegispy-worker):    *)
(* NativeHostCapabilityState and process_host_capability_request, from the *)
(* first call of the guest to the result the executor makes of the run.    *)
(*                                                                         *)
(* A path is the sequence of its components, so "/" is the empty sequence, *)
(* "/work/./x" is <<"work", ".", "x">> and a doubled slash is an empty     *)
(* component.  File contents are abstracted to their length, URLs to their *)
(* origin.  The guest may catch every failure and go on.                   *)
(***************************************************************************)
EXTENDS Integers, Sequences, FiniteSets, SequencesExt

CONSTANTS
    Targets,        \* paths the guest names
    Sizes,          \* lengths of what it writes, in bytes
    Origins,        \* origins it asks for
    Keys,           \* environment variables it asks for
    Configs,        \* permissions a run may have
    U64Max,         \* the largest u64
    MaxCalls        \* bound: calls the guest makes

Path == Seq({"work", "sub", "x", ".", "", "..", "__root__"}) \ {<<"">>}

ConfigType ==
    [fs : BOOLEAN, readRoots : SUBSET Path, writeRoots : SUBSET Path,
     maxBytes : 0..U64Max, maxFiles : 0..U64Max,
     http : BOOLEAN, allowOrigins : SUBSET Origins, denyOrigins : SUBSET Origins,
     maxRequests : 0..U64Max,
     env : BOOLEAN, allowKeys : SUBSET Keys]

ASSUME BrokerNumbers == U64Max \in Nat \ {0} /\ MaxCalls \in Nat /\ Sizes \subseteq 0..U64Max
ASSUME BrokerPaths   == Targets \subseteq Path /\ Configs \subseteq ConfigType

VARIABLES
    config,          \* HostCapabilityConfig of the run
    bytesUsed,       \* fs_state.bytes_used
    writtenFiles,    \* fs_state.written_files
    requestsUsed,    \* http_state.requests_used
    audit,           \* the audit trail of the calls
    policyDenial,    \* policy_denial, NoCode for None
    engineError,     \* engine_error, NoCode for None
    disk,            \* files under fs_root, and their lengths
    result,          \* how the run ended, "running" before that
    moved,           \* history: bytes the guest wrote or read through the broker
    damaged          \* history: files a failed write left behind

fsVars  == <<bytesUsed, writtenFiles, disk, moved, damaged>>
vars    == <<config, fsVars, requestsUsed, audit, policyDenial, engineError, result>>

NoCode == "none"
Absent == -1

DenialCodes ==
    {"fs_permission_missing", "fs_path_denied", "fs_quota_bytes_exceeded",
     "fs_quota_files_exceeded", "http_permission_missing", "http_origin_denied",
     "http_max_requests_exceeded", "http_response_bytes_exceeded",
     "env_permission_missing", "env_key_denied"}

FailureCodes == {"fs_write_failed", "fs_read_failed", "http_get_failed", "capability_unknown"}

\* An entry of the audit trail: a refused call with its code, or a granted
\* call with what it was for.
AuditEntry ==
    [kind : {"policy_denied"}, detail : DenialCodes] \cup
    [kind : {"engine_error"}, detail : FailureCodes] \cup
    [kind : {"fs_read", "fs_write"}, detail : Targets] \cup
    [kind : {"http_request"}, detail : Origins] \cup
    [kind : {"env_read"}, detail : Keys]
-------------------------------------------------------------------------------
(* Virtual paths and the host paths they stand for.                        *)

HasPathTraversal(t) == Contains(t, "..")

PathUnderRoot(t, root) == IsPrefix(root, t)

PathUnderRoots(t, roots) == \E root \in roots : PathUnderRoot(t, root)

\* Path::components drops the components that name no file: Named(s)[i] is
\* what it keeps of the first i.
Named(s) ==
    LET keep[i \in 0..Len(s)] ==
            IF i = 0 THEN <<>>
            ELSE IF s[i] \in {".", ""} THEN keep[i - 1] ELSE Append(keep[i - 1], s[i])
    IN  keep

Normal(s) == Named(s)[Len(s)]

SanitizeVirtualRoot(root) ==
    IF Normal(root) = <<>> THEN <<"__root__">> ELSE Normal(root)

SelectedRoot(t, roots) ==
    CHOOSE root \in roots :
        /\ PathUnderRoot(t, root)
        /\ \A other \in roots : PathUnderRoot(t, other) => Len(other) <= Len(root)

\* resolve_fs_binding_path.
RootKept(t, roots) ==                                        \* mutant: tail not cut off
    SanitizeVirtualRoot(SelectedRoot(t, roots)) \o Normal(t)
HostPath(t, roots) ==
    LET root == SelectedRoot(t, roots) IN
    SanitizeVirtualRoot(root) \o Normal(SubSeq(t, Len(root) + 1, Len(t)))

\* What follows the root must not be absolute: a doubled slash right after
\* the root makes it so, except after "/".
Resolves(t, roots) ==
    LET root == SelectedRoot(t, roots) IN
    ~ (root # <<>> /\ Len(t) >= Len(root) + 2 /\ t[Len(root) + 1] = "")

Permitted(t, roots) ==
    ~ HasPathTraversal(t) /\ PathUnderRoots(t, roots) /\ Resolves(t, roots)

\* Every host path some target stands for under the permissions of the run.
HostPaths ==
    {HostPath(t, config.readRoots) : t \in {u \in Targets : Permitted(u, config.readRoots)}} \cup
    {HostPath(t, config.writeRoots) : t \in {u \in Targets : Permitted(u, config.writeRoots)}}

Files == {h \in DOMAIN disk : disk[h] # Absent}

\* A file can be created or overwritten at h: no file stands where a
\* directory of h has to be, and h is not a directory itself.
Creatable(h) ==
    \A f \in Files : ~ IsStrictPrefix(f, h) /\ ~ IsStrictPrefix(h, f)
-------------------------------------------------------------------------------
Init ==
    /\ config \in Configs
    /\ bytesUsed = 0 /\ writtenFiles = {} /\ requestsUsed = 0
    /\ audit = <<>> /\ policyDenial = NoCode /\ engineError = NoCode
    /\ disk = [h \in HostPaths |-> Absent]
    /\ result = "running"
    /\ moved = 0 /\ damaged = {}

Entry(kind, detail) == [kind |-> kind, detail |-> detail]

\* The guest makes a call: every call leaves one entry in the audit trail.
Calls == result = "running" /\ Len(audit) < MaxCalls

Keep(old, code) == IF old = NoCode THEN code ELSE old

\* invoke_internal on a failure: the first of each kind is kept for the result.
Deny(code) ==
    /\ audit' = Append(audit, Entry("policy_denied", code))
    /\ policyDenial' = Keep(policyDenial, code)
    /\ UNCHANGED engineError

Fail(code) ==
    /\ audit' = Append(audit, Entry("engine_error", code))
    /\ engineError' = Keep(engineError, code)
    /\ UNCHANGED policyDenial

GrantSilent(kind, detail) == UNCHANGED <<audit, policyDenial, engineError>>   \* mutant: no entry
Grant(kind, detail) ==
    /\ audit' = Append(audit, Entry(kind, detail))
    /\ UNCHANGED <<policyDenial, engineError>>

PlainAdd(a, b) == a + b                                      \* mutant: no saturation
SaturatingAdd(a, b) == IF a + b > U64Max THEN U64Max ELSE a + b

BytesUnchecked(n) == FALSE                                   \* mutant: quota not tested
BytesExceeded(n) ==
    config.maxBytes > 0 /\ SaturatingAdd(bytesUsed, n) > config.maxBytes

FilesOffByOne(h) ==                                          \* mutant: > for >=
    /\ h \notin writtenFiles
    /\ config.maxFiles > 0 /\ Cardinality(writtenFiles) > config.maxFiles
FilesExceeded(h) ==
    /\ h \notin writtenFiles
    /\ config.maxFiles > 0 /\ Cardinality(writtenFiles) >= config.maxFiles

\* fs_write.  The quotas are charged after the write, so a write that fails
\* half way leaves a file that nobody counts.
FsWrite(t, n) ==
    LET h == HostPath(t, config.writeRoots) IN
    /\ Calls
    /\ \/ /\ ~ config.fs
          /\ Deny("fs_permission_missing")
          /\ UNCHANGED fsVars
       \/ /\ config.fs /\ ~ Permitted(t, config.writeRoots)
          /\ Deny("fs_path_denied")
          /\ UNCHANGED fsVars
       \/ /\ config.fs /\ Permitted(t, config.writeRoots)
          /\ \/ /\ BytesExceeded(n)
                /\ Deny("fs_quota_bytes_exceeded")
                /\ UNCHANGED fsVars
             \/ /\ ~ BytesExceeded(n) /\ FilesExceeded(h)
                /\ Deny("fs_quota_files_exceeded")
                /\ UNCHANGED fsVars
             \/ /\ ~ BytesExceeded(n) /\ ~ FilesExceeded(h) /\ Creatable(h)
                /\ bytesUsed' = SaturatingAdd(bytesUsed, n)
                /\ writtenFiles' = writtenFiles \cup {h}
                /\ disk' = [disk EXCEPT ![h] = n]
                /\ moved' = moved + n
                /\ damaged' = damaged \ {h}
                /\ Grant("fs_write", t)
             \/ /\ ~ BytesExceeded(n) /\ ~ FilesExceeded(h)
                /\ Fail("fs_write_failed")
                /\ \/ UNCHANGED fsVars
                   \/ /\ Creatable(h)
                      /\ \E part \in Sizes : part <= n /\ disk' = [disk EXCEPT ![h] = part]
                      /\ damaged' = damaged \cup {h}
                      /\ UNCHANGED <<bytesUsed, writtenFiles, moved>>
    /\ UNCHANGED <<config, requestsUsed, result>>

\* fs_read.  The file is read before the quota is looked at.
FsRead(t) ==
    LET h == HostPath(t, config.readRoots) IN
    /\ Calls
    /\ \/ ~ config.fs /\ Deny("fs_permission_missing") /\ UNCHANGED fsVars
       \/ /\ config.fs /\ ~ Permitted(t, config.readRoots)
          /\ Deny("fs_path_denied")
          /\ UNCHANGED fsVars
       \/ /\ config.fs /\ Permitted(t, config.readRoots)
          /\ \/ /\ Fail("fs_read_failed")
                /\ UNCHANGED fsVars
             \/ /\ h \in Files /\ BytesExceeded(disk[h])
                /\ Deny("fs_quota_bytes_exceeded")
                /\ UNCHANGED fsVars
             \/ /\ h \in Files /\ ~ BytesExceeded(disk[h])
                /\ bytesUsed' = SaturatingAdd(bytesUsed, disk[h])
                /\ moved' = moved + disk[h]
                /\ Grant("fs_read", t)
                /\ UNCHANGED <<writtenFiles, disk, damaged>>
    /\ UNCHANGED <<config, requestsUsed, result>>

OriginAllowed(o) == o \notin config.denyOrigins /\ o \in config.allowOrigins

RequestsUnchecked == FALSE                                   \* mutant: budget not tested
RequestsExhausted == config.maxRequests > 0 /\ requestsUsed >= config.maxRequests

\* http_get.  A request that fails, or whose answer is too long, is not counted.
HttpGet(o) ==
    /\ Calls
    /\ \/ ~ config.http /\ Deny("http_permission_missing") /\ UNCHANGED requestsUsed
       \/ /\ config.http /\ ~ OriginAllowed(o)
          /\ Deny("http_origin_denied")
          /\ UNCHANGED requestsUsed
       \/ /\ config.http /\ OriginAllowed(o) /\ RequestsExhausted
          /\ Deny("http_max_requests_exceeded")
          /\ UNCHANGED requestsUsed
       \/ /\ config.http /\ OriginAllowed(o) /\ ~ RequestsExhausted
          /\ \/ Deny("http_response_bytes_exceeded") /\ UNCHANGED requestsUsed
             \/ Fail("http_get_failed") /\ UNCHANGED requestsUsed
             \/ Grant("http_request", o) /\ requestsUsed' = requestsUsed + 1
    /\ UNCHANGED <<config, fsVars, result>>

EnvGet(k) ==
    /\ Calls
    /\ \/ ~ config.env /\ Deny("env_permission_missing")
       \/ config.env /\ k \notin config.allowKeys /\ Deny("env_key_denied")
       \/ config.env /\ k \in config.allowKeys /\ Grant("env_read", k)
    /\ UNCHANGED <<config, fsVars, requestsUsed, result>>

UnknownCall ==
    /\ Calls
    /\ Fail("capability_unknown")
    /\ UNCHANGED <<config, fsVars, requestsUsed, result>>

Outcomes == {"ok", "engine_error", "timeout", "memory_limit", "output_limit"}

\* The end of WasiExecutor::run: what the guest did, overflowed being that it
\* printed too much, is looked at in this order.
GuestOutcomeFirst(overflowed, outcome) ==                    \* mutant: denial looked at last
    IF outcome = "ok" /\ ~ overflowed THEN "ok" ELSE "engine_error"
Classify(overflowed, outcome) ==
    IF overflowed THEN "output_limit"
    ELSE IF policyDenial # NoCode THEN "policy_denied"
    ELSE IF engineError # NoCode THEN "engine_error"
    ELSE outcome

\* The run ends; removing its directory may fail, which nobody is told.
Finish ==
    /\ result = "running"
    /\ \E overflowed \in BOOLEAN, outcome \in Outcomes :
          result' = Classify(overflowed, outcome)
    /\ disk' \in {[h \in HostPaths |-> Absent], disk}
    /\ UNCHANGED <<config, bytesUsed, writtenFiles, moved, damaged, requestsUsed, audit,
                   policyDenial, engineError>>
-------------------------------------------------------------------------------
Next ==
    \/ \E t \in Targets : FsRead(t) \/ \E n \in Sizes : FsWrite(t, n)
    \/ \E o \in Origins : HttpGet(o)
    \/ \E k \in Keys : EnvGet(k)
    \/ UnknownCall
    \/ Finish

Spec == Init /\ [][Next]_vars
-------------------------------------------------------------------------------
TypeOK ==
    /\ config \in Configs
    /\ bytesUsed \in 0..U64Max
    /\ writtenFiles \subseteq HostPaths
    /\ requestsUsed \in Nat
    /\ audit \in Seq(AuditEntry)
    /\ policyDenial \in DenialCodes \cup {NoCode}
    /\ engineError \in FailureCodes \cup {NoCode}
    /\ disk \in [HostPaths -> Nat \cup {Absent}]
    /\ result \in {"running", "policy_denied"} \cup Outcomes
    /\ moved \in Nat
    /\ damaged \subseteq HostPaths

\* The budgets of the permissions hold for the whole run, over every mix of
\* calls that are granted, denied and failed: the bytes that went through the
\* broker, the files it wrote (a failed write may leave one more behind), and
\* the requests that succeeded.  A budget of 0 is no budget; the sum of the
\* bytes saturates, so a budget of U64Max is none either.
BytesWithinBudget ==
    config.maxBytes > 0 /\ config.maxBytes < U64Max => moved <= config.maxBytes

FilesWithinBudget ==
    config.maxFiles > 0 => Cardinality(Files \ damaged) <= config.maxFiles

RequestsWithinBudget ==
    config.maxRequests > 0 => requestsUsed <= config.maxRequests

Refused(e) == e.kind \in {"policy_denied", "engine_error"}

\* A guest that catches the exception does not hide a refused call: the run
\* never ends "ok" after one, and the denial reported is the first one of the
\* audit trail.
NoSilentDenial ==
    /\ result = "ok" => \A i \in 1..Len(audit) : ~ Refused(audit[i])
    /\ policyDenial # NoCode =>
          \E i \in 1..Len(audit) :
             /\ audit[i] = Entry("policy_denied", policyDenial)
             /\ \A j \in 1..i - 1 : audit[j].kind # "policy_denied"

\* Whatever is on the disk was written for a call that the audit trail shows
\* as granted, or was left by a write that it shows as failed.
EffectsAudited ==
    \A h \in Files :
        \E i \in 1..Len(audit) :
            \/ /\ audit[i].kind = "fs_write" /\ h \notin damaged
               /\ Permitted(audit[i].detail, config.writeRoots)
               /\ HostPath(audit[i].detail, config.writeRoots) = h
            \/ audit[i] = Entry("engine_error", "fs_write_failed") /\ h \in damaged

\* A path that may be written and read names the same file for both, whatever
\* roots the two permissions list and however they nest; the roots that name no
\* file, "/" and "/.", are apart.
SameFile ==
    \A t \in Targets :
        /\ Permitted(t, config.readRoots) /\ Permitted(t, config.writeRoots)
        /\ Normal(SelectedRoot(t, config.readRoots)) # <<>>
        /\ Normal(SelectedRoot(t, config.writeRoots)) # <<>>
        => HostPath(t, config.readRoots) = HostPath(t, config.writeRoots)
===============================================================================
