----------------------------- MODULE SafetyGate -----------------------------
(***************************************************************************)
(* The gates an event passes before the Lambda talks to ONTAP:             *)
(* shared/safety.py (allowlist, keep-list, maintenance list, dry run) and  *)
(* shared/fsx_helpers.py (which file system a secret belongs to).          *)
(***************************************************************************)
EXTENDS OntapObjects

CONSTANTS
    Allowlist,          \* ONTAP_OPS_ALLOWLIST
    KeepList,           \* ONTAP_OPS_KEEP_LIST
    MaintenanceList,    \* ONTAP_OPS_MAINTENANCE_FSIDS
    Secrets,            \* Secrets Manager secrets
    SecretTag,          \* the FileSystemId tag of each secret, or None
    SecretText,         \* the first fs-... token of its description, or None
    Endpoints           \* file systems with an ONTAP management endpoint

ASSUME GateAssumption ==
    /\ Allowlist \cup KeepList \cup MaintenanceList \subseteq FileSystems
    /\ SecretTag \in [Secrets -> FileSystems \cup {None}]
    /\ SecretText \in [Secrets -> FileSystems \cup {None}]
    /\ Endpoints \subseteq FileSystems

\* A teardown: a non-empty allowlist that names the file system, and a
\* keep-list that does not.
AssertInScope(fs) ==
    /\ Allowlist # {}
    /\ fs \notin KeepList
    /\ fs \in Allowlist

\* A maintenance operation: either list names it; the keep-list is not read.
AssertMaintenanceAllowed(fs) == fs \in Allowlist \cup MaintenanceList

\* Mutant: every teardown acts.
MutIsDryRun(event) == FALSE

\* Only confirm makes a teardown act.
IsDryRun(event) == ~event.confirm

\* The tag decides; the description is read only when there is no tag.
FileSystemIdFromSecret(secret) ==
    IF SecretTag[secret] # None THEN SecretTag[secret] ELSE SecretText[secret]

SecretVerified(secret, fs) == FileSystemIdFromSecret(secret) = fs
=============================================================================
