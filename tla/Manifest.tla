------------------------------ MODULE Manifest ------------------------------
(***************************************************************************)
(* What a batch may be, at both ends: the limits of protocol.ts, what      *)
(* start() of sender.ts refuses, what manifestFromMessage accepts, and     *)
(* what assessCapability of sink.ts takes.  A file is [path, name, size];  *)
(* a MANIFEST carries the files and the total its sender claims.           *)
(***************************************************************************)
EXTENDS Names

CONSTANTS MaxFiles,      \* MAX_FILES_PER_TRANSFER
          MaxBytes,      \* MAX_TRANSFER_BYTES
          MemoryLimit    \* MEMORY_FALLBACK_LIMIT

ASSUME LimitsAssumption == MaxFiles \in Nat /\ MaxBytes \in Nat /\ MemoryLimit \in Nat

TotalOf(files) == FoldLeft(LAMBDA sum, f : sum + f.size, 0, files)

\* start(): what keeps a batch from becoming a session.
Startable(files) ==
  Len(files) \in 1 .. MaxFiles /\ TotalOf(files) \in 1 .. MaxBytes

\* One file of describeFiles, and of manifestFromMessage.
Cleaned(f) == [path |-> Pathname(f.path), name |-> Filename(f.name), size |-> f.size]

Described(files) == [k \in DOMAIN files |-> Cleaned(files[k])]

\* manifestToMessage
ToMessage(files) == [files |-> files, total |-> TotalOf(files)]

\* Mutant: a batch at the limit is refused.
ParsesBelow(m) ==
  /\ Len(m.files) \in 1 .. MaxFiles
  /\ \A k \in DOMAIN m.files : m.files[k].size > 0
  /\ TotalOf(m.files) < MaxBytes /\ m.total = TotalOf(m.files)

\* manifestFromMessage does not throw.
Parses(m) ==
  /\ Len(m.files) \in 1 .. MaxFiles
  /\ \A k \in DOMAIN m.files : m.files[k].size > 0
  /\ TotalOf(m.files) <= MaxBytes /\ m.total = TotalOf(m.files)

\* The files manifestFromMessage returns.
Read(m) == [k \in DOMAIN m.files |-> Cleaned(m.files[k])]

\* Mutant: each file is held against the limit on its own.
CapabilityPerFile(browser, files) ==
  IF browser.save THEN "disk"
  ELSE IF \A k \in DOMAIN files : files[k].size <= MemoryLimit THEN "memory" ELSE "unsupported"

\* assessCapability
Capability(browser, files) ==
  IF browser.save THEN "disk"
  ELSE IF TotalOf(files) <= MemoryLimit THEN "memory" ELSE "unsupported"
=============================================================================
