---------------------------- MODULE SnapshotFiles ----------------------------
(****************************************************************************)
(* The life of data/catalog-snapshot.json and of the archive derived from    *)
(* it, data/catalog-snapshot.bin: the snapshot command writes the pair       *)
(* (run_snapshot and write_snapshot_outputs of src/src/main.rs), archive.rs  *)
(* encodes and checks the archive, a build embeds it, the identity tests     *)
(* hold the pair together, and catalog.rs turns either file into a catalog.  *)
(*                                                                           *)
(* Each file is written by truncating and filling it, and a command may be   *)
(* killed between any two of its steps.  CatalogRefresh has the fan-out in   *)
(* detail; here it yields any catalog.  Of a snapshot only what decides the  *)
(* fate of the files is kept: its services in order, and what is odd about   *)
(* it, if anything.  People, cargo and the disk are external.                *)
(****************************************************************************)
EXTENDS Naturals, FiniteSets, Functions, SequencesExt

CONSTANTS
    Services,       \* the registry's service ids, as numbers in lexical order
    MaxFormat,      \* bound: archive format versions
    MaxCommands,    \* bound: snapshot commands run
    MaxEdits        \* bound: edits of the JSON by hand

ASSUME FilesAssumption ==
    /\ Services \subseteq Nat /\ IsFiniteSet(Services) /\ Services # {}
    /\ MaxFormat \in Nat \ {0} /\ MaxCommands \in Nat /\ MaxEdits \in Nat

Lists == UNION {[1 .. n -> Services] : n \in 0 .. Cardinality(Services)}

\* What may be odd about a snapshot: a tool that names another service than the
\* one it is listed under, a schema over MAX_SCHEMA_BYTES, or a tool with a
\* field that rmcp knows and ToolEntry has no room for, as a title.
Oddities == {"none", "misfiled", "huge", "titled"}

\* Snapshot.  generated_at is the number of the command that captured it.
Snapshots ==
    [generated_at : 0 .. MaxCommands, services : Lists, odd : Oddities]

\* SnapshotArchive, behind its header.
Archives ==
    [format : 1 .. MaxFormat, generated_at : 0 .. MaxCommands, services : Lists]

\* What a file is.  A torn file is any proper prefix of what was being written,
\* or text that is no JSON.
Absent == [is |-> "absent"]
Torn   == [is |-> "torn"]
Whole(content) == [is |-> "whole", holds |-> content]
Files(Contents) == {Absent, Torn} \cup {Whole(content) : content \in Contents}

\* The snapshot command: first it obtains a snapshot, then it writes one.
Idle == [at |-> "idle"]
Commands ==
    {Idle} \cup [at : {"load", "fetch", "fetch partial"}] \cup
    [at : {"json", "json open", "archive", "bin", "bin open"}, snapshot : Snapshots]

VARIABLES
    json,           \* data/catalog-snapshot.json
    bin,            \* data/catalog-snapshot.bin
    format,         \* ARCHIVE_FORMAT_VERSION in the tree's source
    tool,           \* the format version of the binary that runs the commands
    command,        \* the snapshot command that is running
    exit,           \* how the last one ended, "edited" if the JSON was since
    published,      \* the last release: its JSON, format and embedded archive
    commands, edits,    \* counters, for the bounds

    \* History, read by no guard:
    partial         \* a partial capture or an edit was ever asked for

vars == <<json, bin, format, tool, command, exit, published, commands, edits, partial>>

TypeOK ==
    /\ json \in Files(Snapshots)
    /\ bin \in Files(Archives)
    /\ format \in 1 .. MaxFormat /\ tool \in 1 .. MaxFormat
    /\ command \in Commands
    /\ exit \in {"none", "running", "ok", "printed", "refused", "failed", "killed", "edited"}
    /\ published \in {Absent} \cup
          [reviewed : Snapshots, format : 1 .. MaxFormat, embedded : Archives]
    /\ commands \in 0 .. MaxCommands /\ edits \in 0 .. MaxEdits
    /\ partial \in BOOLEAN

-----------------------------------------------------------------------------
(* Catalogs and archives *)

\* What sorting makes of a list.
InOrder(list) ==
    {sorted \in {[i \in DOMAIN list |-> list[p[i]]] :
                    p \in Bijection(DOMAIN list, DOMAIN list)} :
        \A i, j \in DOMAIN list : i < j => sorted[i] <= sorted[j]}

\* Catalog::new sorts the services of a snapshot ...
Sorted(snapshot) ==
    {[snapshot EXCEPT !.services = list] : list \in InOrder(snapshot.services)}

\* ... and refuses a name claimed twice.  A name is prefixed with its service.
IsCatalog(snapshot) == IsInjective(snapshot.services)

\* build and compress_schema refuse a tool filed under another service and a
\* schema that decompress_schema would not inflate.
Archivable(snapshot) == snapshot.odd \notin {"misfiled", "huge"}

\* build: what the archive keeps of a snapshot it accepts.
ArchiveOf(snapshot, version) ==
    [format |-> version, generated_at |-> snapshot.generated_at,
     services |-> snapshot.services]

\* access: a header and a payload of the reader's own version.
Accessible(file, version) == file.is = "whole" /\ file.holds.format = version

\* from_archive: a tool's service is the one it is listed under.
FromArchive(archive) ==
    {[generated_at |-> archive.generated_at, services |-> list, odd |-> "none"] :
        list \in InOrder(archive.services)}

\* embedded_catalog, in a binary of this version: the catalog, if it starts.
Embedded(file, version) ==
    IF Accessible(file, version) /\ IsCatalog(file.holds)
       THEN FromArchive(file.holds) ELSE {}

\* load_snapshot_file and into_catalog: no fallback.
Loaded(file) ==
    IF file.is = "whole" /\ IsCatalog(file.holds) THEN Sorted(file.holds) ELSE {}

-----------------------------------------------------------------------------
(* The snapshot command *)

Start(source) ==
    /\ command = Idle
    /\ commands < MaxCommands
    /\ commands' = commands + 1
    /\ command' = [at |-> source]
    /\ exit' = "running"
    /\ partial' = (partial \/ source = "fetch partial")
    /\ UNCHANGED <<json, bin, format, tool, published, edits>>

Exit(how) ==
    /\ command' = Idle
    /\ exit' = how
    /\ UNCHANGED <<format, tool, published, commands, edits, partial>>

\* The snapshot is at hand: with --out it is written, else printed.
Emit(snapshot) ==
    /\ UNCHANGED <<json, bin>>
    /\ \/ /\ command' = [at |-> "json", snapshot |-> snapshot]
          /\ UNCHANGED <<format, tool, exit, published, commands, edits, partial>>
       \/ Exit("printed")

\* --from: the committed JSON, re-encoded with the stamp it has.
Load ==
    /\ command.at = "load"
    /\ IF Loaded(json) = {}
          THEN Exit("refused") /\ UNCHANGED <<json, bin>>
          ELSE \E snapshot \in Loaded(json) : Emit(snapshot)

\* Mutant: an empty fan-out is the only short one.
BugFetch(services, odd) ==
    /\ command.at \in {"fetch", "fetch partial"}
    /\ IF services = <<>> /\ command.at = "fetch"
          THEN Exit("refused") /\ UNCHANGED <<json, bin>>
          ELSE Emit([generated_at |-> commands, services |-> services, odd |-> odd])

\* The fan-out.  What it lists is filed under the service that listed it.
Fetch(services, odd) ==
    /\ command.at \in {"fetch", "fetch partial"}
    /\ IF Len(services) < Cardinality(Services) /\ command.at = "fetch"
          THEN Exit("refused") /\ UNCHANGED <<json, bin>>
          ELSE Emit([generated_at |-> commands, services |-> services, odd |-> odd])

\* write_snapshot_outputs goes on to its next step.
Proceed(at) ==
    /\ command' = [command EXCEPT !.at = at]
    /\ UNCHANGED <<format, tool, exit, published, commands, edits, partial>>

\* std::fs::write(&path, &json): truncated, then filled.
OpenJson ==
    /\ command.at = "json"
    /\ json' = Torn
    /\ Proceed("json open")
    /\ UNCHANGED bin

FillJson ==
    /\ command.at = "json open"
    /\ json' = Whole(command.snapshot)
    /\ Proceed("archive")
    /\ UNCHANGED bin

\* archive::build(&snapshot).
BuildArchive ==
    /\ command.at = "archive"
    /\ IF Archivable(command.snapshot) THEN Proceed("bin") ELSE Exit("failed")
    /\ UNCHANGED <<json, bin>>

\* std::fs::write(&archive_path, &archive).
OpenBin ==
    /\ command.at = "bin"
    /\ bin' = Torn
    /\ Proceed("bin open")
    /\ UNCHANGED json

FillBin ==
    /\ command.at = "bin open"
    /\ bin' = Whole(ArchiveOf(command.snapshot, tool))
    /\ Exit("ok")
    /\ UNCHANGED json

\* Mutant: an archive that cannot be written is only warned about.
BugWriteFails ==
    /\ command.at \in {"json", "json open", "bin", "bin open"}
    /\ Exit(IF command.at \in {"bin", "bin open"} THEN "ok" ELSE "failed")
    /\ UNCHANGED <<json, bin>>

\* The disk refuses to open a file or to take its bytes.
WriteFails ==
    /\ command.at \in {"json", "json open", "bin", "bin open"}
    /\ Exit("failed")
    /\ UNCHANGED <<json, bin>>

\* The process is killed.
Kill ==
    /\ command # Idle
    /\ Exit("killed")
    /\ UNCHANGED <<json, bin>>

-----------------------------------------------------------------------------
(* The repository *)

\* The JSON is edited, merged or broken by hand.
Edit(file) ==
    /\ edits < MaxEdits
    /\ command = Idle
    /\ json' = file
    /\ exit' = "edited"
    /\ edits' = edits + 1
    /\ partial' = TRUE
    /\ UNCHANGED <<bin, format, tool, command, published, commands>>

\* The archived layout changes, and the constant with it.
Bump ==
    /\ format < MaxFormat
    /\ format' = format + 1
    /\ UNCHANGED <<json, bin, tool, command, exit, published, commands, edits, partial>>

\* cargo build: include_bytes! needs the archive, of whatever version.
Build ==
    /\ bin # Absent
    /\ command = Idle
    /\ tool' = format
    /\ UNCHANGED <<json, bin, format, command, exit, published, commands, edits, partial>>

\* Mutant: only the bytes of the archive are compared.
BugIdentityHolds ==
    /\ json.is = "whole"
    /\ Archivable(json.holds)
    /\ bin = Whole(ArchiveOf(json.holds, format))

\* committed_archive_matches_the_committed_json, and
\* archived_catalog_serializes_back_to_the_committed_json.
IdentityHolds ==
    /\ json.is = "whole"
    /\ Archivable(json.holds)
    /\ bin = Whole(ArchiveOf(json.holds, format))
    /\ Embedded(bin, format) = {json.holds}

\* A tag on a commit whose tests pass is published.
Publish ==
    /\ command = Idle
    /\ IdentityHolds
    /\ published' = [reviewed |-> json.holds, format |-> format, embedded |-> bin.holds]
    /\ UNCHANGED <<json, bin, format, tool, command, exit, commands, edits, partial>>

\* What a fan-out yields: each service that answered, in order.
Captures == {list \in Lists : \A i, j \in DOMAIN list : i < j => list[i] < list[j]}

Init ==
    /\ \E services \in Captures :
          LET first == [generated_at |-> 0, services |-> services, odd |-> "none"]
          IN  /\ ToSet(services) = Services
              /\ json = Whole(first) /\ bin = Whole(ArchiveOf(first, 1))
    /\ format = 1 /\ tool = 1
    /\ command = Idle
    /\ exit = "none"
    /\ published = Absent
    /\ commands = 0 /\ edits = 0
    /\ partial = FALSE

SnapshotCommand ==
    \/ \E source \in {"load", "fetch", "fetch partial"} : Start(source)
    \/ Load
    \/ \E services \in Captures, odd \in Oddities \ {"misfiled"} : Fetch(services, odd)
    \/ OpenJson \/ FillJson \/ BuildArchive \/ OpenBin \/ FillBin
    \/ WriteFails \/ Kill

Repository ==
    \/ \E snapshot \in Snapshots : Edit(Whole(snapshot))
    \/ Edit(Torn)
    \/ Bump \/ Build \/ Publish

Next == SnapshotCommand \/ Repository

Spec == Init /\ [][Next]_vars

-----------------------------------------------------------------------------
(* Properties *)

\* main.rs write_snapshot_outputs: when the command says it succeeded, the two
\* files are one catalog at one time, whatever befell them before: the archive
\* is what the JSON re-encodes to, and re-encoding it again changes neither.
SuccessLeavesAPair ==
    exit = "ok" =>
       /\ Loaded(json) = {json.holds}
       /\ \E version \in 1 .. format : bin = Whole(ArchiveOf(json.holds, version))

\* archive.rs on its identity tests, "any skew fails the suite, so it cannot
\* land": a published binary starts, and serves the catalog that was reviewed as
\* JSON, however the files came about and whichever binary wrote them.
PublishedServesReviewed ==
    published # Absent =>
       Embedded(Whole(published.embedded), published.format) = Loaded(Whole(published.reviewed))

\* main.rs Snapshot::allow_partial: "a snapshot silently missing services becomes
\* a binary that silently cannot offer their tools": a published binary lacks a
\* service only if someone asked for a partial capture, or edited the JSON.
PublishedIsWhole ==
    published # Absent /\ ~partial => ToSet(published.embedded.services) = Services
=============================================================================
