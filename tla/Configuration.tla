---------------------------- MODULE Configuration ----------------------------
(****************************************************************************)
(* How the quota project is found and judged: resolve_quota_project,         *)
(* adc_file_path, quota_project_from_adc and validate_quota_project of       *)
(* src/src/config.rs.  A word is a sequence of characters; the lengths are   *)
(* scaled down, and keep their order.                                        *)
(****************************************************************************)
EXTENDS Filtering, SequencesExt

CONSTANTS
    Lowercase, Digits,      \* the ASCII letters and digits of the model
    MinId, MaxId,           \* PROJECT_ID_LEN
    MaxNumber               \* the end of PROJECT_NUMBER_LEN

ASSUME LengthsAssumption ==
    /\ MinId \in Nat \ {0} /\ MaxId \in Nat /\ MaxNumber \in Nat
    /\ MinId <= MaxNumber /\ MaxNumber < MaxId
\* Letters, digits and the other characters the code tells apart are different.
ASSUME CharactersAssumption ==
    Lowercase \cap Digits = {} /\ {".", ",", "\"", "-", " "} \cap (Lowercase \cup Digits) = {}

\* A value that is not there.
Unset == [is |-> "unset"]
Value(word) == [is |-> "set", word |-> word]

\* A file of Application Default Credentials, if it can be read.
Unreadable == [is |-> "unreadable"]
Invalid == [is |-> "invalid"]
AdcFile(value) == [is |-> "adc", quota_project_id |-> value]

\* Set, and not only to white space.
NonBlank(value) == value.is = "set" /\ ToSet(value.word) \ {" "} # {}

\* quota_project_from_adc: what cannot be read or parsed names no project.
QuotaProjectFromAdc(file) ==
    IF file.is = "adc" THEN file.quota_project_id ELSE Unset

\* adc_file_path: the named file, and only if none is named the one at home.
AdcFilePath(sources) == IF sources.explicit = Unset THEN sources.home ELSE sources.explicit

\* The values that may name the project, in their order: the flag, the two
\* variables and the file.
ProjectValues(sources) ==
    <<sources.flag, sources.mcp_env, sources.gcp_env,
      QuotaProjectFromAdc(AdcFilePath(sources))>>

\* resolve_quota_project: the first that is not blank; none, if all are.
ResolveQuotaProject(sources) ==
    LET values == ProjectValues(sources)
    IN  Kept(values, {value \in ToSet(values) : NonBlank(value)})

\* Mutant: an id may begin with a hyphen.
BugIsProject(word) ==
    \/ /\ word # <<>> /\ ToSet(word) \subseteq Digits /\ Len(word) <= MaxNumber
    \/ /\ Len(word) \in MinId .. MaxId
       /\ ToSet(word) \subseteq Lowercase \cup Digits \cup {"-"}
       /\ Head(word) \notin Digits
       /\ Last(word) # "-"

\* validate_quota_project: all digits and a project number, or a project id.
IsProject(word) ==
    IF word # <<>> /\ ToSet(word) \subseteq Digits
       THEN Len(word) <= MaxNumber
       ELSE /\ Len(word) \in MinId .. MaxId
            /\ ToSet(word) \subseteq Lowercase \cup Digits \cup {"-"}
            /\ Head(word) \in Lowercase
            /\ Last(word) # "-"

\* Config::resolve: the quota projects a process may go on with, one or none.
\* What the first source says is judged; a bad one is not passed over.
Resolved(sources) ==
    LET found == ResolveQuotaProject(sources)
    IN  IF found # <<>> /\ IsProject(Head(found).word) THEN {Head(found).word} ELSE {}
=============================================================================
