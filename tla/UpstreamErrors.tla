---------------------------- MODULE UpstreamErrors ----------------------------
(****************************************************************************)
(* What is made of an upstream's refusal: classify_upstream and the parsing  *)
(* of its body in src/src/error.rs, and how proxy.rs comes by a status when  *)
(* rmcp only has a text.                                                     *)
(*                                                                           *)
(* A text is a sequence of the pieces the code looks for, in their order;    *)
(* what stands between them is left out, and so is the cleaning of a body    *)
(* that is passed through.                                                   *)
(****************************************************************************)
EXTENDS Configuration

CONSTANTS
    MaxApiName,     \* MAX_API_NAME_LEN
    MaxProject      \* MAX_PROJECT_ID_LEN

\* The messages Google answers with, by the phrase they are known by ...
Phrase(of) == [is |-> "phrase", of |-> of]
\* ... "has not been used in project" and the word behind it ...
Disabled(word) == [is |-> "disabled", word |-> word]
\* ... "/apis/api/" and what follows, up to a slash, a space or the like ...
Console(word) == [is |-> "console", word |-> word]
\* ... and "HTTP " with a number.
Http(code) == [is |-> "http", code |-> code]

\* The pieces of one kind in a text.
Pieces(text, kind) == Kept(text, {piece \in ToSet(text) : piece.is = kind})

Says(text, of) == Phrase(of) \in ToSet(text)

-----------------------------------------------------------------------------
(* error.rs *)

\* accept_api_name and accept_project_id.
AcceptApiName(word) ==
    /\ word # <<>> /\ Len(word) <= MaxApiName
    /\ Head(word) # "-"
    /\ ToSet(word) \subseteq Lowercase \cup Digits \cup {".", "-"}

AcceptProjectId(word) ==
    /\ word # <<>> /\ Len(word) <= MaxProject
    /\ Head(word) # "-"
    /\ ToSet(word) \subseteq Lowercase \cup Digits \cup {"-"}

Punctuation == {".", ",", "\""}

\* trim_end_matches: the longest beginning that ends in none of these.
Trimmed(word) ==
    LET kept == {n \in DOMAIN word : word[n] \notin Punctuation}
    IN  SubSeq(word, 1, Max(kept \cup {0}))

Placeholder == <<"<", ">">>

\* parse_service_disabled: the first of each, if it is acceptable.
ParseServiceDisabled(text) ==
    LET api == Pieces(text, "console")
        project == Pieces(text, "disabled")
    IN  [is |-> "ServiceDisabled",
         api |-> IF api # <<>> /\ AcceptApiName(Head(api).word)
                    THEN Head(api).word ELSE Placeholder,
         project |-> IF project # <<>> /\ AcceptProjectId(Trimmed(Head(project).word))
                        THEN Trimmed(Head(project).word) ELSE Placeholder]

\* classify_upstream.
Classified(status, text) ==
    CASE status = 401 /\ Says(text, "credential") -> [is |-> "MissingCredential"]
      [] status = 401 /\ Says(text, "API_key") /\ ~Says(text, "credential") ->
            [is |-> "ApiKeyUnsupported"]
      [] status = 403 /\ Says(text, "quota_project") -> [is |-> "QuotaProjectMissing"]
      [] status = 403 /\ Pieces(text, "disabled") # <<>> /\ ~Says(text, "quota_project") ->
            ParseServiceDisabled(text)
      [] status = 403 /\ Pieces(text, "disabled") = <<>> /\ ~Says(text, "quota_project") ->
            [is |-> "PermissionDenied"]
      [] OTHER -> [is |-> "Other", status |-> status]

-----------------------------------------------------------------------------
(* proxy.rs: an error is a chain of texts, and may carry a status *)

\* render_chain: a text that repeats an earlier one is left out.
RenderChain(error) ==
    LET chain == error.chain
        Repeats(n) == \E m \in 1 .. n - 1 : chain[m] = chain[n]
        new == Kept([n \in DOMAIN chain |-> n], {n \in DOMAIN chain : ~Repeats(n)})
    IN  FlattenSeq([n \in DOMAIN new |-> chain[new[n]]])

\* Mutant: the first number after "HTTP " is the status.
BugStatusFromText(text) == [n \in 1 .. Len(Pieces(text, "http")) |-> Pieces(text, "http")[n].code]

\* status_from_text: the numbers that may be a status, the first of which is it.
StatusFromText(text) ==
    LET found == Kept(text, {piece \in ToSet(text) :
                               piece.is = "http" /\ piece.code \in 100 .. 599})
    IN  [n \in DOMAIN found |-> found[n].code]

\* recovered_status: a typed status is preferred.
RecoveredStatus(error) == error.typed \o StatusFromText(RenderChain(error))

\* upstream_message.
UpstreamMessage(error) ==
    IF RecoveredStatus(error) = <<>> THEN [is |-> "Unclassified"]
    ELSE Classified(Head(RecoveredStatus(error)), RenderChain(error))
=============================================================================
