-------------------------- MODULE MCBackgroundStartup --------------------------
(* Bounds for BackgroundStartup. *)
EXTENDS BackgroundStartup

\* Two of the three services belong to one API, as the Vertex suites do.
AWord == <<"a", ".", "a">>
MCApis == {AWord, <<"b">>}
MCApiOf == [s \in Services |-> IF s = 1 THEN <<"b">> ELSE AWord]

\* Every word up to one character longer than a project id, in the flag.
Letters == {"a", "1", "-", "A"}
InFlag == {[flag |-> Value(word), mcp_env |-> Unset, gcp_env |-> Unset,
            explicit |-> Unset, home |-> Unreadable] :
             word \in BoundedSeq(Letters, MaxId + 1)}

\* Every way to have no project, a blank, a bad or a good one in each source.
Good(letter) == Value(<<"a", letter>>)
Options(letter) == {Unset, Value(<<" ">>), Value(<<"A">>), Good(letter)}
Adc(letter) == {Unreadable, Invalid} \cup {AdcFile(value) : value \in Options(letter)}
InAll == [flag : Options("a"), mcp_env : Options("1"), gcp_env : {Unset, Good("b")},
          explicit : {Unset} \cup Adc("a"), home : Adc("1")]

WithAll == [sources : InFlag \cup InAll, only : {{}}, exclude : {{}}]
\* The project and the selection never meet: each varies while the other does not.
MCSettings ==
    WithAll \cup [sources : {[flag |-> Good("1"), mcp_env |-> Unset, gcp_env |-> Unset,
                              explicit |-> Unset, home |-> Unreadable]},
                  only : SUBSET Services, exclude : SUBSET Services]

MCJunk == {<<"-", "a">>, <<"A">>}
================================================================================
