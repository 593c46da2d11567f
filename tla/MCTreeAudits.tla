---------------------------- MODULE MCTreeAudits ----------------------------
(* An instance of TreeAudits for TLC: two directories below one, four      *)
(* files; contents 1 (harmless), 2 (tells a token) and 3 (no text).        *)
EXTENDS TreeAudits, TLC

MCParent == [p \in 1..6 |-> CASE p \in {1, 2} -> 0 [] p \in {3, 4, 6} -> 1 [] OTHER -> 2]
MCData == {<<1>>, <<2>>}
MCPair == 3 :> <<1>> @@ 5 :> <<1>>
MCFilesFor ==
  [ adapter |-> {MCPair}, scan |-> {3 :> <<1>>, 3 :> <<3>>},
    seal |-> {[p \in 3..4 |-> <<1>>], (3 :> <<1>> @@ 4 :> <<1>> @@ 5 :> <<1, 2>>)}, baseline |-> {MCPair} ]
MCSound == {<< <<1>>, <<1>> >>, << <<2>>, <<1>> >>, << <<2>>, <<2>> >>}
MCPathsFor ==
  [adapter |-> {0, 1, 2, 3, 5}, scan |-> {1, 2, 3, 5}, seal |-> 1..6, baseline |-> {}]
MCRootChoices == {<<0>>, <<1, 2>>}
MCTelling == {<<2>>}
MCBinary == {<<3>>}
MCArtifacts == <<3, 4>>
MCProtected == <<"rule", "trees">>
=============================================================================
