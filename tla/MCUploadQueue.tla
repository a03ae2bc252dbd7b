---------------------------- MODULE MCUploadQueue ----------------------------
EXTENDS UploadQueue, TLC

MCItems == {"ax", "ay", "bx", "r1", "r2", "s1", "big", "t1", "o1"}
MCPathOf == [i \in MCItems |-> CASE i \in {"ax", "ay"} -> <<"a", "x">> [] i = "bx" -> <<"b", "x">> [] OTHER -> <<>>]
MCNameOf == [i \in MCItems |-> CASE i \in {"r1", "s1"} -> "n1" [] i = "r2" -> "n2"
                                 [] i \in {"big", "t1"} -> "n3" [] OTHER -> i]
MCContentOf == [i \in MCItems |-> i]

\* A folder of folders; questions about two files of one name; a large file with
\* another of its name, and with one of another name.
MCSelections ==
    {[drops |-> <<<<"ax", "ay", "bx">>, <<>>>>, stored |-> <<>>, faults |-> 2, reloads |-> 0, cancels |-> 0],
     [drops |-> <<<<"r1", "r2">>, <<"s1">>>>, stored |-> (<<0, "n1">> :> "old") @@ (<<0, "n2">> :> "r2"),
      faults |-> 1, reloads |-> 0, cancels |-> 1],
     [drops |-> <<<<"big">>, <<"t1">>>>, stored |-> <<>>, faults |-> 2, reloads |-> 1, cancels |-> 1],
     [drops |-> <<<<"big">>, <<"o1">>>>, stored |-> <<>>, faults |-> 0, reloads |-> 0, cancels |-> 1]}
=============================================================================
