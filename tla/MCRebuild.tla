----------------------------- MODULE MCRebuild -----------------------------
(***************************************************************************)
(* Small instances of Rebuild for TLC.                                     *)
(***************************************************************************)
EXTENDS Rebuild

Tab(leaves) == [leaves |-> leaves, commands |-> leaves, labels |-> {}]
Single == Tab({<<>>})
Pair == [Tab({<<1>>, <<2>>}) EXCEPT !.labels = {<<2>>}]

\* The trees with three and four leaves, and one of each command and label.
Trees ==
    {Tab({<<1, 1>>, <<1, 2>>, <<2>>}),
     [Tab({<<1>>, <<2, 1>>, <<2, 2>>}) EXCEPT !.commands = {<<1>>, <<2, 2>>}, !.labels = {<<2, 1>>}],
     Tab({<<1, 1>>, <<1, 2>>, <<2, 1>>, <<2, 2>>}),
     Tab({<<1>>, <<2, 1, 1>>, <<2, 1, 2>>, <<2, 2>>}),
     Tab({<<1, 1>>, <<1, 2, 1>>, <<1, 2, 2>>, <<2>>}),
     Tab({<<1, 1, 1>>, <<1, 1, 2>>, <<1, 2>>, <<2>>}),
     Tab({<<1>>, <<2, 1>>, <<2, 2, 1>>, <<2, 2, 2>>})}

\* One workspace with one of the trees; two workspaces, one of them with two tabs.
Instances ==
    {<<<<tree>>>> : tree \in Trees} \union {<<<<Single, Pair>>, <<Tab({<<1>>, <<2>>})>>>>}
=============================================================================
