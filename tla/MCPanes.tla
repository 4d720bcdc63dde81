------------------------------ MODULE MCPanes ------------------------------
(***************************************************************************)
(* A small instance of Panes for TLC: the scenes a check finds, and the    *)
(* arguments a program of a pane runs with.                                *)
(***************************************************************************)
EXTENDS Panes, TLC

CONSTANTS main, worker

P(parent, group, image, thread) ==
    [start |-> 0, parent |-> parent, group |-> group, image |-> image, thread |-> thread]

Scene(others, fg) ==
    [foreground |-> fg,
     procs |-> (2 :> P(0, 2, "shell", main)) @@ others @@ [p \in Pids |-> None]]

\* The shell has number 2.  It has a job in the background and is idle once that exits; it
\* runs a program, one with a child, one with a grandchild, a pipeline, a pipeline whose
\* second member has a child.
MCScenes ==
    {Scene(3 :> P(2, 3, "tool", worker), 2),
     Scene(3 :> P(2, 3, "tool", main), 3),
     Scene(3 :> P(2, 3, "tool", main) @@ 1 :> P(3, 3, "tool", main), 3),
     Scene(3 :> P(2, 3, "tool", main) @@ 4 :> P(3, 3, "shell", main) @@ 1 :> P(4, 3, "tool", main), 3),
     Scene(3 :> P(2, 3, "tool", main) @@ 1 :> P(2, 3, "tool", main), 3),
     Scene(3 :> P(2, 3, "tool", main) @@ 4 :> P(2, 3, "shell", main) @@ 1 :> P(4, 3, "tool", main), 3)}

MCJoined == [v \in {"a", "b", "text"} |->
    CASE v = "a" -> "--resume=a" [] v = "b" -> "--resume=b" [] v = "text" -> "--resume=text"]

MCLines ==
    {<<>>, <<"--resume", "a">>, <<"resume", "b">>, <<"--model", "text", "--resume", "b">>,
     <<"--resume=b">>, <<"--continue">>, <<"text">>, <<"attach", "a">>, <<"attach", "text">>}
=============================================================================
