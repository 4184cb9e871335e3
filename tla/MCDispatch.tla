------------------------------- MODULE MCDispatch -------------------------------
(* A session in a tmux pane, in a tab of Terminal or in an editor's terminal.  *)
EXTENDS Dispatch, TLC

CONSTANTS none, a

MCPlace ==
    {[pane |-> "%1", tty |-> "inner", project |-> "app"],
     [pane |-> none, tty |-> "tab", project |-> "app"]}

(* An editor has a window whose title contains the project's name.             *)
MCWindow ==
    {[app |-> "tmux", holds |-> {"%1", "inner"}],
     [app |-> "Terminal", holds |-> {"tab"}],
     [app |-> "Code", holds |-> {"app"}]}

MCStaying == {w \in MCWindow : w.app # "Terminal"}

(* 2: the tmux server, 3: its shell; 4: Terminal, 5: login, 6: its shell.      *)
MCProcesses ==
    [parent |-> (2 :> 1 @@ 3 :> 2 @@ 4 :> 1 @@ 5 :> 4 @@ 6 :> 5), app |-> {4}]

MCOnTty == [inner |-> 3, tab |-> 5]
=================================================================================
