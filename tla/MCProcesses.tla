---------------------------- MODULE MCProcesses ----------------------------
(* Small instances of Processes for TLC.                                   *)
EXTENDS Processes, TLC

CONSTANTS init1, sh, job, dev, tty

SIGINT == 2
Family == (init1 :> NoProc) @@ (sh :> init1) @@ (job :> sh)
Default == [s \in Signals |-> "DFL"]
\* The shell catches SIGCHLD, the job catches SIGINT.
JobAct == [p \in Proc |->
             [s \in Signals |-> IF <<p, s>> \in {<<sh, SIGCHLD>>, <<job, SIGINT>>}
                                  THEN "CATCH" ELSE "DFL"]]
JobCalls == (init1 :> {"wait"}) @@ (sh :> {"wait", "fork", "exit"})
              @@ (job :> {"tsleep", "exit"})
JobResets == {<<job, SIGINT, "IGN">>, <<sh, SIGCHLD, "CATCH">>}
LiveAct ==
  [p \in Proc |-> [s \in Signals |-> IF <<p, s>> = <<sh, SIGCHLD>> THEN "CATCH" ELSE "DFL"]]
=============================================================================
