-------------------------- MODULE MCCopilotEvents --------------------------
(* Instances of CopilotEvents for TLC: the run's own thread and a cancel. *)
EXTENDS CopilotEvents

CONSTANTS worker1, worker2, runner, canceller, client

MCWorkers == {worker1, worker2}
Threads   == {runner, canceller}
OneClient == {client}

\* one process, and a cancel that was accepted by the other one
MCHomes == {[p \in Threads |-> worker1],
            [p \in Threads |-> IF p = runner THEN worker1 ELSE worker2]}

MCScript == [p \in Threads |-> IF p = runner THEN <<"step", "step", "terminal">> ELSE <<"terminal">>]
=============================================================================
