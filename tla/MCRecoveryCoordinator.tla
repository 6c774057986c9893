----------------------- MODULE MCRecoveryCoordinator -----------------------
(***************************************************************************)
(* Small instances of RecoveryCoordinator for TLC: two processes of one    *)
(* thread each; a process of two threads and another of one.               *)
(***************************************************************************)
EXTENDS RecoveryCoordinator, TLC

CONSTANTS p1, p2, t1, t2, t3, r1, r2

TwoProcesses == t1 :> p1 @@ t2 :> p2
ThreeThreads == t1 :> p1 @@ t2 :> p1 @@ t3 :> p2
OneRelease == p1 :> r1 @@ p2 :> r1
TwoReleases == p1 :> r1 @@ p2 :> r2

\* A reachable state: the first process has taken its epoch to warm-up.
WarmInit ==
  /\ row = [epoch |-> 1, version |-> 6, phase |-> "transport_warmup",
            proved |-> TRUE, transport |-> FALSE, writes |-> FALSE,
            release |-> Release[p1]]
  /\ epochs = 1 /\ binding = None /\ started = {p1}
  /\ memory = [p \in Processes |->
                 IF p = p1 THEN [NewMemory EXCEPT !.last = 1] ELSE NewMemory]
  /\ op = [t \in Threads |-> NoOp]
  /\ tripped = [p \in Processes |-> {}] /\ past = {}

WarmSpec == WarmInit /\ [][Next]_vars
=============================================================================
