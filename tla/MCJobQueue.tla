----------------------------- MODULE MCJobQueue -----------------------------
(* Small instances of JobQueue: thread ids, the processes they run in.        *)
EXTENDS JobQueue, TLC

\* One thread per process: a thread and its process may share a name, and then
\* any permutation of them maps behaviours to behaviours.
OnePerProcess == [w \in Workers |-> w]
ThreadSymmetry == Permutations(Workers)

\* Two threads in the first process, which one crash takes down together, and a
\* process with one thread that survives.
CONSTANT Survivor
TwoAndOne == [w \in Workers |-> IF w = Survivor THEN "p2" ELSE "p1"]
=============================================================================
