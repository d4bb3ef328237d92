----------------------------- MODULE MCJobQueue -----------------------------
(* Small instances of JobQueue for TLC.                                     *)
EXTENDS JobQueue

\* The queue fills up and is paused; or it refuses nothing, and retries either
\* never end or come close enough together for the circuit to end them.
MCDefaults == {[capacity |-> 2, pausing |-> FALSE, resets |-> FALSE]}
MCSettings == {[capacity |-> 1, pausing |-> TRUE, resets |-> FALSE],
               [capacity |-> 2, pausing |-> FALSE, resets |-> TRUE]} \cup MCDefaults
=============================================================================
