---------------------------- MODULE MCDriveLocks ----------------------------
\* An instance of DriveLocks for TLC.
EXTENDS DriveLocks, TLC

\* The workers are interchangeable, and so are the server's threads.
WorkersAndThreadsAlike == Permutations(Workers) \cup Permutations(Threads)
=============================================================================
