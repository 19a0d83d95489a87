---------------------------- MODULE MCVisualJobs ----------------------------
\* Instance of VisualJobs with two pool threads; they are interchangeable.
EXTENDS VisualJobs, TLC

Symmetry == Permutations(Threads)
=============================================================================
