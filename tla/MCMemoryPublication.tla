------------------------ MODULE MCMemoryPublication ------------------------
EXTENDS MemoryPublication, TLC

Symmetric == Permutations(Clients) \cup Permutations(Projectors) \cup Permutations(Bodies)
             \cup Permutations(Atoms)
=============================================================================
