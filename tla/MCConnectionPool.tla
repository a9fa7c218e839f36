-------------------------- MODULE MCConnectionPool --------------------------
EXTENDS ConnectionPool, TLC

PoolSymmetry == Permutations(Thread) \cup Permutations(ClientStuff)
=============================================================================
