------------------------------ MODULE MCServer ------------------------------
EXTENDS Server, FiniteSets

\* Bound: with a second socket, no deadline lapses and no connection drops.
Followed ==
  Cardinality({s \in SocketIds : pc[s] # "new"}) >= 2 =>
    drops = 0 /\ \A e \in Expiries : expiry[e] = "future"

=============================================================================
