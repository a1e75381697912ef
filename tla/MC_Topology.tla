---------------------------- MODULE MC_Topology ----------------------------
EXTENDS Topology, TLC

CONSTANTS e1, c1, c2, h1, q1, q2

\* Every handler of the module.
AllHandlers == DOMAIN Handler

\* Requests are interchangeable, and so are the two clusters: no handler
\* or property names one of them.
Sym == Permutations({q1, q2}) \cup Permutations({c1, c2})
=============================================================================
