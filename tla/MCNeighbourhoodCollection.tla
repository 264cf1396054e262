---- MODULE MCNeighbourhoodCollection ----
EXTENDS NeighbourhoodCollection
====
