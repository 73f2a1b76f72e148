-------------------------- MODULE MCQueryForwarder --------------------------
(* QueryForwarder on a few queries, nameservers and datagrams.             *)
EXTENDS QueryForwarder

CONSTANT a

OneClient == {a}

Forwarded == {"foreign", "unencodable"}
Foreign == {"foreign"}

DistinctIds == [q \in Queries |-> q]
=============================================================================
