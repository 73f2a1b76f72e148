-------------------------- MODULE MCQueryPipeline --------------------------
(* QueryPipeline on a few queries of two clients.                          *)
EXTENDS QueryPipeline

CONSTANTS a, b

OneClient == {a}
TwoClients == {a, b}

AllKinds == {"foreign", "unencodable", "managed", "junk"}
Forwarded == {"foreign", "unencodable"}
WithManaged == {"foreign", "managed"}
=============================================================================
