----------------------------- MODULE MCDnsProxy -----------------------------
(* DnsProxy on a few queries.                                              *)
EXTENDS DnsProxy

CONSTANT a

OneClient == {a}

AllKinds == {"foreign", "managed", "unencodable", "junk"}
=============================================================================
