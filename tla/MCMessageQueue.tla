--------------------------- MODULE MCMessageQueue ---------------------------
(* MessageQueue on small sets of threads and entries.                      *)
EXTENDS MessageQueue

CONSTANTS p1, p2, c1, c2, e1, e2

OneProducer == {p1}
TwoProducers == {p1, p2}
OneConsumer == {c1}
TwoConsumers == {c1, c2}
NoPollers == {}
Entries == {e1, e2}

Unlimited == -1
=============================================================================
