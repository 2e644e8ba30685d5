---------------------------- MODULE MCSqsConsumer ----------------------------
(* A message that may succeed or fail, and one that nobody serves.           *)
EXTENDS SqsConsumer

MCMessages == {"order", "stranger"}

MCContent == [m \in MCMessages |->
    [topic |-> IF m = "order" THEN "served" ELSE "unserved", body |-> "fits"]]
=============================================================================
