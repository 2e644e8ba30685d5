--------------------------- MODULE MCKafkaConsumer ---------------------------
(* The log of the checked instance: every record can be served, and it is    *)
(* the flaky pipeline that makes deliveries fail.                            *)
EXTENDS KafkaConsumer

GoodLog == [r \in Records |-> [topic |-> "served", body |-> "fits"]]
=============================================================================
