----------------------------- MODULE MCWorkerHost -----------------------------
(* Small mixes of worker kinds. *)
EXTENDS WorkerHost

MixedKinds == [n \in {"http", "sqs", "mesh"} |->
    CASE n = "http" -> "deaf" [] n = "sqs" -> "polling" [] n = "mesh" -> "background"]
=============================================================================
