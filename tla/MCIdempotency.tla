---------------------------- MODULE MCIdempotency ----------------------------
(* Five deliveries: two with the same idempotency key though their message  *)
(* ids differ, two of one message known only by its message id, and one     *)
(* without any key.                                                         *)
EXTENDS Idempotency

MCKeyHeaders == <<"idempotency-key", "message-id">>

Headers(key, id) == [h \in {"idempotency-key", "message-id"} |->
                        IF h = "idempotency-key" THEN key ELSE id]

MCDeliveries == {"d1", "d2", "d3", "d4", "d5"}

MCHeaderOf == [d \in MCDeliveries |->
    CASE d = "d1" -> Headers("k1", "m1")
      [] d = "d2" -> Headers("k1", "m2")
      [] d = "d3" -> Headers(Absent, "m3")
      [] d = "d4" -> Headers(Absent, "m3")
      [] d = "d5" -> Headers(Absent, Absent)]
=============================================================================
