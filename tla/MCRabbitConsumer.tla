--------------------------- MODULE MCRabbitConsumer ---------------------------
(* A message that may succeed or fail, one whose body always makes the       *)
(* dispatch raise, and one that nobody serves.                               *)
EXTENDS RabbitConsumer

MCMessages == 1 .. 3

MCContent == [m \in MCMessages |->
    [topic |-> IF m = 3 THEN "unserved" ELSE "served",
     body |-> IF m = 2 THEN "not_utf8" ELSE "fits"]]
=============================================================================
