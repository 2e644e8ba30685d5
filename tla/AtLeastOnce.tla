----------------------------- MODULE AtLeastOnce -----------------------------
(***************************************************************************)
(* What a consumer binding promises (transport-bindings, obligation 8):    *)
(* the transport may forget a message only after some delivery of it       *)
(* succeeded, and once it has forgotten it, it stays forgotten.            *)
(* Deliveries that change neither set are stuttering steps here.           *)
(***************************************************************************)
CONSTANT Messages

VARIABLES handled,   \* the messages some delivery of which succeeded
          settled    \* the messages the transport will never deliver again

vars == <<handled, settled>>

Init == handled = {} /\ settled = {}

HandleOne == /\ \E m \in Messages : handled' = handled \cup {m}
             /\ UNCHANGED settled

Settle == /\ settled \subseteq settled'
          /\ settled' \subseteq handled
          /\ UNCHANGED handled

Next == HandleOne \/ Settle

Spec == Init /\ [][Next]_vars
=============================================================================
