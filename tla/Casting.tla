-------------------------------- MODULE Casting --------------------------------
(***************************************************************************)
(* benzene-core: chains of one-step casts between versions of a payload    *)
(* (casting.py).  _path is a breadth-first search over the registered      *)
(* steps, one look at an edge per step; casting_handler casts a request    *)
(* up, calls the handler of the newest version and casts its answer down.  *)
(* A payload is the version of its schema; versions are numbered.          *)
(***************************************************************************)
EXTENDS Naturals, Sequences, SequencesExt, FiniteSets

CONSTANT Schemas            \* 1..n

ASSUME SchemasAssumption ==
    IsFiniteSet(Schemas) /\ Cardinality(Schemas) > 1 /\ Schemas = 1..Cardinality(Schemas)

VARIABLES casts,            \* the registered steps: pairs of schemas
          fromType, toType,
          search,           \* [queue, seen, current, taken, left]
          chain,            \* what _path returns: the schemas after each cast, or NoChain
          castPhase,        \* "search", "found", "none"
          reply             \* casting_handler's answer at fromType, when found there and back

castVars == <<casts, fromType, toType, search, chain, castPhase, reply>>

NoChain == <<0>>

\* cast_between: a step from a type to another; a second registration replaces the first.
Edges == {e \in Schemas \X Schemas : e[1] # e[2]}

\* _edges[t]: the types one step away
StepsFrom(t) == {u \in Schemas : <<t, u>> \in casts}

CastStart(from, to) ==
    /\ fromType = from /\ toType = to
    /\ search = [queue |-> <<<<from, <<>>>>>>, seen |-> {from}, current |-> from, taken |-> <<>>, left |-> <<>>]
    /\ chain = NoChain /\ castPhase = "search" /\ reply = 0

CastInit == casts \in SUBSET Edges /\ CastStart(1, CHOOSE t \in Schemas : \A u \in Schemas : u <= t)

\* The next type is taken off the front of the queue, and its steps are looked at in
\* turn, in whatever order they were registered.
PopType ==
    /\ castPhase = "search" /\ search.left = <<>> /\ search.queue # <<>>
    /\ LET first == Head(search.queue) IN
       \E steps \in SetToSeqs(StepsFrom(first[1])) :
           search' = [search EXCEPT !.queue = Tail(@), !.current = first[1], !.taken = first[2], !.left = steps]
    /\ UNCHANGED <<casts, fromType, toType, chain, castPhase, reply>>

\* A step that ends at the target ends the search; one that ends at a new type is queued.
LookAt ==
    /\ castPhase = "search" /\ search.left # <<>>
    /\ LET nxt == Head(search.left)
           taken == Append(search.taken, nxt)
       IN  IF nxt = toType
           THEN /\ chain' = taken /\ castPhase' = "found"
                /\ UNCHANGED search
           ELSE /\ search' = [search EXCEPT !.left = Tail(@),
                                            !.queue = IF nxt \in search.seen THEN @
                                                      ELSE Append(@, <<nxt, taken>>),
                                            !.seen = @ \cup {nxt}]
                /\ UNCHANGED <<chain, castPhase>>
    /\ UNCHANGED <<casts, fromType, toType, reply>>

\* Fault: the search ends with the first type that leads nowhere new.
NoCastPathEarly ==
    /\ castPhase = "search" /\ search.left = <<>> /\ search.current # fromType
    /\ castPhase' = "none"
    /\ UNCHANGED <<casts, fromType, toType, search, chain, reply>>

\* NoCastPathError
NoCastPath ==
    /\ castPhase = "search" /\ search.left = <<>> /\ search.queue = <<>>
    /\ castPhase' = "none"
    /\ UNCHANGED <<casts, fromType, toType, search, chain, reply>>

\* casting_handler.forward, after the request was cast up: the handler fails, and its
\* result passes as it is, or it succeeds and its payload is cast down, if asked to.
Forward ==
    /\ castPhase = "found" /\ reply = 0 /\ fromType < toType
    /\ \/ castPhase' = "failed" /\ UNCHANGED <<fromType, toType, search, chain, reply>>
       \/ castPhase' = "answered" /\ reply' = toType /\ UNCHANGED <<fromType, toType, search, chain>>
       \/ /\ fromType' = toType /\ toType' = fromType
          /\ search' = [queue |-> <<<<toType, <<>>>>>>, seen |-> {toType}, current |-> toType,
                        taken |-> <<>>, left |-> <<>>]
          /\ chain' = NoChain /\ castPhase' = "search" /\ UNCHANGED reply
    /\ UNCHANGED casts

\* The cast down ended: the old type is answered.
Downcast ==
    /\ castPhase = "found" /\ fromType > toType
    /\ reply' = Last(chain) /\ castPhase' = "answered"
    /\ UNCHANGED <<casts, fromType, toType, search, chain>>

CastNext == PopType \/ LookAt \/ NoCastPath \/ Forward \/ Downcast

CastSpec == CastInit /\ [][CastNext]_castVars

-----------------------------------------------------------------------------
Chains(n) == {c \in UNION {[1..k -> Schemas] : k \in 1..n} :
                 /\ <<fromType, c[1]>> \in casts
                 /\ \A i \in 1..(Len(c) - 1) : <<c[i], c[i + 1]>> \in casts
                 /\ Last(c) = toType}

\* The chain found is one of registered casts from the value's type to the target, no
\* chain is shorter, and the search gives up only where there is none at all, cycles
\* among the casts or not.
ChainIsShortest ==
    /\ castPhase = "found" => chain \in Chains(Len(chain)) /\ Chains(Len(chain) - 1) = {}
    /\ castPhase = "none" => Chains(Cardinality(Schemas) - 1) = {}
=============================================================================
