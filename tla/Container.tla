------------------------------- MODULE Container -------------------------------
(***************************************************************************)
(* benzene-core: the service container and the build of an application     *)
(* (dependencies.py, startup.py).  configure_services registers, then the  *)
(* overrides register, then scopes resolve; no registration follows.       *)
(*                                                                         *)
(* A service is the registration it came from, a serial number, the scope  *)
(* that built it and the services its factory took from that scope.  The   *)
(* factories of the startup take what Needs says, in any order and as deep *)
(* as it goes; those of the overrides take nothing.  A resolution does not *)
(* await, so one runs at a time; its factory calls are a stack of frames.  *)
(***************************************************************************)
EXTENDS Naturals, Sequences, FiniteSets

CONSTANTS ServiceKeys, Needs, Scopes,
          MaxRegistrations, MaxResolutions,
          MaxFrames           \* the recursion limit

ASSUME NeedsAssumption == Needs \in [ServiceKeys -> SUBSET ServiceKeys]

VARIABLES buildPhase,       \* "services", "overrides" or "running"
          registrations,    \* the dict: key -> its registration
          instances,        \* _singletons: key -> service
          scoped,           \* scope -> key -> service
          frames,           \* the factories that are running, the innermost last
          built,            \* how many services have been built
          registered,       \* history: all add calls, in order
          handed            \* history: what try_get_service returned, {[scope, service]}

containerVars == <<buildPhase, registrations, instances, scoped, frames, built, registered, handed>>

NoMap == [k \in {} |-> k]
Set(d, key, value) == [k \in DOMAIN d \cup {key} |-> IF k = key THEN value ELSE d[k]]

ContainerInit ==
    /\ buildPhase = "services"
    /\ registrations = NoMap /\ instances = NoMap
    /\ scoped = [s \in Scopes |-> NoMap]
    /\ frames = <<>> /\ built = 0 /\ registered = <<>> /\ handed = {}

Lifetimes == {"singleton", "scoped", "transient"}

Registration(key, lifetime, ready) ==
    [key |-> key, lifetime |-> lifetime, ready |-> ready, phase |-> buildPhase, nr |-> Len(registered) + 1]

Registering == buildPhase # "running" /\ Len(registered) < MaxRegistrations

\* add_singleton, add_scoped, add_transient
add(key, lifetime) ==
    /\ Registering
    /\ registrations' = Set(registrations, key, Registration(key, lifetime, FALSE))
    /\ registered' = Append(registered, Registration(key, lifetime, FALSE))
    /\ UNCHANGED <<buildPhase, instances, scoped, frames, built, handed>>

\* try_add_*: only if absent, and nothing otherwise
try_add(key, lifetime) == key \notin DOMAIN registrations /\ add(key, lifetime)

\* A ready-made service belongs to no scope.
Ready(reg) == [from |-> reg, serial |-> 0, scope |-> "", parts |-> NoMap]

\* Fault: the instance is registered like a factory, and what is cached stays.
AddInstanceLazy(key) ==
    /\ Registering
    /\ registrations' = Set(registrations, key, Registration(key, "singleton", TRUE))
    /\ registered' = Append(registered, Registration(key, "singleton", TRUE))
    /\ instances' = IF key \in DOMAIN instances THEN instances
                    ELSE Set(instances, key, Ready(Registration(key, "singleton", TRUE)))
    /\ UNCHANGED <<buildPhase, scoped, frames, built, handed>>

\* add_instance, and the override use_instance
add_instance(key) ==
    /\ Registering
    /\ registrations' = Set(registrations, key, Registration(key, "singleton", TRUE))
    /\ registered' = Append(registered, Registration(key, "singleton", TRUE))
    /\ instances' = Set(instances, key, Ready(Registration(key, "singleton", TRUE)))
    /\ UNCHANGED <<buildPhase, scoped, frames, built, handed>>

\* build_application: services, then overrides, then the scopes
NextPhase ==
    /\ buildPhase # "running"
    /\ buildPhase' = IF buildPhase = "services" THEN "overrides" ELSE "running"
    /\ UNCHANGED <<registrations, instances, scoped, frames, built, registered, handed>>

-----------------------------------------------------------------------------
(* Resolution. *)

\* Fault: what a scope caches, the container caches.
CacheOfShared(scope, reg) == instances

\* The dict a service of this lifetime is kept in; a transient one is in none.
CacheOf(scope, reg) ==
    CASE reg.lifetime = "singleton" -> instances
      [] reg.lifetime = "scoped" -> scoped[scope]
      [] reg.lifetime = "transient" -> NoMap

NeedsOf(reg) == IF reg.phase = "services" /\ ~reg.ready THEN Needs[reg.key] ELSE {}

\* try_get_service, of a key that is cached: what it returns
Cached(scope, key) == key \in DOMAIN CacheOf(scope, registrations[key])
Kept(scope, key) == CacheOf(scope, registrations[key])[key]
Hand(scope, service) == handed' = handed \cup {[scope |-> scope, service |-> service]}

\* try_get_service, of one that is not: its factory is called.
Call(scope, key) ==
    [scope |-> scope, reg |-> registrations[key], wants |-> NeedsOf(registrations[key]), parts |-> NoMap]

\* get_service by whoever serves in the scope; an unregistered key raises at once.
get_service(scope, key) ==
    /\ buildPhase = "running" /\ frames = <<>> /\ Cardinality(handed) < MaxResolutions
    /\ key \in DOMAIN registrations
    /\ IF Cached(scope, key) THEN Hand(scope, Kept(scope, key)) /\ UNCHANGED frames
       ELSE frames' = <<Call(scope, key)>> /\ UNCHANGED handed
    /\ UNCHANGED <<buildPhase, registrations, instances, scoped, built, registered>>

Innermost == frames[Len(frames)]

\* The innermost factory takes a service that it needs from its scope, and goes on
\* without it if it used try_get_service and there is none.
Take(key) ==
    /\ frames # <<>> /\ key \in Innermost.wants
    /\ LET taken == [Innermost EXCEPT !.wants = @ \ {key}] IN
       \/ /\ key \notin DOMAIN registrations
          /\ frames' = [frames EXCEPT ![Len(frames)] = taken] /\ UNCHANGED handed
       \/ /\ key \in DOMAIN registrations /\ Cached(Innermost.scope, key)
          /\ frames' = [frames EXCEPT ![Len(frames)] =
                            [taken EXCEPT !.parts = Set(@, key, Kept(Innermost.scope, key))]]
          /\ Hand(Innermost.scope, Kept(Innermost.scope, key))
       \/ /\ key \in DOMAIN registrations /\ ~Cached(Innermost.scope, key) /\ Len(frames) < MaxFrames
          /\ frames' = Append([frames EXCEPT ![Len(frames)] = taken], Call(Innermost.scope, key))
          /\ UNCHANGED handed
    /\ UNCHANGED <<buildPhase, registrations, instances, scoped, built, registered>>

Made == [from |-> Innermost.reg, serial |-> built + 1, scope |-> Innermost.scope, parts |-> Innermost.parts]

\* The factory returns: the service is kept, and goes to the factory that called.
Return ==
    /\ frames # <<>> /\ Innermost.wants = {}
    /\ built' = built + 1
    /\ instances' = IF Innermost.reg.lifetime = "singleton"
                    THEN Set(instances, Innermost.reg.key, Made) ELSE instances
    /\ scoped' = IF Innermost.reg.lifetime = "scoped"
                 THEN [scoped EXCEPT ![Innermost.scope] = Set(@, Innermost.reg.key, Made)] ELSE scoped
    /\ Hand(Innermost.scope, Made)
    /\ LET outer == SubSeq(frames, 1, Len(frames) - 1) IN
       frames' = IF outer = <<>> THEN <<>>
                 ELSE [outer EXCEPT ![Len(outer)].parts = Set(@, Innermost.reg.key, Made)]
    /\ UNCHANGED <<buildPhase, registrations, registered>>

\* A factory raises, by itself, for want of a need that get_service does not find or at
\* the recursion limit: all of them do, and what the inner ones returned stays kept.
Raise ==
    /\ frames # <<>> /\ frames' = <<>>
    /\ UNCHANGED <<buildPhase, registrations, instances, scoped, built, registered, handed>>

ContainerNext ==
    \/ \E key \in ServiceKeys, lifetime \in Lifetimes : add(key, lifetime) \/ try_add(key, lifetime)
    \/ \E key \in ServiceKeys : add_instance(key)
    \/ NextPhase
    \/ \E scope \in Scopes, key \in ServiceKeys : get_service(scope, key)
    \/ \E key \in ServiceKeys : Take(key)
    \/ Return \/ Raise

ContainerSpec == ContainerInit /\ [][ContainerNext]_containerVars

-----------------------------------------------------------------------------
LastFor(key) ==
    registered[CHOOSE i \in DOMAIN registered :
                 /\ registered[i].key = key
                 /\ \A j \in DOMAIN registered : registered[j].key = key => j <= i]

\* The override seam (startup.py: "last-registration-wins") holds with one exception:
\* only an instance outlives its registration, and only a singleton registered over it
\* lets it; an override by use_instance always wins, for the services
\* that were built from it as well.
OnlyInstancesOutlive ==
    \A h \in handed :
        \A service \in {h.service} \cup {h.service.parts[k] : k \in DOMAIN h.service.parts} :
            LET last == LastFor(service.from.key) IN
            service.from # last => service.from.ready /\ last.lifetime = "singleton" /\ ~last.ready

\* A scoped service handed out, or built into another scoped or a transient one, is the
\* only one of its scope and of no other; one singleton serves all scopes.
LifetimesHold ==
    \A h, g \in handed :
        /\ h.service.from.lifetime = "scoped" =>
               /\ h.service.scope = h.scope
               /\ (h.scope = g.scope /\ g.service.from.key = h.service.from.key => g = h)
        /\ h.service.from.lifetime # "singleton" =>
               \A k \in DOMAIN h.service.parts :
                   h.service.parts[k].from.lifetime = "scoped" =>
                       h.service.parts[k] = scoped[h.scope][k]
        /\ (h.service.from.lifetime = "singleton" /\ g.service.from.key = h.service.from.key) =>
               g.service = h.service

\* A scope hands out what was registered, for as long as its lifetime says, in whatever
\* order startup and overrides registered and scopes resolved, though factories raise.
ServicesAsRegistered == OnlyInstancesOutlive /\ LifetimesHold
=============================================================================
