------------------------------- MODULE MeshInbox -------------------------------
(***************************************************************************)
(* benzene-mesh: traces of short-lived services on their way to the        *)
(* collector.  Each invocation ends with its event in the exporter's       *)
(* bounded queue (trace.py); after it the queue is drained and pushed as   *)
(* one object of a bucket (inbox.py).  A scheduled pass                    *)
(* (examples/aws_lambda_mesh: run_mesh_aggregation) loads the catalog,     *)
(* lists, reads and deletes the objects, ingests what it read, saves the   *)
(* catalog and publishes the artifacts.  Passes do not overlap, pushes     *)
(* land at any time.                                                       *)
(*                                                                         *)
(* Events are numbered in the order they are made.  Objects have random    *)
(* keys, and a listing is in key order, a page at a time.  S3 lists at     *)
(* most as many keys in a page as it deletes in a call (1000).             *)
(***************************************************************************)
EXTENDS Integers, Sequences, SequencesExt, FiniteSets

CONSTANTS Writers,      \* service instances
          Keys,         \* object keys: numbers, in listing order
          MaxEvents,    \* bound on the events made
          QueueSize,    \* QueueTraceExporter(maxlen=...)
          PageSize,     \* the most keys list_objects_v2 and delete_objects take
          MaxInboxTrouble,
          Artifacts     \* the documents of a publication, in the order they are written

ASSUME InboxAssumption ==
    /\ Keys \subseteq Nat \ {0} /\ Artifacts \in Seq(STRING)
    /\ QueueSize \in Nat \ {0} /\ PageSize \in Nat \ {0}
    /\ MaxEvents \in Nat /\ MaxInboxTrouble \in Nat

VARIABLES made,      \* how many events have been made
          queue,     \* the exporter's queue of each instance
          objects,   \* the bucket: key -> the events of a push
          usedKeys,
          pass,      \* where the aggregation pass is
          token,     \* the listing's continuation token
          page,      \* keys of the current page not read yet
          truncated, \* there are pages behind it
          read,      \* keys read
          bodies,    \* the events read
          saved,     \* the events of the saved catalog
          site,      \* the generation of each published document
          generation, \* of the saved catalog: passes that got as far as saving it
          dropped,   \* history: events each full queue or failing push lost
          pushed,    \* history: events whose push was answered ok
          lost,      \* history: events a dying pass had deleted and not saved
          kept,      \* history: keys a delete left behind
          refused,   \* history: keys of the last delete that was refused
          inboxTrouble

inboxVars == <<made, queue, objects, usedKeys, pass, token, page, truncated, read, bodies, saved, site, generation,
               dropped, pushed, lost, kept, refused, inboxTrouble>>

InboxInit == /\ made = 0 /\ queue = [w \in Writers |-> <<>>] /\ objects = [k \in {} |-> <<>>] /\ usedKeys = {}
             /\ pass = "idle" /\ token = 0 /\ page = <<>> /\ truncated = FALSE /\ read = {} /\ bodies = <<>> /\ saved = <<>>
             /\ site = [n \in DOMAIN Artifacts |-> 0] /\ generation = 0
             /\ dropped = [w \in Writers |-> {}] /\ pushed = {} /\ lost = {} /\ kept = {} /\ refused = {} /\ inboxTrouble = 0

Trouble == inboxTrouble < MaxInboxTrouble /\ inboxTrouble' = inboxTrouble + 1

-----------------------------------------------------------------------------
\* Fault: the newest event is dropped.
ExportDropsNewest(w) ==
    /\ made < MaxEvents
    /\ made' = made + 1
    /\ IF Len(queue[w]) = QueueSize
       THEN dropped' = [dropped EXCEPT ![w] = @ \cup {made + 1}] /\ UNCHANGED queue
       ELSE queue' = [queue EXCEPT ![w] = Append(@, made + 1)] /\ UNCHANGED dropped
    /\ UNCHANGED <<objects, usedKeys, pass, token, page, truncated, read, bodies, saved, site, generation, pushed,
                   lost, kept, refused, inboxTrouble>>

\* trace_middleware, at the end of an invocation, whatever its outcome: the event is
\* made and queued, the oldest one falling out of a full queue.
Export(w) ==
    /\ made < MaxEvents
    /\ made' = made + 1
    /\ IF Len(queue[w]) = QueueSize
       THEN /\ queue' = [queue EXCEPT ![w] = Append(Tail(@), made + 1)]
            /\ dropped' = [dropped EXCEPT ![w] = @ \cup {Head(queue[w])}]
       ELSE queue' = [queue EXCEPT ![w] = Append(@, made + 1)] /\ UNCHANGED dropped
    /\ UNCHANGED <<objects, usedKeys, pass, token, page, truncated, read, bodies, saved, site, generation, pushed,
                   lost, kept, refused, inboxTrouble>>

\* drain, publish_traces, send_message: one object under a fresh key.
Push(w) ==
    /\ queue[w] # <<>>
    /\ \E k \in Keys \ usedKeys :
         /\ objects' = [x \in DOMAIN objects \cup {k} |-> IF x = k THEN queue[w] ELSE objects[x]]
         /\ usedKeys' = usedKeys \cup {k}
    /\ pushed' = pushed \cup ToSet(queue[w])
    /\ queue' = [queue EXCEPT ![w] = <<>>]
    /\ UNCHANGED <<made, pass, token, page, truncated, read, bodies, saved, site, generation, dropped, lost, kept, refused, inboxTrouble>>

\* The push fails; the queue has been drained all the same.
PushFails(w) ==
    /\ queue[w] # <<>>
    /\ Trouble
    /\ dropped' = [dropped EXCEPT ![w] = @ \cup ToSet(queue[w])]
    /\ queue' = [queue EXCEPT ![w] = <<>>]
    /\ UNCHANGED <<made, objects, usedKeys, pass, token, page, truncated, read, bodies, saved, site, generation, pushed, lost, kept, refused>>

-----------------------------------------------------------------------------
\* The pass begins: the catalog is loaded and the fleet polled (see MeshPoller).  Passes
\* that find the bucket empty are left out.
Begin ==
    /\ pass = "idle" /\ objects # [k \in {} |-> <<>>]
    /\ pass' = "listing" /\ token' = 0 /\ page' = <<>> /\ truncated' = FALSE /\ read' = {} /\ bodies' = <<>>
    /\ UNCHANGED <<made, queue, objects, usedKeys, saved, site, generation, dropped, pushed, lost, kept, refused, inboxTrouble>>

\* list_objects_v2: the lowest keys behind the token; a page may hold fewer than it can.
List ==
    /\ pass = "listing"
    /\ LET behind == {k \in DOMAIN objects : k > token} IN
       \E n \in 1 .. PageSize : \E got \in [1 .. n -> behind] :
         /\ \A i, j \in 1 .. n : i < j => got[i] < got[j]
         /\ \A k \in behind : (\E i \in 1 .. n : got[i] = k) \/ k > got[n]
         /\ page' = got
         /\ truncated' = (\E k \in behind : k > got[n])
         /\ token' = got[n]
    /\ pass' = "reading"
    /\ UNCHANGED <<made, queue, objects, usedKeys, read, bodies, saved, site, generation, dropped, pushed, lost, kept, refused, inboxTrouble>>

\* Fault: the last key of a page is not remembered.
ReadForgetsKey ==
    /\ pass = "reading"
    /\ read' = IF Tail(page) = <<>> THEN read ELSE read \cup {Head(page)}
    /\ bodies' = bodies \o objects[Head(page)]
    /\ page' = Tail(page)
    /\ pass' = IF page' # <<>> THEN "reading" ELSE IF truncated THEN "listing" ELSE "deleting"
    /\ UNCHANGED <<made, queue, objects, usedKeys, token, truncated, saved, site, generation, dropped, pushed, lost, kept, refused, inboxTrouble>>

\* get_object of one key of the page.  A page that was not truncated is the last one,
\* whatever has been pushed meanwhile.
ReadOne ==
    /\ pass = "reading"
    /\ read' = read \cup {Head(page)}
    /\ bodies' = bodies \o objects[Head(page)]
    /\ page' = Tail(page)
    /\ pass' = IF page' # <<>> THEN "reading" ELSE IF truncated THEN "listing" ELSE "deleting"
    /\ UNCHANGED <<made, queue, objects, usedKeys, token, truncated, saved, site, generation, dropped, pushed, lost, kept, refused, inboxTrouble>>

Left(Ks) == [k \in DOMAIN objects \ Ks |-> objects[k]]

\* Fault: everything under the prefix is deleted.
DeleteAll ==
    /\ pass = "deleting" /\ Cardinality(read) <= PageSize
    /\ objects' = Left(DOMAIN objects)
    /\ pass' = "ingesting"
    /\ UNCHANGED <<made, queue, usedKeys, token, page, truncated, read, bodies, saved, site, generation, dropped, pushed, lost, kept, refused, inboxTrouble>>

\* delete_objects of the keys of all the pages that were read.
Delete ==
    /\ pass = "deleting" /\ Cardinality(read) <= PageSize
    /\ objects' = Left(read)
    /\ pass' = "ingesting"
    /\ UNCHANGED <<made, queue, usedKeys, token, page, truncated, read, bodies, saved, site, generation, dropped, pushed, lost, kept, refused, inboxTrouble>>

\* The answer names keys that were not deleted; nobody looks at it.
DeleteSome ==
    /\ pass = "deleting" /\ read # {} /\ Cardinality(read) <= PageSize
    /\ Trouble
    /\ \E k \in read : objects' = Left(read \ {k}) /\ kept' = kept \cup {k}
    /\ pass' = "ingesting"
    /\ UNCHANGED <<made, queue, usedKeys, token, page, truncated, read, bodies, saved, site, generation, dropped, pushed, lost, refused>>

\* The pass ends and forgets what it holds.
Abandon == pass' = "idle" /\ page' = <<>> /\ truncated' = FALSE /\ read' = {} /\ bodies' = <<>> /\ token' = 0

\* There are more keys than one delete_objects takes: the call is refused, drain raises,
\* and with it the pass, before the ingest; nothing is deleted.
DeleteRefused ==
    /\ pass = "deleting" /\ Cardinality(read) > PageSize
    /\ refused' = read
    /\ Abandon
    /\ UNCHANGED <<made, queue, objects, usedKeys, saved, site, generation, dropped, pushed, lost, kept, inboxTrouble>>

\* One merged ingest_traces, which saves the catalog.
IngestDrained ==
    /\ pass = "ingesting"
    /\ saved' = saved \o bodies
    /\ bodies' = <<>>
    /\ pass' = "publishing" /\ generation' = generation + 1
    /\ UNCHANGED <<made, queue, objects, usedKeys, token, page, truncated, read, site, dropped, pushed, lost, kept, refused, inboxTrouble>>

\* Fault: the documents are written in any order.
PublishAnyOrder ==
    /\ pass = "publishing"
    /\ \/ \E n \in DOMAIN Artifacts : site' = [site EXCEPT ![n] = generation] /\ UNCHANGED pass
       \/ /\ \A n \in DOMAIN Artifacts : site[n] = generation
          /\ pass' = "idle"
          /\ UNCHANGED site
    /\ UNCHANGED <<made, queue, objects, usedKeys, token, page, truncated, read, bodies, saved, generation, dropped, pushed, lost, kept, refused, inboxTrouble>>

\* Fault: a pass that has written its documents does not end.
PublishNeverDone ==
    /\ pass = "publishing"
    /\ \E n \in DOMAIN Artifacts :
         /\ site[n] # generation /\ \A m \in 1 .. n - 1 : site[m] = generation
         /\ site' = [site EXCEPT ![n] = generation]
    /\ UNCHANGED <<made, queue, objects, usedKeys, pass, token, page, truncated, read, bodies, saved, generation, dropped, pushed, lost, kept, refused, inboxTrouble>>

\* write_artifacts_to_s3, write_artifacts_to_blob: one document after the other.
PublishOne ==
    /\ pass = "publishing"
    /\ \/ \E n \in DOMAIN Artifacts :
            /\ site[n] # generation /\ \A m \in 1 .. n - 1 : site[m] = generation
            /\ site' = [site EXCEPT ![n] = generation]
            /\ UNCHANGED pass
       \/ /\ \A n \in DOMAIN Artifacts : site[n] = generation
          /\ pass' = "idle"
          /\ UNCHANGED site
    /\ UNCHANGED <<made, queue, objects, usedKeys, token, page, truncated, read, bodies, saved, generation, dropped, pushed, lost, kept, refused, inboxTrouble>>

\* The pass dies: what it had read is gone, and so are the objects it had deleted.
KillPass ==
    /\ pass # "idle"
    /\ Trouble
    /\ lost' = IF pass = "ingesting" THEN lost \cup ToSet(bodies) ELSE lost
    /\ Abandon
    /\ UNCHANGED <<made, queue, objects, usedKeys, saved, site, generation, dropped, pushed, kept, refused>>

PassStep == Begin \/ List \/ ReadOne \/ Delete \/ DeleteRefused \/ IngestDrained \/ PublishOne

InboxNext == \/ PassStep \/ DeleteSome \/ KillPass
             \/ \E w \in Writers : Export(w) \/ Push(w) \/ PushFails(w)

InboxSpec == InboxInit /\ [][InboxNext]_inboxVars

-----------------------------------------------------------------------------
Held == UNION {ToSet(objects[k]) : k \in DOMAIN objects}

\* Nothing that was pushed is ever missing: it is in the bucket, in the hands of the
\* pass, or in the saved catalog, unless a pass died between its delete and its save.
\* A push that lands during a drain, in front of or behind the page at hand, is not
\* deleted unread.
PushedIsSomewhere == pushed \subseteq Held \cup ToSet(bodies) \cup ToSet(saved) \cup lost

\* No event is counted twice, unless the bucket kept an object it was told to delete.
CountedOnce == kept = {} => IsInjective(saved)

\* The full queue drops the oldest: whatever is queued is newer than what its
\* instance lost to the bound, and no more than QueueSize events wait.
QueueKeepsNewest ==
    \A w \in Writers :
        /\ Len(queue[w]) <= QueueSize
        /\ \A i, j \in DOMAIN queue[w] : i < j => queue[w][i] < queue[w][j]
        /\ \A d \in dropped[w], i \in DOMAIN queue[w] : d < queue[w][i]

\* The documents of the site are written in order, so one is never older than the
\* ones behind it; between passes, and if no pass died, they all show the saved catalog.
SiteInOrder ==
    /\ \A m, n \in DOMAIN Artifacts : m < n => site[m] >= site[n]
    /\ pass = "idle" /\ inboxTrouble = 0 => \A n \in DOMAIN Artifacts : site[n] = generation

\* A bucket whose delete was refused stays as it is: no later pass, however its pages
\* fall, gets rid of an object that delete had named.
RefusedStays == refused \subseteq DOMAIN objects

\* What was pushed is in the catalog in the end, or was lost by a pass that died; unless
\* more objects have piled up than one delete_objects takes, which no pass then drains.
PushedGetsIngested == \/ []<>(pushed \subseteq ToSet(saved) \cup lost)
                      \/ <>[](Cardinality(DOMAIN objects) > PageSize)

\* From the exporter's queue to the published site each trace event is lost only where
\* the code gives it up (the full queue, a pass that died), counted once, and the
\* newest ones win; what a refused delete leaves behind is never ingested.
TracesCountedOnce == PushedIsSomewhere /\ CountedOnce /\ QueueKeepsNewest /\ SiteInOrder /\ RefusedStays
=============================================================================
