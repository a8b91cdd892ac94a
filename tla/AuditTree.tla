------------------------------ MODULE AuditTree ------------------------------
(***************************************************************************)
(* What the audit log does for those who log events, said without buffers, *)
(* batches, retries or a cache of the last hash: an accepted event has one *)
(* link, to the genesis hash or to an event of the tree; it is owed until  *)
(* it enters the tree with that link or its process ends; and the tree     *)
(* only grows.                                                             *)
(*                                                                         *)
(* It is a tree: any number of events may link to one.  Those who verify   *)
(* the log ask for more, a chain in the order of created_at, which the     *)
(* code does not give them (LinksFormChain of AuditLog).                   *)
(***************************************************************************)

CONSTANTS
    Process,
    Event,
    Genesis

VARIABLES
    tree,   \* the links stored
    owed,   \* owed[p]: the links process p has accepted and not yet stored
    gone    \* the events forgotten when their process ended

EventsOf(links) == {l.event : l \in links}

Init ==
    /\ tree = {}
    /\ owed = [p \in Process |-> {}]
    /\ gone = {}

(* An event is accepted once. *)
Accept(p, e, h) ==
    /\ e \notin EventsOf(tree) \cup gone
    /\ \A q \in Process : e \notin EventsOf(owed[q])
    /\ h \in EventsOf(tree) \cup {Genesis}
    /\ owed' = [owed EXCEPT ![p] = @ \cup {[event |-> e, prev |-> h]}]
    /\ UNCHANGED <<tree, gone>>

Store(p, links) ==
    /\ links \subseteq owed[p]
    /\ tree' = tree \cup links
    /\ owed' = [owed EXCEPT ![p] = @ \ links]
    /\ UNCHANGED gone

(* The process ends: what it had only in memory is forgotten, for good.    *)
(* Events are "gone" in this way only.                                     *)
Forget(p) ==
    /\ gone' = gone \cup EventsOf(owed[p])
    /\ owed' = [owed EXCEPT ![p] = {}]
    /\ UNCHANGED tree

Next ==
    \E p \in Process :
        \/ \E e \in Event, h \in Event \cup {Genesis} : Accept(p, e, h)
        \/ \E links \in SUBSET owed[p] : Store(p, links)
        \/ Forget(p)

Spec == Init /\ [][Next]_<<tree, owed, gone>>
=============================================================================
