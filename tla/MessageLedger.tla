---------------------------- MODULE MessageLedger ----------------------------
(***************************************************************************)
(* What message persistence promises to those who publish messages and to  *)
(* those who read the conversations, said without a buffer, batches,       *)
(* offsets or retries: an accepted message is kept in memory until it is   *)
(* in the database or the process dies, only accepted messages enter the   *)
(* database, success is announced of stored messages only, and the head of *)
(* a conversation is the time of a stored message of it.                   *)
(***************************************************************************)
EXTENDS Naturals

CONSTANTS
    Event, Conv, ConvOf, TimeOf,    \* as in MessagePersistence
    Offsets,    \* the record numbers of the topic
    Unsure      \* TRUE if a write may fail without telling what it did

VARIABLES
    pending,    \* accepted messages that are not in the database
    stored,     \* messages in the database
    dlq,        \* offsets of the dead-lettered records
    notices,    \* outcomes announced: <<status, event>>
    lastAt      \* lastAt[c]: the head of conversation c, 0 when unset

ledger == <<pending, stored, dlq, notices, lastAt>>

Init ==
    /\ pending = {}
    /\ stored = {}
    /\ dlq = {}
    /\ notices = {}
    /\ lastAt = [c \in Conv |-> 0]

Accept(e) ==
    /\ pending' = pending \cup {e}
    /\ UNCHANGED <<stored, dlq, notices, lastAt>>

Store(events) ==
    /\ stored' = stored \cup events
    /\ pending' = pending \ events
    /\ UNCHANGED <<dlq, notices, lastAt>>

DeadLetter(o) ==
    /\ dlq' = dlq \cup {o}
    /\ UNCHANGED <<pending, stored, notices, lastAt>>

Announce(status, events) == notices' = notices \cup {<<status, e>> : e \in events}

Confirm(events) ==
    /\ events \subseteq stored
    /\ Announce("success", events)
    /\ UNCHANGED <<pending, stored, dlq, lastAt>>

(* A write of unknown outcome is taken for a success, and let go of. *)
ConfirmUnsure(events, dropped) ==
    /\ Unsure
    /\ Announce("success", events)
    /\ pending' = pending \ dropped
    /\ UNCHANGED <<stored, dlq, lastAt>>

Report(events) ==
    /\ Announce("failure", events)
    /\ UNCHANGED <<pending, stored, dlq, lastAt>>

SetHead(c) ==
    /\ \E e \in stored :
          ConvOf[e] = c /\ lastAt' = [lastAt EXCEPT ![c] = TimeOf[e]]
    /\ UNCHANGED <<pending, stored, dlq, notices>>

(* The process ends: what it kept in memory only is forgotten. *)
Die ==
    /\ pending' = {}
    /\ UNCHANGED <<stored, dlq, notices, lastAt>>

Next ==
    \/ \E e \in Event \ stored : Accept(e)
    \/ \E events \in SUBSET pending : Store(events)
    \/ \E o \in Offsets : DeadLetter(o)
    \/ \E events \in SUBSET Event : Confirm(events) \/ Report(events)
    \/ \E events, dropped \in SUBSET Event : ConfirmUnsure(events, dropped)
    \/ \E c \in Conv : SetHead(c)
    \/ Die

Spec == Init /\ [][Next]_ledger
=============================================================================
