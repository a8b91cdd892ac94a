------------------------ MODULE MCMessagePersistence ------------------------
(* Instances of MessagePersistence for TLC. *)
EXTENDS MessagePersistence

CONSTANTS e1, e2, e3, c1, c2

Message(e) == [kind |-> "message", event |-> e]
BadEnvelope(e) == [kind |-> "badEnvelope", event |-> e]
Rejected(e) == [kind |-> "rejected", event |-> e]

(* Events of the two conversations arrive against their timestamps. *)
MCTimeOf == [e \in Event |-> CASE e = e1 -> 2 [] e = e2 -> 1 [] e = e3 -> 3]

(* Safety: two conversations, and e1 published twice by a producer's retry. *)
MCConvOf == [e \in Event |-> IF e = e1 THEN c1 ELSE c2]
MCTopic == <<Message(e1), BadEnvelope(e2), Message(e2), Message(e1)>>

(* Liveness: a rejected record between two messages, and a last message    *)
(* that leaves the buffer below the batch size and has no conversation.    *)
LiveConvOf == [e \in Event |-> IF e = e3 THEN NoConv ELSE c1]
LiveTopic == <<Message(e1), Rejected(e1), Message(e2), Message(e3)>>
=============================================================================
