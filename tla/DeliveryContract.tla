-------------------------- MODULE DeliveryContract --------------------------
(***************************************************************************)
(* What the durable consumer queue promises its users, whatever the number *)
(* of SentryCode executions that share it and whatever fails: a message    *)
(* keeps the content it was first queued with, a consumer is only ever     *)
(* sent queued content, and a message is settled as delivered only after   *)
(* the consumer has received it, once and for all.  Nothing is promised    *)
(* about how often the consumer receives it: delivery is at least once.    *)
(***************************************************************************)
CONSTANTS Msgs,      \* message identifiers of one consumer
          Bodies,    \* message contents
          NoBody     \* the content of a message that was never queued

VARIABLES outcome,   \* "absent", "queued" or "delivered", per message
          content,   \* the content under which the message was queued
          received   \* the <<message, content>> pairs the consumer received

vars == <<outcome, content, received>>

Init ==
  /\ outcome = [m \in Msgs |-> "absent"]
  /\ content = [m \in Msgs |-> NoBody]
  /\ received = {}

Enqueue(m, b) ==
  /\ outcome[m] = "absent"
  /\ outcome' = [outcome EXCEPT ![m] = "queued"]
  /\ content' = [content EXCEPT ![m] = b]
  /\ UNCHANGED received

Receive(m) ==
  /\ outcome[m] # "absent"
  /\ received' = received \cup {<<m, content[m]>>}
  /\ UNCHANGED <<outcome, content>>

Settle(m) ==
  /\ outcome[m] = "queued"
  /\ <<m, content[m]>> \in received
  /\ outcome' = [outcome EXCEPT ![m] = "delivered"]
  /\ UNCHANGED <<content, received>>

Next ==
  \E m \in Msgs :
    \/ \E b \in Bodies : Enqueue(m, b)
    \/ Receive(m)
    \/ Settle(m)

Spec == Init /\ [][Next]_vars
=============================================================================
