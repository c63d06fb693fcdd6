------------------------------ MODULE EventTopic ------------------------------
(***************************************************************************)
(* The Kafka topic "webhook.events" as the services use it: the producer   *)
(* of internal/kafka/producer.go keys every message with the tenant, so    *)
(* one tenant's events share ONE partition, and the dispatchers consume it *)
(* as the consumer group "dispatcher-group" with explicit commits.         *)
(*                                                                         *)
(* The broker and the segmentio/kafka-go client are not part of the        *)
(* repository; the partition, its assignment and the meaning of a commit   *)
(* are modelled from how producer.go, consumer.go and dispatcher.go use    *)
(* them.  A message is the id of its event: the dispatcher reads nothing   *)
(* else of it.  Offsets count from 1.                                      *)
(***************************************************************************)
EXTENDS Sequences, Store

CONSTANTS
    Dispatchers,   \* the members of dispatcher-group
    MaxLog,        \* bound: no publisher starts new work once the log is this long
    NoOne          \* no dispatcher

ASSUME TopicAssumption ==
    /\ MaxLog \in Nat
    /\ NoOne \notin Dispatchers

VARIABLES
    log,           \* the messages of the partition, oldest first
    committed,     \* the group's committed offset: messages 1..committed are done
    owner,         \* the dispatcher the partition is assigned to
    position       \* the last offset each dispatcher's reader has handed out

topicVars == <<log, committed, owner, position>>

TopicTypeOK ==
    /\ log \in Seq(Events)
    /\ committed \in 0..Len(log)
    /\ owner \in Dispatchers \cup {NoOne}
    /\ position \in [Dispatchers -> 0..Len(log)]

TopicInit ==
    /\ log = <<>>
    /\ committed = 0
    /\ owner = NoOne
    /\ position = [d \in Dispatchers |-> 0]

\* The bound is tested where a handler starts, never between its steps.
LogHasRoom == Len(log) < MaxLog

\* Producer.PublishEvent returns nil.  WriteMessages retries on its own, so one
\* call may leave two copies behind when the broker's answers get lost.
Publish(e) ==
    /\ \/ log' = Append(log, e)
       \/ /\ "kafka" \in Faults
          /\ log' = Append(Append(log, e), e)
    /\ UNCHANGED <<committed, owner, position>>

\* Producer.PublishEvent returns an error: the message may be in the log anyway.
PublishFails(e) ==
    /\ "kafka" \in Faults
    /\ log' \in {log, Append(log, e)}
    /\ UNCHANGED <<committed, owner, position>>

\* The group assigns the partition to a live member, which starts reading after
\* the committed offset.
AssignTo(d) ==
    /\ owner' = d
    /\ position' = [position EXCEPT ![d] = committed]
    /\ UNCHANGED <<log, committed>>

\* CommitMessages: the broker checks the member, not who owns the partition, so a
\* commit of a former owner may be refused or may move the offset back.
CommitOffset(d, n) ==
    /\ \/ committed' = n
       \/ /\ owner # d \/ "kafka" \in Faults
          /\ UNCHANGED committed
    /\ UNCHANGED <<log, owner, position>>
==============================================================================
