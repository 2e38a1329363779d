-------------------------- MODULE MCGatewayConnection --------------------------
(* Instances of GatewayConnection for TLC: two connections, with a key each. *)
EXTENDS GatewayConnection, TLC

CONSTANTS c1, c2, anAccount, anotherAccount

KeysOfTheirOwn == (c1 :> anAccount) @@ (c2 :> anotherAccount)

Cast(role, messages, other) ==
  (c1 :> [role |-> role, messages |-> messages]) @@ (c2 :> other)

Nobody == [role |-> "absent", messages |-> 0]
Helper == [role |-> "other", messages |-> 1]

\* The clients that run the conversation.
ConversationCasts == {Cast("worker", 0, Nobody), Cast("consumer", 0, Nobody)}

\* These, any other client alone, and one beside a client that may sign what it is handed.
MCCasts == ConversationCasts \cup {Cast("other", 3, Nobody), Cast("other", 2, Helper)}

\* A client that begins with any message and goes on about its account, and its helper.
AllTypes == {f.type : f \in ClientFrame}
ProofTypes == {"account.challenge.request", "account.authenticate"}
MCOtherTypes ==
  (c1 :> <<AllTypes, ProofTypes, ProofTypes>>) @@ (c2 :> <<{}, {}, {"account.authenticate"}>>)
=============================================================================
