--------------------------- MODULE GatewayConnection ---------------------------
(***************************************************************************)
(* The clients at the other end of GatewayAccounts: a connection of the    *)
(* Node.js worker (GatewayWorkerClient), of a consumer (ConsumerClient),   *)
(* or of any other program that speaks the protocol in an order of its     *)
(* own.  The first two run the account conversation of the protocol        *)
(* package (AccountAuthentication) before they register, and authenticate  *)
(* again before their session runs out.  A program that connects again     *)
(* does so over another connection.                                        *)
(***************************************************************************)
EXTENDS GatewayAccounts

CONSTANTS
  Casts,            \* who is at each connection, in the cases to consider
  MaxRegistrations, \* bound: registrations a client has under way when it renews
  MaxMessages,      \* bound: messages of a connection of role "other"
  OtherTypes        \* bound: the types of each of those messages

ASSUME GatewayConnectionAssumption ==
  /\ Casts \subseteq [Connection -> [role : {"worker", "consumer", "other", "absent"},
                                     messages : 0..MaxMessages]]
  /\ MaxRegistrations \in Nat /\ MaxMessages \in Nat
  /\ OtherTypes \in [Connection -> [1..MaxMessages -> SUBSET {f.type : f \in ClientFrame}]]

VARIABLES
  client,      \* the client of each connection
  link,        \* whether the network still carries each connection
  signatures,  \* history: the signatures clients have made
  sent         \* messages sent by connections of role "other"

vars == <<gatewayVars, client, link, signatures, sent>>

ConnectionTypeOK ==
  /\ GatewayTypeOK
  /\ client \in [Connection -> [role : {"worker", "consumer", "other", "absent"},
                                hasKeyPair : BOOLEAN, isOpen : BOOLEAN,
                                conversation : {"none", "open", "settled"}, isRegistered : BOOLEAN,
                                isRenewing : BOOLEAN, signing : SUBSET Challenge, checks : 0..MaxRegistrations]]
  /\ link \in [Connection -> {"up", "down"}]
  /\ signatures \subseteq [key : Account, value : Challenge]
  /\ sent \in [Connection -> 0..MaxMessages]

Type(type) == [type |-> type]
Authenticate == [type |-> "deviceAuthenticate", isRightToken |-> TRUE]
Registration(c) == [type |-> "deviceRegister", role |-> client[c].role, areStagesDefined |-> TRUE]

\* socket.onopen has run and the token is on its way, where somebody is connected.
Init ==
  \E cast \in Casts :
    LET isThere(c) == cast[c].role # "absent"
    IN /\ GatewayInit
       /\ isOpen = [c \in Connection |-> isThere(c)]
       /\ \E keyPair \in [Connection -> BOOLEAN] :
            /\ \A c \in Connection : cast[c].role \in {"worker", "consumer"} \/ keyPair[c]
            /\ client = [c \in Connection |->
                        [role |-> cast[c].role, hasKeyPair |-> keyPair[c], isOpen |-> isThere(c),
                         conversation |-> "none", isRegistered |-> FALSE, isRenewing |-> FALSE,
                         signing |-> {}, checks |-> 0]]
       /\ toGateway = [c \in Connection |-> IF isThere(c) THEN <<Authenticate>> ELSE <<>>]
       /\ link = [c \in Connection |-> IF isThere(c) THEN "up" ELSE "down"]
       /\ sent = [c \in Connection |-> MaxMessages - cast[c].messages]
       /\ signatures = {}

RunsConversation(c) == client[c].role \in {"worker", "consumer"}

\* A socket that is no longer open discards what is sent.
ClientSends(c, frames) ==
  toGateway' = IF isOpen[c] /\ client[c].isOpen THEN [toGateway EXCEPT ![c] = @ \o frames] ELSE toGateway

OnlyClient == UNCHANGED <<isOpen, session, challenge, accounts, pending, device, issued,
                          taken, refused, provedAs, work, link, signatures, sent>>

-----------------------------------------------------------------------------
(* What a frame makes the client do: the client after it and what it sends *)

Nothing(c) == [client |-> client[c], frames |-> <<>>]

\* onSettled: a worker asks for the pipelines, a consumer registers.
OnSettled(c) == IF client[c].isRegistered THEN <<>>
                ELSE IF client[c].role = "worker" THEN <<Type("pipelines.get")>> ELSE <<Registration(c)>>

\* settle: once for each conversation.
Settle(c) ==
  IF client[c].conversation # "open" THEN Nothing(c)
  ELSE [client |-> [client[c] EXCEPT !.conversation = "settled"], frames |-> OnSettled(c)]

\* Slip: a client registers without waiting for its account.
OnDeviceAuthenticatedAtOnce(c) ==
  LET renewing == [client[c] EXCEPT !.isRenewing = TRUE]
  IN IF client[c].isRegistered \/ client[c].conversation # "none"
     THEN [client |-> renewing, frames |-> <<>>]
     ELSE IF client[c].hasKeyPair
     THEN [client |-> [renewing EXCEPT !.conversation = "settled"],
           frames |-> <<[type |-> "account.register", account |-> AccountOf[c]]>> \o OnSettled(c)]
     ELSE [client |-> renewing, frames |-> OnSettled(c)]

\* Slip: only the first session of a connection is renewed.
OnDeviceAuthenticatedOnce(c) ==
  IF client[c].isRegistered \/ client[c].conversation # "none" THEN Nothing(c)
  ELSE IF client[c].hasKeyPair
  THEN [client |-> [client[c] EXCEPT !.isRenewing = TRUE, !.conversation = "open"],
        frames |-> <<[type |-> "account.register", account |-> AccountOf[c]]>>]
  ELSE [client |-> [client[c] EXCEPT !.isRenewing = TRUE], frames |-> OnSettled(c)]

\* A session: renew it later, and start what the connection is for if it has not started.
OnDeviceAuthenticated(c) ==
  LET renewing == [client[c] EXCEPT !.isRenewing = TRUE]
  IN IF client[c].isRegistered \/ client[c].conversation # "none"
     THEN [client |-> renewing, frames |-> <<>>]
     ELSE IF client[c].hasKeyPair
     THEN [client |-> [renewing EXCEPT !.conversation = "open"],
           frames |-> <<[type |-> "account.register", account |-> AccountOf[c]]>>]
     ELSE [client |-> renewing, frames |-> OnSettled(c)]

\* Slip: only the codes of the account messages count as the conversation's.
OwnErrorCodes == {"ACCOUNT_NOT_FOUND", "ACCOUNT_CHALLENGE_INVALID", "ACCOUNT_SIGNATURE_REJECTED"}

\* isAccountErrorCode, of the codes the gateway sends here.
AccountErrorCodes == {"ACCOUNT_NOT_FOUND", "ACCOUNT_CHALLENGE_INVALID", "ACCOUNT_SIGNATURE_REJECTED",
                      "VALIDATION", "UNSUPPORTED"}

OnError(c, code) ==
  IF client[c].conversation = "open" /\ code \in AccountErrorCodes THEN Settle(c) ELSE Nothing(c)

\* AccountAuthentication.handleMessage, for a connection that has a conversation.
InConversation(c, frame) ==
  CASE frame.type = "account.registered" ->
         [client |-> client[c], frames |-> <<Type("account.challenge.request")>>]
    [] frame.type = "account.challenge" ->
         [client |-> [client[c] EXCEPT !.signing = @ \cup {frame.value}], frames |-> <<>>]
    [] frame.type = "account.authenticated" -> Settle(c)
    [] frame.type = "error" -> OnError(c, frame.code)

\* handleMessage of the worker's client and of the consumer's.
Reaction(c, frame) ==
  CASE frame.type = "deviceAuthenticated" -> OnDeviceAuthenticated(c)
    [] frame.type = "deviceRegistered" ->
         [client |-> [client[c] EXCEPT !.isRegistered = TRUE], frames |-> <<>>]
    [] frame.type = "pipelines" ->
         [client |-> [client[c] EXCEPT !.checks = @ + 1], frames |-> <<>>]
    [] OTHER -> IF client[c].conversation = "none" THEN Nothing(c) ELSE InConversation(c, frame)

-----------------------------------------------------------------------------
(* The worker's and the consumer's steps *)

ReceiveFrame(c) ==
  /\ RunsConversation(c) /\ client[c].isOpen /\ toClient[c] # <<>>
  /\ LET reaction == Reaction(c, Head(toClient[c]))
     IN client' = [client EXCEPT ![c] = reaction.client] /\ ClientSends(c, reaction.frames)
  /\ toClient' = [toClient EXCEPT ![c] = Tail(@)]
  /\ OnlyClient

\* A signature with the key that the client of c holds.
SignedBy(c, value) == [key |-> AccountOf[c], value |-> value]

\* signChallenge resolves.
Sign(c, value) ==
  /\ value \in client[c].signing
  /\ client' = [client EXCEPT ![c].signing = @ \ {value}]
  /\ signatures' = signatures \cup {SignedBy(c, value)}
  /\ ClientSends(c, <<[type |-> "account.authenticate", account |-> AccountOf[c],
                       signature |-> SignedBy(c, value)]>>)
  /\ UNCHANGED <<isOpen, session, challenge, accounts, pending, device, toClient, issued,
                 taken, refused, provedAs, work, link, sent>>

\* signChallenge throws: the conversation is over, with no account.
SignFails(c, value) ==
  /\ value \in client[c].signing
  /\ client' = [client EXCEPT ![c] = [Settle(c).client EXCEPT !.signing = @ \ {value}]]
  /\ ClientSends(c, Settle(c).frames)
  /\ UNCHANGED toClient /\ OnlyClient

\* registerOfferedStages once the local server has answered: the stages left are
\* registered, or there are none and the connection is closed.
OfferStages(c) ==
  /\ client[c].checks > 0 /\ client[c].isOpen
  /\ \/ /\ client' = [client EXCEPT ![c].checks = @ - 1]
        /\ ClientSends(c, <<Registration(c)>>)
        /\ UNCHANGED link
     \/ /\ client' = [client EXCEPT ![c].checks = @ - 1]
        /\ link' = [link EXCEPT ![c] = "down"]
        /\ UNCHANGED toGateway
  /\ UNCHANGED <<isOpen, session, challenge, accounts, pending, device, toClient, issued,
                 taken, refused, provedAs, work, signatures, sent>>

\* What a client's registration still has on its way.
RegistrationsUnderWay(c) ==
  Cardinality({i \in DOMAIN toGateway[c] : toGateway[c][i].type \in {"pipelines.get", "deviceRegister"}})
    + Cardinality({i \in DOMAIN toClient[c] : toClient[c][i].type \in {"pipelines", "deviceRegistered"}})
    + client[c].checks

\* The renewal timer fires, half way to the expiry or whenever this process next runs.
RenewSession(c) ==
  /\ client[c].isRenewing /\ RegistrationsUnderWay(c) < MaxRegistrations
  /\ client' = [client EXCEPT ![c].isRenewing = FALSE]
  /\ ClientSends(c, <<Authenticate>>)
  /\ UNCHANGED toClient /\ OnlyClient

\* A task submitted, or a stage's result reported; one at a time is unanswered.
DoWork(c) ==
  /\ RunsConversation(c) /\ client[c].isRegistered
  /\ \A i \in DOMAIN toGateway[c] : toGateway[c][i].type # "work"
  /\ \A i \in DOMAIN toClient[c] : toClient[c][i].type # "error"
  /\ ClientSends(c, <<Type("work")>>)
  /\ UNCHANGED <<client, toClient>> /\ OnlyClient

-----------------------------------------------------------------------------
(* Any other client: the messages in any order, whoever they name *)

\* What it may send for a signature: one it makes with its own key, over any challenge
\* there is, one that somebody made before, or bytes that are none.
OtherSignatures(c) ==
  {SignedBy(c, v) : v \in DOMAIN issued} \cup signatures \cup {NoSignature}

OtherFrames(c) ==
  {frame \in {Authenticate, [Authenticate EXCEPT !.isRightToken = FALSE],
              Type("account.challenge.request"), Type("work"),
              [type |-> "deviceRegister", role |-> "worker", areStagesDefined |-> FALSE],
              [type |-> "deviceRegister", role |-> "consumer", areStagesDefined |-> TRUE]}
               \cup [type : {"account.register"}, account : Account]
               \cup [type : {"account.authenticate"}, account : Account, signature : OtherSignatures(c)] :
     frame.type \in OtherTypes[c][sent[c] + 1]}

OtherSends(c) ==
  /\ client[c].role = "other" /\ client[c].isOpen /\ sent[c] < MaxMessages
  /\ toGateway[c] = <<>>
  /\ \E frame \in OtherFrames(c) :
       /\ ClientSends(c, <<frame>>)
       /\ signatures' = IF frame.type = "account.authenticate" /\ frame.signature # NoSignature
                        THEN signatures \cup {frame.signature} ELSE signatures
  /\ sent' = [sent EXCEPT ![c] = @ + 1]
  /\ UNCHANGED <<isOpen, session, challenge, accounts, pending, device, toClient, issued,
                 taken, refused, provedAs, work, client, link>>

OtherReceives(c) ==
  /\ client[c].role = "other" /\ client[c].isOpen /\ toClient[c] # <<>>
  /\ toClient' = [toClient EXCEPT ![c] = Tail(@)]
  /\ UNCHANGED <<client, toGateway>> /\ OnlyClient

-----------------------------------------------------------------------------
(* The end of a connection, and the specification *)

\* The network fails, a program ends, or the gateway's heartbeat terminates it.
LinkFails(c) ==
  /\ link[c] = "up"
  /\ link' = [link EXCEPT ![c] = "down"]
  /\ UNCHANGED <<gatewayVars, client, signatures, sent>>

\* socket.onclose.  What was still being computed for the connection is lost with it.
ClientCloses(c) ==
  /\ link[c] = "down" /\ client[c].isOpen
  /\ client' = [client EXCEPT ![c] = [@ EXCEPT !.isOpen = FALSE, !.conversation = "none",
                                              !.isRegistered = FALSE, !.isRenewing = FALSE,
                                              !.signing = {}, !.checks = 0]]
  /\ toClient' = [toClient EXCEPT ![c] = <<>>]
  /\ UNCHANGED toGateway /\ OnlyClient

GatewayStep(c) ==
  /\ \/ GatewayReads(c) \/ GatewayAnswers(c) \/ SessionLapses(c) \/ ChallengeLapses(c)
     \/ link[c] = "down" /\ CloseConnection(c)
  /\ UNCHANGED <<client, link, signatures, sent>>

ClientStep(c) ==
  \/ ReceiveFrame(c) \/ OfferStages(c) \/ RenewSession(c) \/ DoWork(c)
  \/ \E v \in client[c].signing : RunsConversation(c) /\ (Sign(c, v) \/ SignFails(c, v))
  \/ OtherSends(c) \/ OtherReceives(c) \/ LinkFails(c) \/ ClientCloses(c)

Next == \E c \in Connection : GatewayStep(c) \/ ClientStep(c)

Spec == Init /\ [][Next]_vars

\* Both programs keep running: a frame that arrived is read, a promise settles,
\* an armed timer fires, and a closed socket tells both ends.
FairSpec ==
  /\ Spec
  /\ \A c \in Connection :
       LET serves(step) == step /\ UNCHANGED <<client, link, signatures, sent>>
       IN /\ WF_vars(RunsConversation(c) /\ serves(GatewayReads(c)))
          /\ WF_vars(RunsConversation(c) /\ serves(GatewayAnswers(c)))
          /\ WF_vars(RunsConversation(c) /\ link[c] = "down" /\ serves(CloseConnection(c)))
          /\ WF_vars(ReceiveFrame(c))
          /\ WF_vars(RunsConversation(c) /\ OfferStages(c))
          /\ WF_vars(RunsConversation(c) /\ RenewSession(c))
          /\ WF_vars(RunsConversation(c) /\ \E v \in client[c].signing : Sign(c, v) \/ SignFails(c, v))
          /\ WF_vars(RunsConversation(c) /\ ClientCloses(c))

-----------------------------------------------------------------------------
(* Properties *)

\* ChallengeRegistry: a challenge is answered at most once, by the connection it
\* was handed to, whatever order the messages of a connection come in.
ChallengeTakenOnce ==
  \A i \in DOMAIN taken :
    /\ issued[taken[i].value] = taken[i].connection
    /\ \A j \in DOMAIN taken : taken[i].value = taken[j].value => i = j

\* The key of the account on c's session signed a challenge that was taken on c.
IsSignedFor(c) ==
  \E i \in DOMAIN taken :
    taken[i].connection = c /\ [key |-> session[c].account, value |-> taken[i].value] \in signatures

\* The key of an account is with a client that signs whatever it is asked to.
SignsForOthers(account) == \E d \in Connection : client[d].role = "other" /\ AccountOf[d] = account

\* authenticateAccount: an account on a session was signed for with the key of that
\* account, over a challenge of that very connection that has been taken, though the
\* session may have been replaced and other challenges issued while the signature was
\* being verified; and the client there holds the key, unless a client that does is one
\* that signs what others were handed: a worker's or a consumer's signature is of no use
\* on another connection.
AccountIsProved ==
  \A c \in Connection : session[c].account # None =>
    IsSignedFor(c) /\ (AccountOf[c] = session[c].account \/ SignsForOthers(session[c].account))

\* WebsocketRouter's close handler against the answers still under way: nothing
\* is kept for a connection that is gone.
NothingKeptAfterClose ==
  \A c \in Connection : ~isOpen[c] =>
    session[c] = NoSession /\ challenge[c] = None /\ device[c] = None

\* onSettled and registerOfferedStages: a client that holds a key pair registers
\* only once its conversation is over and the gateway has no answer of it to give;
\* and a renewal does not restart the registration: at most one is under way, and
\* none once the client is registered.
\* (One without a key pair registers again when it renews before it is registered.)
RegistersAfterConversation ==
  \A c \in Connection :
    RunsConversation(c) /\ client[c].hasKeyPair =>
      /\ client[c].isOpen /\ device[c] # None => client[c].conversation = "settled" /\ pending[c] = <<>>
      /\ RegistrationsUnderWay(c) <= 1
      /\ client[c].isRegistered => RegistrationsUnderWay(c) = 0

\* Every connection of a client ends up registered, unless it closes or the
\* gateway refused one of its messages for want of a session.
EveryClientRegisters ==
  \A c \in Connection :
    RunsConversation(c) ~> (client[c].isRegistered \/ ~client[c].isOpen \/ c \in refused)

\* What a lapsed session refuses is only refused for a while: the renewal timer is
\* armed again by every answer, so an open connection has a live session again.
SessionsComeBack ==
  \A c \in Connection :
    RunsConversation(c) ~> (session[c].state = "live" \/ link[c] = "down")

\* accounting_system.md: the account proved on a connection is the connection's.
WorkCreditedToProvedAccount == \A w \in work : w.account = w.provedAs
=============================================================================
