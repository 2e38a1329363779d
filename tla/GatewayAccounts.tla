---------------------------- MODULE GatewayAccounts ----------------------------
(***************************************************************************)
(* The gateway's side of a connection before and around its work: the      *)
(* session it authenticated, the account it proved, the device it          *)
(* registered (packages/gateway/src: ClientMessageHandler.handle,          *)
(* AccountMessageHandler, SessionRegistry, ChallengeRegistry,              *)
(* AccountRegistry and WebsocketRouter).  Every message is handled in one  *)
(* step but two: the account messages that go through the Web Cryptography *)
(* API are answered later, and anything may happen in between.             *)
(***************************************************************************)
EXTENDS Naturals, FiniteSets, Sequences, SequencesExt

CONSTANTS
  Connection,     \* connections, each with a deviceId of its own
  Account,        \* accounts, one for each public key
  None,
  AccountOf,      \* the account whose private key a connection's client holds
  MaxChallenges   \* bound: challenges issued

ASSUME GatewayAccountsAssumption ==
  /\ None \notin Account \cup {"worker", "consumer"} /\ MaxChallenges \in Nat
  /\ AccountOf \in [Connection -> Account]

VARIABLES
  isOpen,     \* the connections of socketMap
  session,    \* sessionsByDeviceId, an expired entry until it is next looked at
  challenge,  \* challengesByDeviceId
  accounts,   \* accountsByAccountId
  pending,    \* account messages awaiting the Web Cryptography API
  device,     \* the role each connection registered
  toGateway,  \* frames of each connection the gateway has not read
  toClient,   \* frames of each connection the client has not read
  issued,     \* history: the connection each challenge was issued to
  taken,      \* history: the challenges taken, with the account, in order
  refused,    \* history: unregistered connections refused a message for want of a session
  provedAs,   \* history: the account last put on each connection
  work        \* history: whom the work of a connection was recorded against

gatewayVars == <<isOpen, session, challenge, accounts, pending, device, toGateway,
                 toClient, issued, taken, refused, provedAs, work>>

Challenge == 1..MaxChallenges

\* A signature: the account of the key that made it, and the challenge it is over.
\* NoSignature stands for bytes that no key made.
NoSignature == [key |-> None, value |-> 0]
Signature == [key : Account, value : Challenge] \cup {NoSignature}

NoSession == [state |-> "none", account |-> None]

ClientFrame ==
  [type : {"deviceAuthenticate"}, isRightToken : BOOLEAN]
    \cup [type : {"account.register"}, account : Account]
    \cup [type : {"account.authenticate"}, account : Account, signature : Signature]
    \cup [type : {"deviceRegister"}, role : {"worker", "consumer"}, areStagesDefined : BOOLEAN]
    \cup [type : {"account.challenge.request", "pipelines.get", "work"}]

GatewayFrame ==
  [type : {"deviceAuthenticated", "account.registered", "pipelines", "deviceRegistered"}]
    \cup [type : {"account.challenge"}, value : Challenge]
    \cup [type : {"account.authenticated"}, account : Account]
    \cup [type : {"error"}, code : {"AUTHENTICATION_REQUIRED", "NOT_REGISTERED", "VALIDATION",
                                    "ACCOUNT_NOT_FOUND", "ACCOUNT_CHALLENGE_INVALID",
                                    "ACCOUNT_SIGNATURE_REJECTED", "UNSUPPORTED"}]

GatewayTypeOK ==
  /\ isOpen \in [Connection -> BOOLEAN]
  /\ session \in [Connection -> [state : {"none", "live", "expired"}, account : Account \cup {None}]]
  /\ challenge \in [Connection -> [value : Challenge, isExpired : BOOLEAN] \cup {None}]
  /\ accounts \subseteq Account
  /\ pending \in [Connection -> Seq([step : {"register"}, account : Account]
                   \cup [step : {"verify"}, account : Account, value : Challenge, signature : Signature])]
  /\ device \in [Connection -> {None, "worker", "consumer"}]
  /\ toGateway \in [Connection -> Seq(ClientFrame)]
  /\ toClient \in [Connection -> Seq(GatewayFrame)]
  /\ issued \in Seq(Connection) /\ Len(issued) <= MaxChallenges
  /\ taken \in Seq([connection : Connection, value : Challenge])
  /\ refused \subseteq Connection
  /\ provedAs \in [Connection -> Account \cup {None}]
  /\ work \subseteq [connection : Connection, account : Account \cup {None},
                     provedAs : Account \cup {None}]

GatewayInit ==
  /\ session = [c \in Connection |-> NoSession]
  /\ challenge = [c \in Connection |-> None]
  /\ accounts \in SUBSET Account  \* those the account file holds
  /\ pending = [c \in Connection |-> <<>>]
  /\ device = [c \in Connection |-> None]
  /\ toClient = [c \in Connection |-> <<>>]
  /\ issued = <<>> /\ taken = <<>> /\ refused = {} /\ work = {}
  /\ provedAs = [c \in Connection |-> None]

-----------------------------------------------------------------------------
(* Reading a frame *)

ErrorFrame(code) == [type |-> "error", code |-> code]

\* hub.send: a closed connection is told nothing.
Send(c, frame) ==
  toClient' = IF isOpen[c] THEN [toClient EXCEPT ![c] = Append(@, frame)] ELSE toClient

\* The next frame of c, read by a handler that has looked the session up.
Reads(c, type) ==
  /\ isOpen[c] /\ toGateway[c] # <<>> /\ Head(toGateway[c]).type = type
  /\ toGateway' = [toGateway EXCEPT ![c] = Tail(@)]

ReadsInSession(c, type) == Reads(c, type) /\ session[c].state = "live"

\* Every message but deviceAuthenticate needs a live session.
RefuseOutsideSession(c) ==
  \E type \in {f.type : f \in ClientFrame} \ {"deviceAuthenticate"} :
    /\ Reads(c, type)
    /\ session[c].state # "live"
    /\ session' = [session EXCEPT ![c] = NoSession]
    /\ Send(c, ErrorFrame("AUTHENTICATION_REQUIRED"))
    /\ refused' = IF device[c] = None THEN refused \cup {c} ELSE refused
    /\ UNCHANGED <<isOpen, challenge, accounts, pending, device, issued, taken, provedAs, work>>

\* The shared token opens a session, or replaces the one there is.
DeviceAuthenticate(c) ==
  /\ Reads(c, "deviceAuthenticate")
  /\ IF Head(toGateway[c]).isRightToken
     THEN /\ session' = [session EXCEPT ![c] = [state |-> "live", account |-> None]]
          /\ Send(c, [type |-> "deviceAuthenticated"])
     ELSE /\ session' = IF session[c].state = "expired" THEN [session EXCEPT ![c] = NoSession] ELSE session
          /\ Send(c, ErrorFrame("AUTHENTICATION_REQUIRED"))
  /\ UNCHANGED <<isOpen, challenge, accounts, pending, device, issued, taken, refused, provedAs, work>>

PipelinesGet(c) ==
  /\ ReadsInSession(c, "pipelines.get")
  /\ Send(c, [type |-> "pipelines"])
  /\ UNCHANGED <<isOpen, session, challenge, accounts, pending, device, issued, taken, refused, provedAs, work>>

\* Only a worker has stages to check against the loaded pipelines.
DeviceRegister(c) ==
  /\ ReadsInSession(c, "deviceRegister")
  /\ LET frame == Head(toGateway[c])
     IN IF frame.role = "worker" /\ ~frame.areStagesDefined
        THEN device' = device /\ Send(c, ErrorFrame("VALIDATION"))
        ELSE /\ device' = [device EXCEPT ![c] = frame.role]
             /\ Send(c, [type |-> "deviceRegistered"])
  /\ UNCHANGED <<isOpen, session, challenge, accounts, pending, issued, taken, refused, provedAs, work>>

\* task.submit of a consumer or an accepted stage.result of a worker: what is
\* recorded names the account on the session at this moment.
Work(c) ==
  /\ ReadsInSession(c, "work")
  /\ IF device[c] = None
     THEN work' = work /\ Send(c, ErrorFrame("NOT_REGISTERED"))
     ELSE /\ work' = work \cup {[connection |-> c, account |-> session[c].account,
                                 provedAs |-> provedAs[c]]}
          /\ UNCHANGED toClient
  /\ UNCHANGED <<isOpen, session, challenge, accounts, pending, device, issued, taken, refused, provedAs>>

-----------------------------------------------------------------------------
(* The account messages *)

\* The account of a public key is computed asynchronously.
AccountRegister(c) ==
  /\ ReadsInSession(c, "account.register")
  /\ pending' = [pending EXCEPT ![c] = Append(@, [step |-> "register", account |-> Head(toGateway[c]).account])]
  /\ UNCHANGED <<isOpen, session, challenge, accounts, device, toClient, issued, taken, refused, provedAs, work>>

\* A new account is in memory before its file is written, and the write may throw.
RegisterAccount(c, i) ==
  /\ i \in DOMAIN pending[c] /\ pending[c][i].step = "register"
  /\ pending' = [pending EXCEPT ![c] = RemoveAt(@, i)]
  /\ accounts' = accounts \cup {pending[c][i].account}
  /\ \/ Send(c, [type |-> "account.registered"])
     \/ pending[c][i].account \notin accounts /\ Send(c, ErrorFrame("UNSUPPORTED"))
  /\ UNCHANGED <<isOpen, session, challenge, device, toGateway, issued, taken, refused, provedAs, work>>

\* A fresh challenge replaces the connection's own and drops what expired on others.
ChallengeRequest(c) ==
  /\ Len(issued) < MaxChallenges
  /\ ReadsInSession(c, "account.challenge.request")
  /\ LET value == Len(issued) + 1
     IN /\ challenge' = [d \in Connection |->
                           IF d = c THEN [value |-> value, isExpired |-> FALSE]
                           ELSE IF challenge[d] # None /\ challenge[d].isExpired THEN None
                           ELSE challenge[d]]
        /\ Send(c, [type |-> "account.challenge", value |-> value])
  /\ issued' = Append(issued, c)
  /\ UNCHANGED <<isOpen, session, accounts, pending, device, taken, refused, provedAs, work>>

\* Slip: the challenge is only spent by a signature that holds.
AuthenticateKeeping(c) ==
  /\ ReadsInSession(c, "account.authenticate")
  /\ LET frame == Head(toGateway[c])
     IN IF frame.account \notin accounts
        THEN /\ Send(c, ErrorFrame("ACCOUNT_NOT_FOUND"))
             /\ UNCHANGED <<challenge, pending, taken>>
        ELSE IF challenge[c] = None \/ challenge[c].isExpired
        THEN /\ challenge' = [challenge EXCEPT ![c] = None]
             /\ Send(c, ErrorFrame("ACCOUNT_CHALLENGE_INVALID"))
             /\ UNCHANGED <<pending, taken>>
        ELSE /\ pending' = [pending EXCEPT ![c] = Append(@, [step |-> "verify", account |-> frame.account,
                              value |-> challenge[c].value, signature |-> frame.signature])]
             /\ taken' = Append(taken, [connection |-> c, value |-> challenge[c].value])
             /\ UNCHANGED <<challenge, toClient>>
  /\ UNCHANGED <<isOpen, session, accounts, device, issued, refused, provedAs, work>>

\* The challenge is taken before the signature over it is checked.
AccountAuthenticate(c) ==
  /\ ReadsInSession(c, "account.authenticate")
  /\ LET frame == Head(toGateway[c])
     IN IF frame.account \notin accounts
        THEN /\ Send(c, ErrorFrame("ACCOUNT_NOT_FOUND"))
             /\ UNCHANGED <<challenge, pending, taken>>
        ELSE /\ challenge' = [challenge EXCEPT ![c] = None]
             /\ IF challenge[c] = None \/ challenge[c].isExpired
                THEN /\ Send(c, ErrorFrame("ACCOUNT_CHALLENGE_INVALID"))
                     /\ UNCHANGED <<pending, taken>>
                ELSE /\ pending' = [pending EXCEPT ![c] = Append(@, [step |-> "verify",
                                      account |-> frame.account, value |-> challenge[c].value,
                                      signature |-> frame.signature])]
                     /\ taken' = Append(taken, [connection |-> c, value |-> challenge[c].value])
                     /\ UNCHANGED toClient
  /\ UNCHANGED <<isOpen, session, accounts, device, issued, refused, provedAs, work>>

\* Slip: the signature is checked with a key of the sender's choice.
IsVerifiedByAnyKey(answer) == answer.signature.key # None /\ answer.signature.value = answer.value

\* verifyChallengeSignature, with the public key of the account the message names: the
\* signature was made with that account's key, over the challenge that was taken.
IsVerified(answer) == answer.signature = [key |-> answer.account, value |-> answer.value]

\* Slip: the account is put on a session made for it when there is none.
VerifyIntoAnySession(c, i) ==
  /\ i \in DOMAIN pending[c] /\ pending[c][i].step = "verify"
  /\ pending' = [pending EXCEPT ![c] = RemoveAt(@, i)]
  /\ LET answer == pending[c][i]
     IN IF ~IsVerified(answer)
        THEN Send(c, ErrorFrame("ACCOUNT_SIGNATURE_REJECTED")) /\ UNCHANGED <<session, provedAs>>
        ELSE /\ session' = [session EXCEPT ![c] = [state |-> "live", account |-> answer.account]]
             /\ provedAs' = [provedAs EXCEPT ![c] = answer.account]
             /\ Send(c, [type |-> "account.authenticated", account |-> answer.account])
  /\ UNCHANGED <<isOpen, challenge, accounts, device, toGateway, issued, taken, refused, work>>

\* A signature that holds puts the account on whatever session is live by then.
VerifySignature(c, i) ==
  /\ i \in DOMAIN pending[c] /\ pending[c][i].step = "verify"
  /\ pending' = [pending EXCEPT ![c] = RemoveAt(@, i)]
  /\ LET answer == pending[c][i]
     IN IF ~IsVerified(answer)
        THEN Send(c, ErrorFrame("ACCOUNT_SIGNATURE_REJECTED")) /\ UNCHANGED <<session, refused, provedAs>>
        ELSE IF session[c].state # "live"
        THEN /\ session' = [session EXCEPT ![c] = NoSession]
             /\ refused' = refused \cup {c}
             /\ Send(c, ErrorFrame("AUTHENTICATION_REQUIRED"))
             /\ UNCHANGED provedAs
        ELSE /\ session' = [session EXCEPT ![c].account = answer.account]
             /\ provedAs' = [provedAs EXCEPT ![c] = answer.account]
             /\ Send(c, [type |-> "account.authenticated", account |-> answer.account])
             /\ UNCHANGED refused
  /\ UNCHANGED <<isOpen, challenge, accounts, device, toGateway, issued, taken, work>>

\* The Web Cryptography API throws, and the handler's catch answers.
VerificationThrows(c, i) ==
  /\ i \in DOMAIN pending[c]
  /\ pending' = [pending EXCEPT ![c] = RemoveAt(@, i)]
  /\ Send(c, ErrorFrame("UNSUPPORTED"))
  /\ UNCHANGED <<isOpen, session, challenge, accounts, device, toGateway, issued, taken,
                 refused, provedAs, work>>

-----------------------------------------------------------------------------
(* Time and the end of a connection *)

SessionLapses(c) ==
  /\ session[c].state = "live"
  /\ session' = [session EXCEPT ![c].state = "expired"]
  /\ UNCHANGED <<isOpen, challenge, accounts, pending, device, toGateway, toClient, issued,
                 taken, refused, provedAs, work>>

ChallengeLapses(c) ==
  /\ challenge[c] # None /\ ~challenge[c].isExpired
  /\ challenge' = [challenge EXCEPT ![c].isExpired = TRUE]
  /\ UNCHANGED <<isOpen, session, accounts, pending, device, toGateway, toClient, issued,
                 taken, refused, provedAs, work>>

\* socket.on('close'); account messages already awaiting an answer still get theirs.
CloseConnection(c) ==
  /\ isOpen[c]
  /\ isOpen' = [isOpen EXCEPT ![c] = FALSE]
  /\ session' = [session EXCEPT ![c] = NoSession]
  /\ challenge' = [challenge EXCEPT ![c] = None]
  /\ device' = [device EXCEPT ![c] = None]
  /\ toGateway' = [toGateway EXCEPT ![c] = <<>>]
  /\ UNCHANGED <<accounts, pending, toClient, issued, taken, refused, provedAs, work>>

GatewayReads(c) ==
  \/ RefuseOutsideSession(c) \/ DeviceAuthenticate(c) \/ PipelinesGet(c)
  \/ DeviceRegister(c) \/ Work(c)
  \/ AccountRegister(c) \/ ChallengeRequest(c) \/ AccountAuthenticate(c)

GatewayAnswers(c) ==
  \E i \in DOMAIN pending[c] :
    RegisterAccount(c, i) \/ VerifySignature(c, i) \/ VerificationThrows(c, i)
=============================================================================
