------------------------ MODULE GatewayConnection_proofs ------------------------
(***************************************************************************)
(* What the gateway keeps of a connection, proved for any number of        *)
(* connections, accounts and challenges, and for clients of every role at  *)
(* once: challenges are answered once, accounts are signed for, and        *)
(* nothing outlives a connection.                                          *)
(*                                                                         *)
(* The invariant has three parts: the types, the life of a challenge from  *)
(* its issue to its one answer, and the trail of a signature from the      *)
(* client's frame through the pending verification to the session.         *)
(* Over it, the holders: whose key made a signature, which bounds whose    *)
(* account a client can prove.                                             *)
(*                                                                         *)
(* A second invariant, over the first, counts what a client that holds a   *)
(* key pair has under way: a message of its conversation, the answer to    *)
(* it, a signature, or a message of its registration.  It is one thing at  *)
(* a time, and the registration comes after the conversation.              *)
(*                                                                         *)
(* A third is its counterpart: what a connected client waits for is always *)
(* on its way, being computed or in hand, and the next session of a client *)
(* is always to come.                                                      *)
(***************************************************************************)
EXTENDS GatewayConnection, SequenceTheorems, FiniteSetTheorems, TLAPS

\* A client, without the bound on what it has under way: only one that runs the
\* conversation checks stages.
ClientRecord ==
  {r \in [role : {"worker", "consumer", "other", "absent"}, hasKeyPair : BOOLEAN, isOpen : BOOLEAN,
          conversation : {"none", "open", "settled"}, isRegistered : BOOLEAN,
          isRenewing : BOOLEAN, signing : SUBSET Challenge, checks : Nat] :
     r.checks # 0 => r.role \in {"worker", "consumer"}}

ClientTyped ==
  /\ client \in [Connection -> ClientRecord]
  /\ signatures \subseteq [key : Account, value : Challenge]

\* A challenge that is out was handed to its connection and is in no answer yet, and an
\* answer taken was to a challenge issued.
ChallengesAreFresh ==
  /\ \A c \in Connection : challenge[c] # None =>
       /\ challenge[c].value \in DOMAIN issued /\ issued[challenge[c].value] = c
       /\ \A i \in DOMAIN taken : taken[i].value # challenge[c].value
  /\ \A i \in DOMAIN taken : taken[i].value \in DOMAIN issued

\* What is sent for a signature was made before, or is none.
IsSigned(frame) ==
  frame.type = "account.authenticate" => frame.signature \in signatures \cup {NoSignature}

\* What the verification under way for c is about: a signature that was made, if it is
\* one, and a challenge that c has answered.
IsFounded(c, answer) ==
  answer.step = "verify" =>
    /\ answer.signature \in signatures \cup {NoSignature}
    /\ \E i \in DOMAIN taken : taken[i].connection = c /\ taken[i].value = answer.value

\* The first half of AccountIsProved.
AccountsAreSigned == \A c \in Connection : session[c].account # None => IsSignedFor(c)

SignaturesAreTraced ==
  /\ \A c \in Connection : \A i \in DOMAIN toGateway[c] : IsSigned(toGateway[c][i])
  /\ \A c \in Connection : \A i \in DOMAIN pending[c] : IsFounded(c, pending[c][i])

Typed == GatewayTypeOK /\ ClientTyped

ConnectionInv ==
  /\ Typed
  /\ ChallengesAreFresh /\ ChallengeTakenOnce
  /\ SignaturesAreTraced /\ AccountsAreSigned
  /\ NothingKeptAfterClose

-----------------------------------------------------------------------------
(* Frames and sequences *)

\* What a frame of each type carries.
LEMMA FrameFields ==
  ASSUME NEW f \in ClientFrame
  PROVE  /\ f.type = "account.register" => f.account \in Account
         /\ f.type = "account.authenticate" => f.account \in Account /\ f.signature \in Signature
         /\ f.type = "deviceRegister" => f.role \in {"worker", "consumer"}
BY DEF ClientFrame

(* The only frame of the gateway that carries a challenge is account.challenge. *)
LEMMA GatewayFrameFields ==
  ASSUME NEW f \in GatewayFrame
  PROVE  f.type = "account.challenge" => f.value \in Challenge
BY DEF GatewayFrame

\* RemoveAt leaves elements of the sequence it was given.
LEMMA RemoveAtIsPart ==
  ASSUME NEW S, NEW s \in Seq(S), NEW i \in DOMAIN s
  PROVE  /\ RemoveAt(s, i) \in Seq(S)
         /\ \A k \in DOMAIN RemoveAt(s, i) : \E j \in DOMAIN s : RemoveAt(s, i)[k] = s[j]
<1> DEFINE a == SubSeq(s, 1, i - 1)
           b == SubSeq(s, i + 1, Len(s))
<1>0. i \in 1..Len(s) /\ Len(s) \in Nat
  OBVIOUS
<1>1. /\ a \in Seq(S) /\ Len(a) = i - 1
      /\ \A k \in 1..(i - 1) : a[k] = s[k]
  BY <1>0
<1>2. /\ b \in Seq(S) /\ Len(b) = Len(s) - i
      /\ \A k \in 1..(Len(s) - i) : b[k] = s[i + k]
  BY <1>0
<1>3. RemoveAt(s, i) = a \o b
  BY DEF RemoveAt
<1> HIDE DEF a, b
<1>4. a \o b \in Seq(S) /\ Len(a \o b) = Len(s) - 1
  BY <1>0, <1>1, <1>2
<1>5. ASSUME NEW k \in 1..(Len(s) - 1)
      PROVE  \E j \in DOMAIN s : (a \o b)[k] = s[j]
  <2>0. k \in Nat /\ k >= 1 /\ k <= Len(s) - 1 /\ i \in Nat /\ i >= 1 /\ i <= Len(s)
    BY <1>0
  <2>1. CASE k <= i - 1
    <3>1. (a \o b)[k] = s[k] /\ k \in DOMAIN s
      BY <1>0, <1>1, <1>2, <2>1
    <3> QED  BY <3>1
  <2>2. CASE k > i - 1
    <3>0. k - (i - 1) \in 1..(Len(s) - i)
      BY <1>0, <2>0, <2>2
    <3>4. k \in 1..(Len(a) + Len(b)) /\ ~(k <= Len(a)) /\ Len(a) = i - 1
      BY <1>0, <1>1, <1>2, <2>0, <2>2
    <3>5. (a \o b)[k] = b[k - Len(a)]
      BY <1>1, <1>2, <3>4, ConcatProperties
    <3>1. (a \o b)[k] = b[k - (i - 1)]
      BY <3>4, <3>5
    <3>2. b[k - (i - 1)] = s[i + (k - (i - 1))]
      BY <1>2, <3>0
    <3>3. i + (k - (i - 1)) \in DOMAIN s
      BY <1>0, <2>0, <2>2
    <3> QED  BY <3>1, <3>2, <3>3
  <2>3. k <= i - 1 \/ k > i - 1
    BY <2>0
  <2> QED  BY <2>1, <2>2, <2>3
<1>6. DOMAIN (a \o b) = 1..(Len(s) - 1)
  BY <1>4
<1> QED
  BY <1>3, <1>4, <1>5, <1>6

\* hub.send appends to one connection's frames, or does nothing.
LEMMA SendTyped ==
  ASSUME toClient \in [Connection -> Seq(GatewayFrame)],
         NEW c \in Connection, NEW frame \in GatewayFrame, Send(c, frame)
  PROVE  toClient' \in [Connection -> Seq(GatewayFrame)]
<1>1. toClient[c] \in Seq(GatewayFrame)
  OBVIOUS
<1>2. Append(toClient[c], frame) \in Seq(GatewayFrame)
  BY <1>1
<1> QED
  BY <1>2 DEF Send

\* The errors the gateway answers with.
LEMMA ErrorIsAFrame ==
  ASSUME NEW code \in {"AUTHENTICATION_REQUIRED", "NOT_REGISTERED", "VALIDATION",
                       "ACCOUNT_NOT_FOUND", "ACCOUNT_CHALLENGE_INVALID",
                       "ACCOUNT_SIGNATURE_REJECTED", "UNSUPPORTED"}
  PROVE  ErrorFrame(code) \in GatewayFrame
BY DEF ErrorFrame, GatewayFrame

\* Reading takes the first frame, and leaves frames that were there.
LEMMA ReadsTakes ==
  ASSUME Typed, NEW c \in Connection, NEW type, Reads(c, type)
  PROVE  /\ isOpen[c]
         /\ Head(toGateway[c]) \in ClientFrame /\ Head(toGateway[c]).type = type
         /\ 1 \in DOMAIN toGateway[c] /\ Head(toGateway[c]) = toGateway[c][1]
         /\ toGateway' \in [Connection -> Seq(ClientFrame)]
         /\ \A d \in Connection : \A k \in DOMAIN toGateway'[d] :
              \E j \in DOMAIN toGateway[d] : toGateway'[d][k] = toGateway[d][j]
<1> DEFINE q == toGateway[c]
<1>1. toGateway \in [Connection -> Seq(ClientFrame)] /\ q \in Seq(ClientFrame)
  BY DEF Typed, GatewayTypeOK
<1>2. q # <<>> /\ isOpen[c] /\ Head(q).type = type
  BY DEF Reads
<1>3. toGateway' = [toGateway EXCEPT ![c] = Tail(q)]
  BY DEF Reads
<1> HIDE DEF q
<1>4. Head(q) \in ClientFrame /\ 1 \in DOMAIN q /\ Head(q) = q[1]
  BY <1>1, <1>2
<1>5. Tail(q) \in Seq(ClientFrame) /\ \A k \in DOMAIN Tail(q) : k + 1 \in DOMAIN q /\ Tail(q)[k] = q[k + 1]
  BY <1>1, <1>2
<1>6. \A d \in Connection : \A k \in DOMAIN toGateway'[d] :
        \E j \in DOMAIN toGateway[d] : toGateway'[d][k] = toGateway[d][j]
  <2> TAKE d \in Connection
  <2>1. CASE d = c
    <3>1. toGateway'[d] = Tail(q) /\ toGateway[d] = q
      BY <1>1, <1>3, <2>1 DEF q
    <3> QED  BY <3>1, <1>5
  <2>2. CASE d # c
    BY <1>1, <1>3, <2>2
  <2> QED  BY <2>1, <2>2
<1>7. toGateway' \in [Connection -> Seq(ClientFrame)]
  BY <1>1, <1>3, <1>5
<1> QED
  BY <1>2, <1>4, <1>6, <1>7 DEF q

-----------------------------------------------------------------------------
(* Types *)

PendingAnswer ==
  [step : {"register"}, account : Account]
    \cup [step : {"verify"}, account : Account, value : Challenge, signature : Signature]

SessionRecord == [state : {"none", "live", "expired"}, account : Account \cup {None}]

(* What a verification under way carries. *)
LEMMA PendingAnswerFields ==
  ASSUME NEW p \in PendingAnswer
  PROVE  /\ p.account \in Account /\ p.step \in {"register", "verify"}
         /\ p.step = "verify" => p.value \in Challenge /\ p.signature \in Signature
BY DEF PendingAnswer

\* A handler that reads a frame keeps the types when it keeps those of what else it changes.
LEMMA ReadsKeepTypes ==
  ASSUME Typed, NEW c \in Connection, NEW type, Reads(c, type),
         session' \in [Connection -> SessionRecord],
         challenge' \in [Connection -> [value : Challenge, isExpired : BOOLEAN] \cup {None}],
         pending' \in [Connection -> Seq(PendingAnswer)],
         device' \in [Connection -> {None, "worker", "consumer"}],
         toClient' \in [Connection -> Seq(GatewayFrame)],
         issued' \in Seq(Connection), Len(issued') <= MaxChallenges,
         taken' \in Seq([connection : Connection, value : Challenge]),
         refused' \subseteq Connection,
         work' \subseteq [connection : Connection, account : Account \cup {None},
                          provedAs : Account \cup {None}],
         UNCHANGED <<isOpen, accounts, provedAs, client, signatures>>
  PROVE  Typed'
<1>1. toGateway' \in [Connection -> Seq(ClientFrame)]
  BY ReadsTakes
<1>2. GatewayTypeOK'
  BY <1>1 DEF Typed, GatewayTypeOK, PendingAnswer, SessionRecord
<1>3. ClientTyped'
  BY DEF Typed, ClientTyped
<1> QED
  BY <1>2, <1>3 DEF Typed

\* Each handler that reads a frame of a client.
LEMMA GatewayReadsTyped ==
  ASSUME Typed, NEW c \in Connection, GatewayReads(c),
         UNCHANGED <<client, link, signatures, sent>>
  PROVE  Typed'
<1>1. /\ session \in [Connection -> SessionRecord]
      /\ challenge \in [Connection -> [value : Challenge, isExpired : BOOLEAN] \cup {None}]
      /\ pending \in [Connection -> Seq(PendingAnswer)]
      /\ device \in [Connection -> {None, "worker", "consumer"}]
      /\ toClient \in [Connection -> Seq(GatewayFrame)]
      /\ issued \in Seq(Connection) /\ Len(issued) <= MaxChallenges
      /\ taken \in Seq([connection : Connection, value : Challenge])
      /\ refused \subseteq Connection
      /\ work \subseteq [connection : Connection, account : Account \cup {None},
                         provedAs : Account \cup {None}]
      /\ provedAs[c] \in Account \cup {None}
  BY DEF Typed, GatewayTypeOK, PendingAnswer, SessionRecord
<1>2. NoSession \in SessionRecord
  BY DEF NoSession, SessionRecord
<1>3. CASE RefuseOutsideSession(c)
  <2>1. PICK type : Reads(c, type)
    BY <1>3 DEF RefuseOutsideSession
  <2>2. /\ session' = [session EXCEPT ![c] = NoSession]
        /\ Send(c, ErrorFrame("AUTHENTICATION_REQUIRED"))
        /\ refused' = IF device[c] = None THEN refused \cup {c} ELSE refused
        /\ UNCHANGED <<isOpen, challenge, accounts, pending, device, issued, taken, provedAs, work>>
    BY <1>3 DEF RefuseOutsideSession
  <2>3. toClient' \in [Connection -> Seq(GatewayFrame)]
    BY <1>1, <2>2, SendTyped, ErrorIsAFrame
  <2>4. session' \in [Connection -> SessionRecord] /\ refused' \subseteq Connection
    BY <1>1, <1>2, <2>2
  <2> QED
    BY <1>1, <2>1, <2>2, <2>3, <2>4, ReadsKeepTypes
<1>4. CASE DeviceAuthenticate(c)
  <2>1. Reads(c, "deviceAuthenticate")
    BY <1>4 DEF DeviceAuthenticate
  <2>2. [type |-> "deviceAuthenticated"] \in GatewayFrame
    BY DEF GatewayFrame
  <2>3. toClient' \in [Connection -> Seq(GatewayFrame)]
    BY <1>1, <1>4, <2>2, SendTyped, ErrorIsAFrame DEF DeviceAuthenticate
  <2>4. [state |-> "live", account |-> None] \in SessionRecord
    BY DEF SessionRecord
  <2>5. session' \in [Connection -> SessionRecord]
    BY <1>1, <1>2, <1>4, <2>4 DEF DeviceAuthenticate
  <2>6. UNCHANGED <<isOpen, challenge, accounts, pending, device, issued, taken, refused,
                    provedAs, work>>
    BY <1>4 DEF DeviceAuthenticate
  <2> QED
    BY <1>1, <2>1, <2>3, <2>5, <2>6, ReadsKeepTypes
<1>5. CASE PipelinesGet(c)
  <2>1. Reads(c, "pipelines.get")
    BY <1>5 DEF PipelinesGet, ReadsInSession
  <2>2. [type |-> "pipelines"] \in GatewayFrame
    BY DEF GatewayFrame
  <2>3. toClient' \in [Connection -> Seq(GatewayFrame)]
    BY <1>1, <1>5, <2>2, SendTyped DEF PipelinesGet
  <2>4. UNCHANGED <<isOpen, session, challenge, accounts, pending, device, issued, taken,
                    refused, provedAs, work>>
    BY <1>5 DEF PipelinesGet
  <2> QED
    BY <1>1, <2>1, <2>3, <2>4, ReadsKeepTypes
<1>6. CASE DeviceRegister(c)
  <2>1. Reads(c, "deviceRegister")
    BY <1>6 DEF DeviceRegister, ReadsInSession
  <2>2. [type |-> "deviceRegistered"] \in GatewayFrame
    BY DEF GatewayFrame
  <2>3. toClient' \in [Connection -> Seq(GatewayFrame)]
    BY <1>1, <1>6, <2>2, SendTyped, ErrorIsAFrame DEF DeviceRegister
  <2>4. Head(toGateway[c]).role \in {"worker", "consumer"}
    BY <2>1, ReadsTakes, FrameFields
  <2>5. device' \in [Connection -> {None, "worker", "consumer"}]
    BY <1>1, <1>6, <2>4 DEF DeviceRegister
  <2>6. UNCHANGED <<isOpen, session, challenge, accounts, pending, issued, taken, refused,
                    provedAs, work>>
    BY <1>6 DEF DeviceRegister
  <2> QED
    BY <1>1, <2>1, <2>3, <2>5, <2>6, ReadsKeepTypes
<1>7. CASE Work(c)
  <2>1. Reads(c, "work")
    BY <1>7 DEF Work, ReadsInSession
  <2>2. toClient' \in [Connection -> Seq(GatewayFrame)]
    BY <1>1, <1>7, SendTyped, ErrorIsAFrame DEF Work
  <2>3. session[c].account \in Account \cup {None}
    BY <1>1 DEF SessionRecord
  <2>4. work' \subseteq [connection : Connection, account : Account \cup {None},
                         provedAs : Account \cup {None}]
    BY <1>1, <1>7, <2>3 DEF Work
  <2>5. UNCHANGED <<isOpen, session, challenge, accounts, pending, device, issued, taken,
                    refused, provedAs>>
    BY <1>7 DEF Work
  <2> QED
    BY <1>1, <2>1, <2>2, <2>4, <2>5, ReadsKeepTypes
<1>8. CASE AccountRegister(c)
  <2>1. Reads(c, "account.register")
    BY <1>8 DEF AccountRegister, ReadsInSession
  <2>2. Head(toGateway[c]).account \in Account
    BY <2>1, ReadsTakes, FrameFields
  <2>3. [step |-> "register", account |-> Head(toGateway[c]).account] \in PendingAnswer
    BY <2>2 DEF PendingAnswer
  <2>4. pending[c] \in Seq(PendingAnswer)
    BY <1>1
  <2>5. pending' \in [Connection -> Seq(PendingAnswer)]
    BY <1>1, <1>8, <2>3, <2>4 DEF AccountRegister
  <2>6. UNCHANGED <<isOpen, session, challenge, accounts, device, toClient, issued, taken,
                    refused, provedAs, work>>
    BY <1>8 DEF AccountRegister
  <2> QED
    BY <1>1, <2>1, <2>5, <2>6, ReadsKeepTypes
<1>9. CASE ChallengeRequest(c)
  <2>1. Reads(c, "account.challenge.request") /\ Len(issued) < MaxChallenges
    BY <1>9 DEF ChallengeRequest, ReadsInSession
  <2>2. Len(issued) + 1 \in Challenge
    BY <1>1, <2>1, GatewayAccountsAssumption DEF Challenge
  <2>3. [type |-> "account.challenge", value |-> Len(issued) + 1] \in GatewayFrame
    BY <2>2 DEF GatewayFrame
  <2>4. toClient' \in [Connection -> Seq(GatewayFrame)]
    BY <1>1, <1>9, <2>3, SendTyped DEF ChallengeRequest
  <2>5. challenge' \in [Connection -> [value : Challenge, isExpired : BOOLEAN] \cup {None}]
    BY <1>1, <1>9, <2>2 DEF ChallengeRequest
  <2>6. issued' \in Seq(Connection) /\ Len(issued') <= MaxChallenges
    BY <1>1, <1>9, <2>1, GatewayAccountsAssumption DEF ChallengeRequest
  <2>7. UNCHANGED <<isOpen, session, accounts, pending, device, taken, refused, provedAs, work>>
    BY <1>9 DEF ChallengeRequest
  <2> QED
    BY <1>1, <2>1, <2>4, <2>5, <2>6, <2>7, ReadsKeepTypes
<1>10. CASE AccountAuthenticate(c)
  <2> DEFINE frame == Head(toGateway[c])
  <2>1. Reads(c, "account.authenticate")
    BY <1>10 DEF AccountAuthenticate, ReadsInSession
  <2>2. frame.account \in Account /\ frame.signature \in Signature
    BY <2>1, ReadsTakes, FrameFields
  <2>3. toClient' \in [Connection -> Seq(GatewayFrame)]
    BY <1>1, <1>10, SendTyped, ErrorIsAFrame DEF AccountAuthenticate
  <2>4. challenge' \in [Connection -> [value : Challenge, isExpired : BOOLEAN] \cup {None}]
    BY <1>1, <1>10 DEF AccountAuthenticate
  <2>5. challenge[c] # None => challenge[c].value \in Challenge
    BY <1>1
  <2>6. pending[c] \in Seq(PendingAnswer)
    BY <1>1
  <2>7. challenge[c] # None =>
          [step |-> "verify", account |-> frame.account, value |-> challenge[c].value,
           signature |-> frame.signature] \in PendingAnswer
    BY <2>2, <2>5 DEF PendingAnswer
  <2> DEFINE answer == [step |-> "verify", account |-> frame.account,
                        value |-> challenge[c].value, signature |-> frame.signature]
             mark   == [connection |-> c, value |-> challenge[c].value]
  <2>11. \/ pending' = pending /\ taken' = taken
         \/ /\ challenge[c] # None
            /\ pending' = [pending EXCEPT ![c] = Append(pending[c], answer)]
            /\ taken' = Append(taken, mark)
    BY <1>10 DEF AccountAuthenticate
  <2>12. challenge[c] # None => mark \in [connection : Connection, value : Challenge]
    BY <2>5
  <2>13. challenge[c] # None => answer \in PendingAnswer
    BY <2>7
  <2> DEFINE Marks == [connection : Connection, value : Challenge]
  <2>14. pending \in [Connection -> Seq(PendingAnswer)] /\ taken \in Seq(Marks)
    BY <1>1
  <2> HIDE DEF frame, answer, mark, Marks
  <2>8. pending' \in [Connection -> Seq(PendingAnswer)]
    <3>1. challenge[c] # None => Append(pending[c], answer) \in Seq(PendingAnswer)
      BY <2>6, <2>13
    <3> QED  BY <2>11, <2>14, <3>1
  <2>15. taken' \in Seq(Marks)
    <3>1. challenge[c] # None => mark \in Marks
      BY <2>12 DEF Marks
    <3>2. challenge[c] # None => Append(taken, mark) \in Seq(Marks)
      BY <2>14, <3>1, AppendProperties
    <3> QED  BY <2>11, <2>14, <3>2
  <2>9. taken' \in Seq([connection : Connection, value : Challenge])
    BY <2>15 DEF Marks
  <2>10. UNCHANGED <<isOpen, session, accounts, device, issued, refused, provedAs, work>>
    BY <1>10 DEF AccountAuthenticate
  <2> QED
    BY <1>1, <2>1, <2>3, <2>4, <2>8, <2>9, <2>10, ReadsKeepTypes
<1> QED
  BY <1>3, <1>4, <1>5, <1>6, <1>7, <1>8, <1>9, <1>10 DEF GatewayReads

\* Each answer the Web Cryptography API gives, late as it may be.
LEMMA GatewayAnswersTyped ==
  ASSUME Typed, NEW c \in Connection, GatewayAnswers(c),
         UNCHANGED <<client, link, signatures, sent>>
  PROVE  Typed'
<1>1. PICK i \in DOMAIN pending[c] :
        RegisterAccount(c, i) \/ VerifySignature(c, i) \/ VerificationThrows(c, i)
  BY DEF GatewayAnswers
<1>2. /\ session \in [Connection -> SessionRecord]
      /\ pending \in [Connection -> Seq(PendingAnswer)]
      /\ toClient \in [Connection -> Seq(GatewayFrame)]
      /\ accounts \subseteq Account /\ refused \subseteq Connection
      /\ provedAs \in [Connection -> Account \cup {None}]
  BY DEF Typed, GatewayTypeOK, PendingAnswer, SessionRecord
<1>3. pending[c] \in Seq(PendingAnswer) /\ pending[c][i] \in PendingAnswer
  BY <1>2
<1>4. pending[c][i].account \in Account
  BY <1>3, PendingAnswerFields
<1>5. pending' = [pending EXCEPT ![c] = RemoveAt(pending[c], i)]
  BY <1>1 DEF RegisterAccount, VerifySignature, VerificationThrows
<1>6. pending' \in [Connection -> Seq(PendingAnswer)]
  <2>1. RemoveAt(pending[c], i) \in Seq(PendingAnswer)
    BY <1>3, RemoveAtIsPart
  <2> QED  BY <1>2, <1>5, <2>1
<1>7. /\ UNCHANGED <<isOpen, challenge, device, toGateway, issued, taken, work>>
      /\ session' \in [Connection -> SessionRecord] /\ accounts' \subseteq Account
      /\ refused' \subseteq Connection /\ provedAs' \in [Connection -> Account \cup {None}]
      /\ toClient' \in [Connection -> Seq(GatewayFrame)]
  <2>1. CASE RegisterAccount(c, i)
    <3>1. [type |-> "account.registered"] \in GatewayFrame
      BY DEF GatewayFrame
    <3>2. toClient' \in [Connection -> Seq(GatewayFrame)]
      BY <1>2, <2>1, <3>1, SendTyped, ErrorIsAFrame DEF RegisterAccount
    <3> QED  BY <1>2, <1>4, <2>1, <3>2 DEF RegisterAccount
  <2>2. CASE VerifySignature(c, i)
    <3>1. [type |-> "account.authenticated", account |-> pending[c][i].account] \in GatewayFrame
      BY <1>4 DEF GatewayFrame
    <3>2. toClient' \in [Connection -> Seq(GatewayFrame)]
      BY <1>2, <2>2, <3>1, SendTyped, ErrorIsAFrame DEF VerifySignature
    <3>3. session[c] \in SessionRecord /\ NoSession \in SessionRecord
      BY <1>2 DEF SessionRecord, NoSession
    <3>4. [session[c] EXCEPT !.account = pending[c][i].account] \in SessionRecord
      BY <1>4, <3>3 DEF SessionRecord
    <3>5. \/ session' = session
          \/ session' = [session EXCEPT ![c] = NoSession]
          \/ session' = [session EXCEPT ![c] = [session[c] EXCEPT !.account = pending[c][i].account]]
      BY <2>2 DEF VerifySignature
    <3>6. session' \in [Connection -> SessionRecord]
      BY <1>2, <3>3, <3>4, <3>5
    <3>7. /\ UNCHANGED <<isOpen, challenge, accounts, device, toGateway, issued, taken, work>>
          /\ refused' = refused \/ refused' = refused \cup {c}
          /\ provedAs' = provedAs \/ provedAs' = [provedAs EXCEPT ![c] = pending[c][i].account]
      BY <2>2 DEF VerifySignature
    <3>8. refused' \subseteq Connection /\ provedAs' \in [Connection -> Account \cup {None}]
      BY <1>2, <1>4, <3>7
    <3> QED  BY <1>2, <3>2, <3>6, <3>7, <3>8
  <2>3. CASE VerificationThrows(c, i)
    <3>1. toClient' \in [Connection -> Seq(GatewayFrame)]
      BY <1>2, <2>3, SendTyped, ErrorIsAFrame DEF VerificationThrows
    <3> QED  BY <1>2, <2>3, <3>1 DEF VerificationThrows
  <2> QED
    BY <1>1, <2>1, <2>2, <2>3
<1>8. GatewayTypeOK'
  BY <1>6, <1>7 DEF Typed, GatewayTypeOK, PendingAnswer, SessionRecord
<1>9. ClientTyped'
  BY DEF Typed, ClientTyped
<1> QED
  BY <1>8, <1>9 DEF Typed

\* Time passing, and the close of a connection.
LEMMA GatewayTimeTyped ==
  ASSUME Typed, NEW c \in Connection,
         SessionLapses(c) \/ ChallengeLapses(c) \/ CloseConnection(c),
         UNCHANGED <<client, link, signatures, sent>>
  PROVE  Typed'
<1>1. /\ isOpen \in [Connection -> BOOLEAN]
      /\ session \in [Connection -> SessionRecord]
      /\ challenge \in [Connection -> [value : Challenge, isExpired : BOOLEAN] \cup {None}]
      /\ device \in [Connection -> {None, "worker", "consumer"}]
      /\ toGateway \in [Connection -> Seq(ClientFrame)]
  BY DEF Typed, GatewayTypeOK, SessionRecord
<1>2. /\ UNCHANGED <<accounts, pending, toClient, issued, taken, refused, provedAs, work>>
      /\ isOpen' \in [Connection -> BOOLEAN]
      /\ session' \in [Connection -> SessionRecord]
      /\ challenge' \in [Connection -> [value : Challenge, isExpired : BOOLEAN] \cup {None}]
      /\ device' \in [Connection -> {None, "worker", "consumer"}]
      /\ toGateway' \in [Connection -> Seq(ClientFrame)]
  <2>1. CASE SessionLapses(c)
    <3>1. session[c] \in SessionRecord
      BY <1>1
    <3>2. [session[c] EXCEPT !.state = "expired"] \in SessionRecord
      BY <3>1 DEF SessionRecord
    <3>3. session' \in [Connection -> SessionRecord]
      BY <1>1, <2>1, <3>2 DEF SessionLapses
    <3> QED  BY <1>1, <2>1, <3>3 DEF SessionLapses
  <2>2. CASE ChallengeLapses(c)
    <3>1. challenge[c] \in [value : Challenge, isExpired : BOOLEAN]
      BY <1>1, <2>2 DEF ChallengeLapses
    <3>2. [challenge[c] EXCEPT !.isExpired = TRUE] \in [value : Challenge, isExpired : BOOLEAN]
      BY <3>1
    <3>3. challenge' = [challenge EXCEPT ![c] = [challenge[c] EXCEPT !.isExpired = TRUE]]
      BY <2>2 DEF ChallengeLapses
    <3>4. challenge' \in [Connection -> [value : Challenge, isExpired : BOOLEAN] \cup {None}]
      BY <1>1, <3>2, <3>3
    <3> QED  BY <1>1, <2>2, <3>4 DEF ChallengeLapses
  <2>3. CASE CloseConnection(c)
    <3>1. NoSession \in SessionRecord /\ <<>> \in Seq(ClientFrame)
      BY DEF SessionRecord, NoSession
    <3>2. UNCHANGED <<accounts, pending, toClient, issued, taken, refused, provedAs, work>>
      BY <2>3 DEF CloseConnection
    <3>3. /\ isOpen' = [isOpen EXCEPT ![c] = FALSE]
          /\ session' = [session EXCEPT ![c] = NoSession]
          /\ challenge' = [challenge EXCEPT ![c] = None]
          /\ device' = [device EXCEPT ![c] = None]
          /\ toGateway' = [toGateway EXCEPT ![c] = <<>>]
      BY <2>3 DEF CloseConnection
    <3>4. /\ isOpen' \in [Connection -> BOOLEAN]
          /\ device' \in [Connection -> {None, "worker", "consumer"}]
          /\ challenge' \in [Connection -> [value : Challenge, isExpired : BOOLEAN] \cup {None}]
      BY <1>1, <3>3
    <3>5. session' \in [Connection -> SessionRecord] /\ toGateway' \in [Connection -> Seq(ClientFrame)]
      BY <1>1, <3>1, <3>3
    <3> QED  BY <3>2, <3>4, <3>5
  <2> QED
    BY <2>1, <2>2, <2>3
<1>3. GatewayTypeOK'
  BY <1>2 DEF Typed, GatewayTypeOK, SessionRecord
<1>4. ClientTyped'
  BY DEF Typed, ClientTyped
<1> QED
  BY <1>3, <1>4 DEF Typed

-----------------------------------------------------------------------------
(* What a client can do to the gateway: send frames, and sign *)

GatewaySide == <<isOpen, session, challenge, accounts, pending, device, issued, taken, refused,
                 provedAs, work>>

\* Frames that carry no signature that has not been made.
Honest(frames, made) ==
  \A k \in DOMAIN frames : frames[k].type = "account.authenticate" =>
    frames[k].signature \in made \cup {NoSignature}

ClientEffect ==
  /\ UNCHANGED GatewaySide
  /\ Typed'
  /\ signatures \subseteq signatures'
  /\ \A d \in Connection : \A k \in DOMAIN toGateway'[d] :
       \/ \E j \in DOMAIN toGateway[d] : toGateway'[d][k] = toGateway[d][j]
       \/ IsSigned(toGateway[d][k])'

\* What is sent is behind what was sent before.
LEMMA ClientSendsAppends ==
  ASSUME Typed, NEW c \in Connection, NEW frames \in Seq(ClientFrame), ClientSends(c, frames),
         Honest(frames, signatures')
  PROVE  /\ toGateway' \in [Connection -> Seq(ClientFrame)]
         /\ \A d \in Connection : \A k \in DOMAIN toGateway'[d] :
              \/ \E j \in DOMAIN toGateway[d] : toGateway'[d][k] = toGateway[d][j]
              \/ IsSigned(toGateway[d][k])'
<1> DEFINE q == toGateway[c]
<1>1. toGateway \in [Connection -> Seq(ClientFrame)] /\ q \in Seq(ClientFrame)
  BY DEF Typed, GatewayTypeOK
<1>2. toGateway' = toGateway \/ toGateway' = [toGateway EXCEPT ![c] = q \o frames]
  BY DEF ClientSends
<1> HIDE DEF q
<1>3. q \o frames \in Seq(ClientFrame)
  BY <1>1
<1>4. \A k \in DOMAIN (q \o frames) :
        \/ \E j \in DOMAIN q : (q \o frames)[k] = q[j]
        \/ \E j \in DOMAIN frames : (q \o frames)[k] = frames[j]
  <2> TAKE k \in DOMAIN (q \o frames)
  <2>1. /\ k \in 1..(Len(q) + Len(frames)) /\ Len(q) \in Nat /\ Len(frames) \in Nat
        /\ DOMAIN q = 1..Len(q) /\ DOMAIN frames = 1..Len(frames)
        /\ (q \o frames)[k] = IF k <= Len(q) THEN q[k] ELSE frames[k - Len(q)]
    BY <1>1, ConcatProperties
  <2>2. CASE k <= Len(q)
    BY <2>1, <2>2
  <2>3. CASE ~(k <= Len(q))
    <3>1. k - Len(q) \in DOMAIN frames
      BY <2>1, <2>3
    <3> QED  BY <2>1, <2>3, <3>1
  <2> QED  BY <2>2, <2>3
<1>5. ASSUME NEW d \in Connection, NEW k \in DOMAIN toGateway'[d]
      PROVE  \/ \E j \in DOMAIN toGateway[d] : toGateway'[d][k] = toGateway[d][j]
             \/ IsSigned(toGateway[d][k])'
  <2>1. CASE toGateway'[d] = toGateway[d]
    BY <1>5, <2>1
  <2>2. CASE toGateway'[d] # toGateway[d]
    <3>1. d = c /\ toGateway'[d] = q \o frames /\ toGateway[d] = q
      BY <1>1, <1>2, <2>2 DEF q
    <3>2. CASE \E j \in DOMAIN q : (q \o frames)[k] = q[j]
      BY <3>1, <3>2
    <3>3. CASE \E j \in DOMAIN frames : (q \o frames)[k] = frames[j]
      BY <3>1, <3>3 DEF Honest, IsSigned
    <3> QED  BY <1>4, <1>5, <3>1, <3>2, <3>3
  <2> QED  BY <2>1, <2>2
<1> QED
  BY <1>1, <1>2, <1>3, <1>5

\* The frames a client makes up by itself carry no signature.
Plain(frames) == \A k \in DOMAIN frames : frames[k].type # "account.authenticate"

(* Frames without a signature keep every promise about signatures. *)
LEMMA PlainIsHonest ==
  ASSUME NEW frames, NEW made, Plain(frames)
  PROVE  Honest(frames, made)
BY DEF Plain, Honest

(* One frame that is not an account.authenticate is such a sequence. *)
LEMMA OneFrameIsPlain ==
  ASSUME NEW frame \in ClientFrame, frame.type # "account.authenticate"
  PROVE  <<frame>> \in Seq(ClientFrame) /\ Plain(<<frame>>)
BY DEF Plain

\* settle and onSettled send what registers the client, or nothing.
LEMMA SettleReaction ==
  ASSUME Typed, NEW c \in Connection, RunsConversation(c)
  PROVE  /\ OnSettled(c) \in Seq(ClientFrame) /\ Plain(OnSettled(c))
         /\ Settle(c).client \in ClientRecord
         /\ Settle(c).frames \in Seq(ClientFrame) /\ Plain(Settle(c).frames)
<1>1. client[c] \in ClientRecord
  BY DEF Typed, ClientTyped
<1>2. client[c].role \in {"worker", "consumer"}
  BY DEF RunsConversation
<1>3. Registration(c) \in ClientFrame /\ Registration(c).type = "deviceRegister"
  BY <1>2 DEF Registration, ClientFrame
<1>4. Type("pipelines.get") \in ClientFrame /\ Type("pipelines.get").type = "pipelines.get"
  BY DEF Type, ClientFrame
<1>5. OnSettled(c) \in {<<>>, <<Type("pipelines.get")>>, <<Registration(c)>>}
  BY DEF OnSettled
<1> DEFINE frames == OnSettled(c)
<1>6. frames \in Seq(ClientFrame) /\ Plain(frames)
  <2> HIDE DEF frames
  <2>1. frames \in {<<>>, <<Type("pipelines.get")>>, <<Registration(c)>>}
    BY <1>5 DEF frames
  <2>2. <<>> \in Seq(ClientFrame) /\ Plain(<<>>)
    BY DEF Plain
  <2> QED  BY <1>3, <1>4, <2>1, <2>2, OneFrameIsPlain
<1>7. [client[c] EXCEPT !.conversation = "settled"] \in ClientRecord
  BY <1>1 DEF ClientRecord
<1>8. <<>> \in Seq(ClientFrame) /\ Plain(<<>>)
  BY DEF Plain
<1>9. Settle(c) \in {Nothing(c), [client |-> [client[c] EXCEPT !.conversation = "settled"],
                                  frames |-> frames]}
  BY DEF Settle
<1> HIDE DEF frames
<1>10. /\ Settle(c).client \in ClientRecord
       /\ Settle(c).frames \in Seq(ClientFrame) /\ Plain(Settle(c).frames)
  <2>1. CASE Settle(c) = Nothing(c)
    BY <1>1, <1>8, <2>1 DEF Nothing
  <2>2. CASE Settle(c) = [client |-> [client[c] EXCEPT !.conversation = "settled"],
                          frames |-> frames]
    BY <1>6, <1>7, <2>2
  <2> QED  BY <1>9, <2>1, <2>2
<1> QED
  BY <1>6, <1>10 DEF frames

\* What a frame of the gateway makes a client do.
LEMMA ReactionIsPlain ==
  ASSUME Typed, NEW c \in Connection, RunsConversation(c), NEW frame \in GatewayFrame
  PROVE  /\ Reaction(c, frame).client \in ClientRecord
         /\ Reaction(c, frame).frames \in Seq(ClientFrame) /\ Plain(Reaction(c, frame).frames)
<1> DEFINE Ok(r) == r.client \in ClientRecord /\ r.frames \in Seq(ClientFrame) /\ Plain(r.frames)
<1>1. client[c] \in ClientRecord
  BY DEF Typed, ClientTyped
<1>2. <<>> \in Seq(ClientFrame) /\ Plain(<<>>)
  BY DEF Plain
<1>3. Ok(Nothing(c)) /\ Ok(Settle(c))
  BY <1>1, <1>2, SettleReaction DEF Nothing
<1>4. Ok(OnDeviceAuthenticated(c))
  <2> DEFINE register == [type |-> "account.register", account |-> AccountOf[c]]
             renewing == [client[c] EXCEPT !.isRenewing = TRUE]
             opening  == [renewing EXCEPT !.conversation = "open"]
  <2>1. register \in ClientFrame /\ register.type = "account.register"
    BY GatewayAccountsAssumption DEF ClientFrame
  <2>2. renewing \in ClientRecord /\ opening \in ClientRecord
    BY <1>1 DEF ClientRecord
  <2>3. OnDeviceAuthenticated(c) \in {[client |-> renewing, frames |-> <<>>],
                                      [client |-> opening, frames |-> <<register>>],
                                      [client |-> renewing, frames |-> OnSettled(c)]}
    BY DEF OnDeviceAuthenticated
  <2> HIDE DEF register, renewing, opening
  <2>4. <<register>> \in Seq(ClientFrame) /\ Plain(<<register>>)
    BY <2>1, OneFrameIsPlain
  <2>5. Ok([client |-> renewing, frames |-> <<>>])
    BY <1>2, <2>2
  <2>6. Ok([client |-> opening, frames |-> <<register>>])
    BY <2>2, <2>4
  <2>7. Ok([client |-> renewing, frames |-> OnSettled(c)])
    BY <2>2, SettleReaction
  <2> HIDE DEF Ok
  <2>8. Ok(OnDeviceAuthenticated(c))
    BY <2>3, <2>5, <2>6, <2>7
  <2> QED
    BY <2>8 DEF Ok
<1>5. Ok([client |-> [client[c] EXCEPT !.isRegistered = TRUE], frames |-> <<>>])
  <2>1. [client[c] EXCEPT !.isRegistered = TRUE] \in ClientRecord
    BY <1>1 DEF ClientRecord
  <2> QED  BY <1>2, <2>1
<1>6. Ok([client |-> [client[c] EXCEPT !.checks = @ + 1], frames |-> <<>>])
  <2>1. [client[c] EXCEPT !.checks = @ + 1] \in ClientRecord
    BY <1>1 DEF ClientRecord, RunsConversation
  <2> QED  BY <1>2, <2>1
<1>7. frame.type = "account.challenge" =>
        Ok([client |-> [client[c] EXCEPT !.signing = @ \cup {frame.value}], frames |-> <<>>])
  <2> SUFFICES ASSUME frame.type = "account.challenge"
               PROVE  Ok([client |-> [client[c] EXCEPT !.signing = @ \cup {frame.value}],
                          frames |-> <<>>])
    OBVIOUS
  <2>1. frame.value \in Challenge
    BY GatewayFrameFields
  <2>2. [client[c] EXCEPT !.signing = @ \cup {frame.value}] \in ClientRecord
    BY <1>1, <2>1 DEF ClientRecord
  <2> QED  BY <1>2, <2>2
<1>8. Ok([client |-> client[c], frames |-> <<Type("account.challenge.request")>>])
  <2>1. Type("account.challenge.request") \in ClientFrame
    BY DEF Type, ClientFrame
  <2>2. Type("account.challenge.request").type = "account.challenge.request"
    BY DEF Type
  <2>3. <<Type("account.challenge.request")>> \in Seq(ClientFrame)
        /\ Plain(<<Type("account.challenge.request")>>)
    BY <2>1, <2>2, OneFrameIsPlain
  <2> QED  BY <1>1, <2>3
<1>9. Ok(OnError(c, frame.code))
  BY <1>3 DEF OnError
<1>10. frame.type \in {"deviceAuthenticated", "account.registered", "pipelines",
                       "deviceRegistered", "account.challenge", "account.authenticated", "error"}
  BY DEF GatewayFrame
<1>11. \/ Reaction(c, frame) = OnDeviceAuthenticated(c)
       \/ Reaction(c, frame) = [client |-> [client[c] EXCEPT !.isRegistered = TRUE], frames |-> <<>>]
       \/ Reaction(c, frame) = [client |-> [client[c] EXCEPT !.checks = @ + 1], frames |-> <<>>]
       \/ Reaction(c, frame) = Nothing(c)
       \/ Reaction(c, frame) = InConversation(c, frame)
          /\ frame.type \in {"account.registered", "account.challenge", "account.authenticated", "error"}
  BY <1>10 DEF Reaction
<1>12. CASE frame.type \in {"account.registered", "account.challenge", "account.authenticated", "error"}
            /\ Reaction(c, frame) = InConversation(c, frame)
  <2>1. \/ InConversation(c, frame) =
             [client |-> client[c], frames |-> <<Type("account.challenge.request")>>]
        \/ /\ frame.type = "account.challenge"
           /\ InConversation(c, frame) =
             [client |-> [client[c] EXCEPT !.signing = @ \cup {frame.value}], frames |-> <<>>]
        \/ InConversation(c, frame) = Settle(c)
        \/ InConversation(c, frame) = OnError(c, frame.code)
    BY <1>12 DEF InConversation
  <2> HIDE DEF Ok
  <2>2. Ok(InConversation(c, frame))
    BY <1>3, <1>7, <1>8, <1>9, <2>1
  <2>3. Ok(Reaction(c, frame))
    BY <1>12, <2>2
  <2> QED  BY <2>3 DEF Ok
<1>13. Ok(Reaction(c, frame))
  <2> HIDE DEF Ok
  <2>1. CASE Reaction(c, frame) = InConversation(c, frame) /\ 
             frame.type \in {"account.registered", "account.challenge", "account.authenticated", "error"}
    BY <1>12, <2>1 DEF Ok
  <2> QED
    BY <1>3, <1>4, <1>5, <1>6, <1>11, <2>1
<1> QED
  BY <1>13

\* A client's step is what it sends, if anything, and what becomes of it.
LEMMA ClientEffectOf ==
  ASSUME Typed, NEW c \in Connection, UNCHANGED GatewaySide,
         \/ \E frames \in Seq(ClientFrame) : ClientSends(c, frames) /\ Honest(frames, signatures')
         \/ UNCHANGED toGateway,
         toClient' \in [Connection -> Seq(GatewayFrame)],
         client' \in [Connection -> ClientRecord],
         signatures \subseteq signatures',
         signatures' \subseteq [key : Account, value : Challenge]
  PROVE  ClientEffect
<1>1. /\ toGateway' \in [Connection -> Seq(ClientFrame)]
      /\ \A d \in Connection : \A k \in DOMAIN toGateway'[d] :
           \/ \E j \in DOMAIN toGateway[d] : toGateway'[d][k] = toGateway[d][j]
           \/ IsSigned(toGateway[d][k])'
  <2>1. CASE UNCHANGED toGateway
    BY <2>1 DEF Typed, GatewayTypeOK
  <2>2. CASE \E frames \in Seq(ClientFrame) : ClientSends(c, frames) /\ Honest(frames, signatures')
    BY <2>2, ClientSendsAppends
  <2> QED  BY <2>1, <2>2
<1>2. GatewayTypeOK'
  BY <1>1 DEF Typed, GatewayTypeOK, GatewaySide
<1>3. ClientTyped'
  BY DEF ClientTyped, ClientRecord
<1> QED
  BY <1>1, <1>2, <1>3 DEF ClientEffect, Typed

\* A client's signature over a challenge is one.
LEMMA SignedByIsASignature ==
  ASSUME NEW c \in Connection, NEW v \in Challenge
  PROVE  SignedBy(c, v) \in [key : Account, value : Challenge] /\ SignedBy(c, v) \in Signature
<1>1. SignedBy(c, v) \in [key : Account, value : Challenge]
  BY GatewayAccountsAssumption DEF SignedBy
<1> QED
  BY <1>1 DEF Signature

\* What a client of role "other" makes up: any frame, with a signature that it makes with
\* its own key or has from another client, if it is one.
LEMMA OtherFramesTyped ==
  ASSUME NEW c \in Connection, Typed, NEW frame \in OtherFrames(c)
  PROVE  /\ frame \in ClientFrame
         /\ frame.type = "account.authenticate" =>
              \/ frame.signature = NoSignature \/ frame.signature \in signatures
              \/ \E v \in DOMAIN issued : frame.signature = SignedBy(c, v)
         /\ frame.type = "account.authenticate" /\ frame.signature # NoSignature =>
              frame.signature \in [key : Account, value : Challenge]
<1>1. AccountOf[c] \in Account /\ DOMAIN issued \subseteq Challenge
  BY GatewayAccountsAssumption DEF Typed, GatewayTypeOK, Challenge
<1>2. signatures \subseteq [key : Account, value : Challenge]
  BY DEF Typed, ClientTyped
<1>3. \A v \in DOMAIN issued : SignedBy(c, v) \in [key : Account, value : Challenge]
  BY <1>1 DEF SignedBy
<1>4. OtherSignatures(c) \subseteq Signature
  BY <1>2, <1>3 DEF OtherSignatures, Signature
<1>5. CASE frame \in [type : {"account.authenticate"}, account : Account, signature : OtherSignatures(c)]
  <2>1. frame.signature \in OtherSignatures(c)
    BY <1>5
  <2>2. frame \in [type : {"account.authenticate"}, account : Account, signature : Signature]
    BY <1>4, <1>5
  <2>3. \/ frame.signature = NoSignature \/ frame.signature \in signatures
        \/ \E v \in DOMAIN issued : frame.signature = SignedBy(c, v)
    BY <2>1 DEF OtherSignatures
  <2> QED
    BY <1>2, <1>3, <2>2, <2>3 DEF ClientFrame
<1>6. CASE frame \notin [type : {"account.authenticate"}, account : Account, signature : OtherSignatures(c)]
  <2> DEFINE Tokens == [type : {"deviceAuthenticate"}, isRightToken : BOOLEAN]
             Roles  == [type : {"deviceRegister"}, role : {"worker", "consumer"}, areStagesDefined : BOOLEAN]
             Bare   == [type : {"account.challenge.request", "pipelines.get", "work"}]
             Keys   == [type : {"account.register"}, account : Account]
  <2>1. frame \in Tokens \cup Roles \cup Bare \cup Keys
    <3>1. Authenticate \in Tokens
      BY DEF Authenticate
    <3>2. [Authenticate EXCEPT !.isRightToken = FALSE] \in Tokens
      BY <3>1
    <3>3. Type("account.challenge.request") \in Bare /\ Type("work") \in Bare
      BY DEF Type
    <3>4. /\ [type |-> "deviceRegister", role |-> "worker", areStagesDefined |-> FALSE] \in Roles
          /\ [type |-> "deviceRegister", role |-> "consumer", areStagesDefined |-> TRUE] \in Roles
      OBVIOUS
    <3> HIDE DEF Tokens, Roles, Bare
    <3> QED
      BY <1>6, <3>1, <3>2, <3>3, <3>4 DEF OtherFrames
  <2> QED
    BY <2>1 DEF ClientFrame
<1> QED
  BY <1>5, <1>6

(* What any step of the client does to the wires, its signatures and the gateway's state. *)
LEMMA ClientStepEffect ==
  ASSUME Typed, NEW c \in Connection, ClientStep(c)
  PROVE  ClientEffect
<1>1. /\ client \in [Connection -> ClientRecord] /\ client[c] \in ClientRecord
      /\ toClient \in [Connection -> Seq(GatewayFrame)] /\ toClient[c] \in Seq(GatewayFrame)
      /\ signatures \subseteq [key : Account, value : Challenge]
      /\ client[c].signing \subseteq Challenge
  BY DEF Typed, ClientTyped, ClientRecord, GatewayTypeOK
<1>2. toClient[c] # <<>> =>
        /\ Head(toClient[c]) \in GatewayFrame
        /\ [toClient EXCEPT ![c] = Tail(@)] \in [Connection -> Seq(GatewayFrame)]
  <2>1. toClient[c] # <<>> => Head(toClient[c]) \in GatewayFrame /\ Tail(toClient[c]) \in Seq(GatewayFrame)
    BY <1>1
  <2> QED  BY <1>1, <2>1
<1>3. AccountOf[c] \in Account
  BY GatewayAccountsAssumption
<1>4. OnlyClient => UNCHANGED GatewaySide /\ UNCHANGED signatures
  BY DEF OnlyClient, GatewaySide
<1>5. Authenticate \in ClientFrame /\ Authenticate.type = "deviceAuthenticate"
  BY DEF Authenticate, ClientFrame
<1>6. CASE ReceiveFrame(c)
  <2> DEFINE r == Reaction(c, Head(toClient[c]))
  <2>1. RunsConversation(c) /\ toClient[c] # <<>> /\ OnlyClient /\ ClientSends(c, r.frames)
        /\ client' = [client EXCEPT ![c] = r.client] /\ toClient' = [toClient EXCEPT ![c] = Tail(@)]
    BY <1>6 DEF ReceiveFrame
  <2>2. r.client \in ClientRecord /\ r.frames \in Seq(ClientFrame) /\ Plain(r.frames)
    BY <1>2, <2>1, ReactionIsPlain
  <2> HIDE DEF r
  <2>3. client' \in [Connection -> ClientRecord]
    BY <1>1, <2>1, <2>2
  <2>4. toClient' \in [Connection -> Seq(GatewayFrame)]
    BY <1>2, <2>1
  <2> QED
    BY <1>1, <1>4, <2>1, <2>2, <2>3, <2>4, PlainIsHonest, ClientEffectOf
<1>7. CASE OfferStages(c)
  <2>1. UNCHANGED GatewaySide /\ UNCHANGED <<toClient, signatures>>
    BY <1>7 DEF OfferStages, GatewaySide
  <2>2. client' = [client EXCEPT ![c].checks = @ - 1]
        /\ (ClientSends(c, <<Registration(c)>>) \/ UNCHANGED toGateway)
    BY <1>7 DEF OfferStages
  <2>5. client[c].role \in {"worker", "consumer"}
    BY <1>1, <1>7 DEF OfferStages, ClientRecord
  <2>9. client[c].checks - 1 \in Nat
    BY <1>1, <1>7 DEF ClientRecord, OfferStages
  <2>3. [client[c] EXCEPT !.checks = @ - 1] \in ClientRecord
    <3> DEFINE n == client[c].checks - 1
    <3> HIDE DEF n
    <3>1. [client[c] EXCEPT !.checks = n] \in ClientRecord
      BY <1>1, <2>5, <2>9 DEF ClientRecord, n
    <3> QED  BY <3>1 DEF n
  <2>4. client' \in [Connection -> ClientRecord]
    BY <1>1, <2>2, <2>3
  <2>6. Registration(c) \in ClientFrame /\ Registration(c).type = "deviceRegister"
    BY <2>5 DEF Registration, ClientFrame
  <2>7. <<Registration(c)>> \in Seq(ClientFrame) /\ Plain(<<Registration(c)>>)
    BY <2>6, OneFrameIsPlain
  <2>8. /\ toClient' \in [Connection -> Seq(GatewayFrame)]
        /\ signatures' \subseteq [key : Account, value : Challenge]
    BY <1>1, <2>1
  <2> QED
    BY <2>1, <2>2, <2>4, <2>7, <2>8, PlainIsHonest, ClientEffectOf
<1>8. CASE RenewSession(c)
  <2>1. UNCHANGED toClient /\ OnlyClient /\ ClientSends(c, <<Authenticate>>)
        /\ client' = [client EXCEPT ![c].isRenewing = FALSE]
    BY <1>8 DEF RenewSession
  <2>2. [client[c] EXCEPT !.isRenewing = FALSE] \in ClientRecord
    BY <1>1 DEF ClientRecord
  <2>3. client' \in [Connection -> ClientRecord]
    BY <1>1, <2>1, <2>2
  <2>4. <<Authenticate>> \in Seq(ClientFrame) /\ Plain(<<Authenticate>>)
    BY <1>5, OneFrameIsPlain
  <2> QED
    BY <1>1, <1>4, <2>1, <2>3, <2>4, PlainIsHonest, ClientEffectOf
<1>9. CASE DoWork(c)
  <2>1. UNCHANGED <<client, toClient>> /\ OnlyClient /\ ClientSends(c, <<Type("work")>>)
    BY <1>9 DEF DoWork
  <2>2. Type("work") \in ClientFrame /\ Type("work").type = "work"
    BY DEF Type, ClientFrame
  <2>3. <<Type("work")>> \in Seq(ClientFrame) /\ Plain(<<Type("work")>>)
    BY <2>2, OneFrameIsPlain
  <2> QED
    BY <1>1, <1>4, <2>1, <2>3, PlainIsHonest, ClientEffectOf
<1>10. CASE \E v \in client[c].signing : RunsConversation(c) /\ Sign(c, v)
  <2>1. PICK v \in client[c].signing : Sign(c, v)
    BY <1>10
  <2> DEFINE signature == SignedBy(c, v)
             frame == [type |-> "account.authenticate", account |-> AccountOf[c], signature |-> signature]
  <2>2. /\ UNCHANGED GatewaySide /\ UNCHANGED toClient /\ ClientSends(c, <<frame>>)
        /\ signatures' = signatures \cup {signature}
        /\ client' = [client EXCEPT ![c].signing = @ \ {v}]
    BY <2>1 DEF Sign, GatewaySide
  <2>3. frame \in ClientFrame /\ signature \in [key : Account, value : Challenge]
    BY <1>1, <1>3, SignedByIsASignature DEF ClientFrame
  <2>4. [client[c] EXCEPT !.signing = @ \ {v}] \in ClientRecord
    BY <1>1 DEF ClientRecord
  <2>5. client' \in [Connection -> ClientRecord]
    BY <1>1, <2>2, <2>4
  <2>6. <<frame>> \in Seq(ClientFrame) /\ Honest(<<frame>>, signatures')
    BY <2>2, <2>3 DEF Honest
  <2> HIDE DEF frame, signature
  <2> QED
    BY <1>1, <2>2, <2>3, <2>5, <2>6, ClientEffectOf
<1>11. CASE \E v \in client[c].signing : RunsConversation(c) /\ SignFails(c, v)
  <2>1. PICK v \in client[c].signing : RunsConversation(c) /\ SignFails(c, v)
    BY <1>11
  <2>2. /\ UNCHANGED toClient /\ OnlyClient /\ ClientSends(c, Settle(c).frames)
        /\ client' = [client EXCEPT ![c] = [Settle(c).client EXCEPT !.signing = @ \ {v}]]
    BY <2>1 DEF SignFails
  <2>3. /\ Settle(c).client \in ClientRecord /\ Settle(c).frames \in Seq(ClientFrame)
        /\ Plain(Settle(c).frames)
    BY <2>1, SettleReaction
  <2>4. [Settle(c).client EXCEPT !.signing = @ \ {v}] \in ClientRecord
    BY <2>3 DEF ClientRecord
  <2>5. client' \in [Connection -> ClientRecord]
    BY <1>1, <2>2, <2>4
  <2> QED
    BY <1>1, <1>4, <2>2, <2>3, <2>5, PlainIsHonest, ClientEffectOf
<1>12. CASE OtherSends(c)
  <2>1. UNCHANGED GatewaySide /\ UNCHANGED <<toClient, client>>
    BY <1>12 DEF OtherSends, GatewaySide
  <2>2. PICK frame \in OtherFrames(c) :
          /\ ClientSends(c, <<frame>>)
          /\ signatures' = IF frame.type = "account.authenticate" /\ frame.signature # NoSignature
                           THEN signatures \cup {frame.signature} ELSE signatures
    BY <1>12 DEF OtherSends
  <2>3. /\ frame \in ClientFrame
        /\ frame.type = "account.authenticate" /\ frame.signature # NoSignature =>
             frame.signature \in [key : Account, value : Challenge]
    BY <1>1, <2>2, OtherFramesTyped
  <2>4. <<frame>> \in Seq(ClientFrame) /\ Honest(<<frame>>, signatures')
    BY <2>2, <2>3 DEF Honest
  <2>5. signatures \subseteq signatures' /\ signatures' \subseteq [key : Account, value : Challenge]
    BY <1>1, <2>2, <2>3
  <2> QED
    BY <1>1, <2>1, <2>2, <2>4, <2>5, ClientEffectOf
<1>13. CASE OtherReceives(c)
  <2>1. toClient[c] # <<>> /\ OnlyClient /\ UNCHANGED <<client, toGateway>>
        /\ toClient' = [toClient EXCEPT ![c] = Tail(@)]
    BY <1>13 DEF OtherReceives
  <2>2. toClient' \in [Connection -> Seq(GatewayFrame)]
    BY <1>2, <2>1
  <2> QED
    BY <1>1, <1>4, <2>1, <2>2, ClientEffectOf
<1>14. CASE LinkFails(c)
  <2>1. UNCHANGED GatewaySide /\ UNCHANGED <<toGateway, toClient, client, signatures>>
    BY <1>14 DEF LinkFails, gatewayVars, GatewaySide
  <2> QED
    BY <1>1, <2>1, ClientEffectOf
<1>15. CASE ClientCloses(c)
  <2> DEFINE closed == [client[c] EXCEPT !.isOpen = FALSE, !.conversation = "none",
                          !.isRegistered = FALSE, !.isRenewing = FALSE, !.signing = {}, !.checks = 0]
  <2>1. UNCHANGED toGateway /\ OnlyClient /\ toClient' = [toClient EXCEPT ![c] = <<>>]
        /\ client' = [client EXCEPT ![c] = closed]
    BY <1>15 DEF ClientCloses
  <2>2. closed \in ClientRecord
    <3> DEFINE e1 == [client[c] EXCEPT !.isOpen = FALSE, !.conversation = "none"]
               e2 == [e1 EXCEPT !.isRegistered = FALSE, !.isRenewing = FALSE]
               e3 == [e2 EXCEPT !.signing = {}]
               e4 == [e3 EXCEPT !.checks = 0]
    <3>1. e1 \in ClientRecord
      BY <1>1 DEF ClientRecord
    <3>2. closed = e4
      OBVIOUS
    <3> HIDE DEF e1, closed
    <3>3. e2 \in ClientRecord
      BY <3>1 DEF ClientRecord
    <3> HIDE DEF e2
    <3>4. e3 \in ClientRecord
      BY <3>3 DEF ClientRecord
    <3> HIDE DEF e3
    <3>5. e4 \in ClientRecord
      BY <3>4 DEF ClientRecord
    <3> QED  BY <3>2, <3>5
  <2> HIDE DEF closed
  <2>3. client' \in [Connection -> ClientRecord]
    BY <1>1, <2>1, <2>2
  <2>4. toClient' \in [Connection -> Seq(GatewayFrame)]
    BY <1>1, <2>1
  <2> QED
    BY <1>1, <1>4, <2>1, <2>3, <2>4, ClientEffectOf
<1> QED
  BY <1>6, <1>7, <1>8, <1>9, <1>10, <1>11, <1>12, <1>13, <1>14, <1>15 DEF ClientStep

-----------------------------------------------------------------------------
(* The invariant *)

\* A client cannot touch what the gateway keeps, and signs before it sends.
LEMMA ClientKeepsInv ==
  ASSUME ConnectionInv, ClientEffect
  PROVE  ConnectionInv'
<1>1. Typed'
  BY DEF ClientEffect
<1>2. ChallengesAreFresh' /\ ChallengeTakenOnce'
  BY DEF ConnectionInv, ClientEffect, GatewaySide, ChallengesAreFresh, ChallengeTakenOnce
<1>3. NothingKeptAfterClose'
  BY DEF ConnectionInv, ClientEffect, GatewaySide, NothingKeptAfterClose
<1>4. AccountsAreSigned'
  BY DEF ConnectionInv, ClientEffect, GatewaySide, AccountsAreSigned, IsSignedFor
<1>5. ASSUME NEW d \in Connection, NEW k \in DOMAIN toGateway'[d]
      PROVE  IsSigned(toGateway[d][k])'
  <2>1. CASE \E j \in DOMAIN toGateway[d] : toGateway'[d][k] = toGateway[d][j]
    BY <2>1 DEF ConnectionInv, ClientEffect, SignaturesAreTraced, IsSigned
  <2> QED  BY <1>5, <2>1 DEF ClientEffect
<1>6. ASSUME NEW d \in Connection, NEW k \in DOMAIN pending'[d]
      PROVE  IsFounded(d, pending[d][k])'
  BY <1>6 DEF ConnectionInv, ClientEffect, GatewaySide, SignaturesAreTraced, IsFounded
<1> QED
  BY <1>1, <1>2, <1>3, <1>4, <1>5, <1>6 DEF ConnectionInv, SignaturesAreTraced

\* What a step does to the challenges: it may take some back, hand out a new one, or
\* take the answer to one that is out.
KeepsChallenges ==
  /\ issued' = issued /\ taken' = taken
  /\ \A d \in Connection : challenge'[d] # None =>
       challenge[d] # None /\ challenge'[d].value = challenge[d].value

HandsOut(c) ==
  /\ issued' = Append(issued, c) /\ taken' = taken
  /\ challenge'[c].value = Len(issued) + 1
  /\ \A d \in Connection \ {c} : challenge'[d] # None =>
       challenge[d] # None /\ challenge'[d].value = challenge[d].value

Takes(c) ==
  /\ issued' = issued /\ challenge[c] # None
  /\ taken' = Append(taken, [connection |-> c, value |-> challenge[c].value])
  /\ challenge' = [challenge EXCEPT ![c] = None]

(* Handing out a challenge, taking one and leaving them alone all keep a challenge single-use. *)
LEMMA ChallengesStayFresh ==
  ASSUME ConnectionInv, NEW c \in Connection, KeepsChallenges \/ HandsOut(c) \/ Takes(c)
  PROVE  ChallengesAreFresh' /\ ChallengeTakenOnce'
<1>1. /\ issued \in Seq(Connection) /\ taken \in Seq([connection : Connection, value : Challenge])
      /\ challenge \in [Connection -> [value : Challenge, isExpired : BOOLEAN] \cup {None}]
  BY DEF ConnectionInv, Typed, GatewayTypeOK
<1>2. /\ \A d \in Connection : challenge[d] # None =>
           /\ challenge[d].value \in DOMAIN issued /\ issued[challenge[d].value] = d
           /\ \A i \in DOMAIN taken : taken[i].value # challenge[d].value
      /\ \A i \in DOMAIN taken : taken[i].value \in DOMAIN issued
  BY DEF ConnectionInv, ChallengesAreFresh
<1>3. \A i \in DOMAIN taken :
        /\ issued[taken[i].value] = taken[i].connection
        /\ \A j \in DOMAIN taken : taken[i].value = taken[j].value => i = j
  BY DEF ConnectionInv, ChallengeTakenOnce
<1>4. CASE KeepsChallenges
  BY <1>2, <1>3, <1>4 DEF KeepsChallenges, ChallengesAreFresh, ChallengeTakenOnce
<1>5. CASE HandsOut(c)
  <2> DEFINE n == Len(issued) + 1
  <2>1. /\ n \in Nat /\ n \notin DOMAIN issued /\ DOMAIN issued' = DOMAIN issued \cup {n}
        /\ issued'[n] = c /\ \A i \in DOMAIN issued : issued'[i] = issued[i]
    BY <1>1, <1>5 DEF HandsOut
  <2>2. taken' = taken /\ challenge'[c].value = n
    BY <1>5 DEF HandsOut
  <2> HIDE DEF n
  <2>3. ChallengesAreFresh'
    <3>1. ASSUME NEW d \in Connection, challenge'[d] # None
          PROVE  /\ challenge'[d].value \in DOMAIN issued' /\ issued'[challenge'[d].value] = d
                 /\ \A i \in DOMAIN taken' : taken'[i].value # challenge'[d].value
      <4>1. CASE d = c
        BY <1>2, <2>1, <2>2, <4>1
      <4>2. CASE d # c
        <5>1. challenge[d] # None /\ challenge'[d].value = challenge[d].value
          BY <1>5, <3>1, <4>2 DEF HandsOut
        <5> QED  BY <1>2, <2>1, <2>2, <5>1
      <4> QED  BY <4>1, <4>2
    <3> QED
      BY <1>2, <2>1, <2>2, <3>1 DEF ChallengesAreFresh
  <2>4. ChallengeTakenOnce'
    BY <1>2, <1>3, <2>1, <2>2 DEF ChallengeTakenOnce
  <2> QED
    BY <2>3, <2>4
<1>6. CASE Takes(c)
  <2> DEFINE n == Len(taken) + 1
             mark == [connection |-> c, value |-> challenge[c].value]
  <2>1. /\ n \notin DOMAIN taken /\ DOMAIN taken' = DOMAIN taken \cup {n}
        /\ taken'[n] = mark /\ \A i \in DOMAIN taken : taken'[i] = taken[i]
    <3> HIDE DEF mark
    <3>1. taken' = Append(taken, mark)
      BY <1>6 DEF Takes, mark
    <3> QED  BY <1>1, <3>1
  <2>2. mark.connection = c /\ mark.value = challenge[c].value
    OBVIOUS
  <2>3. /\ challenge[c] # None /\ issued' = issued
        /\ \A d \in Connection : challenge'[d] # None => d # c /\ challenge'[d] = challenge[d]
    BY <1>1, <1>6 DEF Takes
  <2> HIDE DEF n, mark
  <2>4. ChallengesAreFresh'
    <3>1. ASSUME NEW d \in Connection, challenge'[d] # None
          PROVE  /\ challenge'[d].value \in DOMAIN issued' /\ issued'[challenge'[d].value] = d
                 /\ \A i \in DOMAIN taken' : taken'[i].value # challenge'[d].value
      <4>1. d # c /\ challenge'[d] = challenge[d] /\ challenge[d] # None
        BY <2>3, <3>1
      <4>2. challenge[d].value # challenge[c].value
        BY <1>2, <2>3, <4>1
      <4> QED
        BY <1>2, <2>1, <2>2, <2>3, <4>1, <4>2
    <3> QED
      BY <1>2, <2>1, <2>2, <2>3, <3>1 DEF ChallengesAreFresh
  <2>5. ChallengeTakenOnce'
    BY <1>2, <1>3, <2>1, <2>2, <2>3 DEF ChallengeTakenOnce
  <2> QED
    BY <2>4, <2>5
<1> QED
  BY <1>4, <1>5, <1>6

\* Each step of the gateway is one of the three.
LEMMA GatewayChallenges ==
  ASSUME Typed, NEW c \in Connection, GatewayStep(c)
  PROVE  KeepsChallenges \/ HandsOut(c) \/ Takes(c)
<1>1. challenge \in [Connection -> [value : Challenge, isExpired : BOOLEAN] \cup {None}]
  BY DEF Typed, GatewayTypeOK
<1>2. CASE UNCHANGED <<challenge, issued, taken>>
  BY <1>2 DEF KeepsChallenges
<1>3. CASE ChallengeRequest(c)
  BY <1>1, <1>3 DEF ChallengeRequest, HandsOut
<1>4. CASE AccountAuthenticate(c)
  <2>1. CASE taken' = taken
    <3>1. issued' = issued /\ (challenge' = challenge \/ challenge' = [challenge EXCEPT ![c] = None])
      BY <1>4 DEF AccountAuthenticate
    <3> QED  BY <1>1, <2>1, <3>1 DEF KeepsChallenges
  <2>2. CASE taken' # taken
    BY <1>1, <1>4, <2>2 DEF AccountAuthenticate, Takes
  <2> QED  BY <2>1, <2>2
<1>5. CASE ChallengeLapses(c)
  <2>1. /\ challenge[c] # None /\ challenge[c] \in [value : Challenge, isExpired : BOOLEAN]
        /\ challenge' = [challenge EXCEPT ![c] = [challenge[c] EXCEPT !.isExpired = TRUE]]
        /\ UNCHANGED <<issued, taken>>
    BY <1>1, <1>5 DEF ChallengeLapses
  <2>2. [challenge[c] EXCEPT !.isExpired = TRUE].value = challenge[c].value
    BY <2>1
  <2> QED
    BY <1>1, <2>1, <2>2 DEF KeepsChallenges
<1>6. CASE CloseConnection(c)
  BY <1>1, <1>6 DEF CloseConnection, KeepsChallenges
<1>7. \/ UNCHANGED <<challenge, issued, taken>> \/ ChallengeRequest(c) \/ AccountAuthenticate(c)
      \/ ChallengeLapses(c) \/ CloseConnection(c)
  BY DEF GatewayStep, GatewayReads, GatewayAnswers, RefuseOutsideSession, DeviceAuthenticate,
         PipelinesGet, DeviceRegister, Work, AccountRegister, RegisterAccount, VerifySignature,
         VerificationThrows, SessionLapses
<1> QED
  BY <1>2, <1>3, <1>4, <1>5, <1>6, <1>7

\* What a step does to the trail of a signature: frames and pending answers are those
\* there were, but for a new one about what the gateway has just read; and an account
\* goes on a session only at the end of a verification that held.
TrailKept ==
  /\ signatures' = signatures
  /\ \A i \in DOMAIN taken : i \in DOMAIN taken' /\ taken'[i] = taken[i]
  /\ \A d \in Connection : \A k \in DOMAIN toGateway'[d] :
       \E j \in DOMAIN toGateway[d] : toGateway'[d][k] = toGateway[d][j]
  /\ \A d \in Connection : \A k \in DOMAIN pending'[d] :
       \/ \E j \in DOMAIN pending[d] : pending'[d][k] = pending[d][j]
       \/ IsFounded(d, pending[d][k])'
  /\ \A d \in Connection : session'[d].account # None =>
       \/ session'[d].account = session[d].account
       \/ \E j \in DOMAIN pending[d] :
            /\ pending[d][j].step = "verify" /\ IsVerified(pending[d][j])
            /\ session'[d].account = pending[d][j].account

(* A step that keeps every signature traceable keeps every session's account proved. *)
LEMMA TrailKeptKeeps ==
  ASSUME ConnectionInv, TrailKept
  PROVE  SignaturesAreTraced' /\ AccountsAreSigned'
<1>1. ASSUME NEW d \in Connection, NEW p, IsFounded(d, p)
      PROVE  p.step = "verify" =>
               /\ p.signature \in signatures' \cup {NoSignature}
               /\ \E i \in DOMAIN taken' : taken'[i].connection = d /\ taken'[i].value = p.value
  BY <1>1 DEF IsFounded, TrailKept
<1>2. SignaturesAreTraced'
  <2>1. ASSUME NEW d \in Connection, NEW k \in DOMAIN toGateway'[d]
        PROVE  IsSigned(toGateway[d][k])'
    BY <2>1 DEF ConnectionInv, SignaturesAreTraced, IsSigned, TrailKept
  <2>2. ASSUME NEW d \in Connection, NEW k \in DOMAIN pending'[d]
        PROVE  IsFounded(d, pending[d][k])'
    <3>1. CASE \E j \in DOMAIN pending[d] : pending'[d][k] = pending[d][j]
      <4>1. PICK j \in DOMAIN pending[d] : pending'[d][k] = pending[d][j]
        BY <3>1
      <4>2. IsFounded(d, pending[d][j])
        BY DEF ConnectionInv, SignaturesAreTraced
      <4> QED
        BY <1>1, <4>1, <4>2 DEF IsFounded
    <3> QED
      BY <2>2, <3>1 DEF TrailKept
  <2> QED
    BY <2>1, <2>2 DEF SignaturesAreTraced
<1>3. ASSUME NEW d \in Connection, session'[d].account # None
      PROVE  \E i \in DOMAIN taken' :
               /\ taken'[i].connection = d
               /\ [key |-> session'[d].account, value |-> taken'[i].value] \in signatures'
  <2>1. CASE session'[d].account = session[d].account
    <3>1. PICK i \in DOMAIN taken :
            /\ taken[i].connection = d
            /\ [key |-> session[d].account, value |-> taken[i].value] \in signatures
      BY <1>3, <2>1 DEF ConnectionInv, AccountsAreSigned, IsSignedFor
    <3> QED
      BY <2>1, <3>1 DEF TrailKept
  <2>2. CASE \E j \in DOMAIN pending[d] :
               /\ pending[d][j].step = "verify" /\ IsVerified(pending[d][j])
               /\ session'[d].account = pending[d][j].account
    <3>1. PICK j \in DOMAIN pending[d] :
            /\ pending[d][j].step = "verify" /\ IsVerified(pending[d][j])
            /\ session'[d].account = pending[d][j].account
      BY <2>2
    <3>2. IsFounded(d, pending[d][j])
      BY DEF ConnectionInv, SignaturesAreTraced
    <3>3. /\ pending[d][j].signature \in signatures' \cup {NoSignature}
          /\ \E i \in DOMAIN taken' : taken'[i].connection = d /\ taken'[i].value = pending[d][j].value
      BY <1>1, <3>1, <3>2
    <3>4. pending[d][j].signature = [key |-> session'[d].account, value |-> pending[d][j].value]
      BY <3>1 DEF IsVerified
    <3>5. pending[d][j].signature # NoSignature
      BY <1>3, <3>4 DEF NoSignature
    <3> QED
      BY <3>3, <3>4, <3>5
  <2> QED
    BY <1>3, <2>1, <2>2 DEF TrailKept
<1> QED
  BY <1>2, <1>3 DEF AccountsAreSigned, IsSignedFor

\* A handler that reads a frame and leaves sessions' accounts and verifications alone.
LEMMA ReadsKeepTrail ==
  ASSUME Typed, NEW c \in Connection, NEW type, Reads(c, type),
         UNCHANGED <<pending, taken, signatures>>,
         \A d \in Connection : session'[d].account # None => session'[d].account = session[d].account
  PROVE  TrailKept
<1>1. \A d \in Connection : \A k \in DOMAIN toGateway'[d] :
        \E j \in DOMAIN toGateway[d] : toGateway'[d][k] = toGateway[d][j]
  BY ReadsTakes
<1> QED
  BY <1>1 DEF TrailKept

(* An element of an extended queue is an old one or the new one. *)
LEMMA AppendedIs ==
  ASSUME NEW S, NEW s \in Seq(S), NEW e \in S
  PROVE  \A k \in DOMAIN Append(s, e) :
           (k \in DOMAIN s /\ Append(s, e)[k] = s[k]) \/ Append(s, e)[k] = e
OBVIOUS

(* Reading a frame keeps every signature traceable to the client that made it. *)
LEMMA GatewayReadsTrail ==
  ASSUME ConnectionInv, NEW c \in Connection, GatewayReads(c), UNCHANGED signatures
  PROVE  TrailKept
<1>1. /\ Typed /\ session \in [Connection -> SessionRecord]
      /\ pending \in [Connection -> Seq(PendingAnswer)] /\ pending[c] \in Seq(PendingAnswer)
      /\ taken \in Seq([connection : Connection, value : Challenge])
      /\ challenge \in [Connection -> [value : Challenge, isExpired : BOOLEAN] \cup {None}]
  BY DEF ConnectionInv, Typed, GatewayTypeOK, PendingAnswer, SessionRecord
<1>2. CASE RefuseOutsideSession(c)
  <2>1. PICK type : Reads(c, type)
    BY <1>2 DEF RefuseOutsideSession
  <2>2. session' = [session EXCEPT ![c] = NoSession] /\ UNCHANGED <<pending, taken>>
    BY <1>2 DEF RefuseOutsideSession
  <2> QED
    BY <1>1, <2>1, <2>2, ReadsKeepTrail DEF NoSession
<1>3. CASE DeviceAuthenticate(c)
  <2>1. Reads(c, "deviceAuthenticate") /\ UNCHANGED <<pending, taken>>
    BY <1>3 DEF DeviceAuthenticate
  <2>3. \/ UNCHANGED session \/ session' = [session EXCEPT ![c] = NoSession]
        \/ session' = [session EXCEPT ![c] = [state |-> "live", account |-> None]]
    BY <1>3 DEF DeviceAuthenticate
  <2>4. NoSession.account = None /\ [state |-> "live", account |-> None].account = None
    BY DEF NoSession
  <2> DEFINE fresh == [state |-> "live", account |-> None]
  <2>5. /\ fresh.account = None
        /\ \A d \in Connection : \/ session'[d] = session[d] \/ session'[d] = NoSession
                                 \/ session'[d] = fresh
    BY <1>1, <2>3
  <2> HIDE DEF fresh
  <2>2. \A d \in Connection : session'[d].account # None => session'[d].account = session[d].account
    BY <2>4, <2>5
  <2> QED
    BY <1>1, <2>1, <2>2, ReadsKeepTrail
<1>4. CASE PipelinesGet(c) \/ DeviceRegister(c) \/ Work(c) \/ ChallengeRequest(c)
  <2>1. UNCHANGED <<session, pending, taken>>
    BY <1>4 DEF PipelinesGet, DeviceRegister, Work, ChallengeRequest
  <2>2. \/ Reads(c, "pipelines.get") \/ Reads(c, "deviceRegister") \/ Reads(c, "work")
        \/ Reads(c, "account.challenge.request")
    BY <1>4 DEF PipelinesGet, DeviceRegister, Work, ChallengeRequest, ReadsInSession
  <2> QED
    BY <1>1, <2>1, <2>2, ReadsKeepTrail
<1>5. CASE AccountRegister(c)
  <2> DEFINE answer == [step |-> "register", account |-> Head(toGateway[c]).account]
  <2>1. Reads(c, "account.register") /\ UNCHANGED <<session, taken>>
        /\ pending' = [pending EXCEPT ![c] = Append(pending[c], answer)]
    BY <1>5 DEF AccountRegister, ReadsInSession
  <2>2. /\ Head(toGateway[c]).account \in Account
        /\ \A d \in Connection : \A k \in DOMAIN toGateway'[d] :
             \E j \in DOMAIN toGateway[d] : toGateway'[d][k] = toGateway[d][j]
    BY <1>1, <2>1, ReadsTakes, FrameFields
  <2>3. answer \in PendingAnswer /\ answer.step # "verify"
    BY <2>2 DEF PendingAnswer
  <2> HIDE DEF answer
  <2>4. ASSUME NEW d \in Connection, NEW k \in DOMAIN pending'[d]
        PROVE  \/ \E j \in DOMAIN pending[d] : pending'[d][k] = pending[d][j]
               \/ IsFounded(d, pending[d][k])'
    <3>1. CASE d = c
      <4>1. pending'[d] = Append(pending[d], answer)
        BY <1>1, <2>1, <3>1
      <4>2. (k \in DOMAIN pending[d] /\ pending'[d][k] = pending[d][k]) \/ pending'[d][k] = answer
        BY <1>1, <2>3, <2>4, <3>1, <4>1, AppendedIs
      <4> QED  BY <2>3, <4>2 DEF IsFounded
    <3>2. CASE d # c
      BY <1>1, <2>1, <2>4, <3>2
    <3> QED  BY <3>1, <3>2
  <2> QED
    BY <2>1, <2>2, <2>4 DEF TrailKept
<1>6. CASE AccountAuthenticate(c)
  <2> DEFINE frame == Head(toGateway[c])
             answer == [step |-> "verify", account |-> frame.account,
                        value |-> challenge[c].value, signature |-> frame.signature]
             mark   == [connection |-> c, value |-> challenge[c].value]
  <2>1. Reads(c, "account.authenticate") /\ UNCHANGED session
    BY <1>6 DEF AccountAuthenticate, ReadsInSession
  <2>2. \/ UNCHANGED <<pending, taken>>
        \/ /\ challenge[c] # None
           /\ pending' = [pending EXCEPT ![c] = Append(pending[c], answer)]
           /\ taken' = Append(taken, mark)
    BY <1>6 DEF AccountAuthenticate
  <2>3. CASE UNCHANGED <<pending, taken>>
    BY <1>1, <2>1, <2>3, ReadsKeepTrail
  <2>4. CASE /\ challenge[c] # None
             /\ pending' = [pending EXCEPT ![c] = Append(pending[c], answer)]
             /\ taken' = Append(taken, mark)
    <3>1. /\ frame \in ClientFrame /\ frame.type = "account.authenticate"
          /\ 1 \in DOMAIN toGateway[c] /\ frame = toGateway[c][1]
          /\ \A d \in Connection : \A k \in DOMAIN toGateway'[d] :
               \E j \in DOMAIN toGateway[d] : toGateway'[d][k] = toGateway[d][j]
      BY <1>1, <2>1, ReadsTakes
    <3>2. frame.signature \in signatures \cup {NoSignature}
      <4>1. IsSigned(toGateway[c][1])
        BY <3>1 DEF ConnectionInv, SignaturesAreTraced
      <4> QED  BY <3>1, <4>1 DEF IsSigned
    <3>3. frame.account \in Account /\ frame.signature \in Signature /\ challenge[c].value \in Challenge
      BY <1>1, <2>4, <3>1, FrameFields
    <3>4. /\ answer \in PendingAnswer
          /\ answer.account = frame.account /\ answer.signature = frame.signature
          /\ answer.value = challenge[c].value
      BY <3>3 DEF PendingAnswer
    <3>5. /\ mark \in [connection : Connection, value : Challenge]
          /\ mark.connection = c /\ mark.value = challenge[c].value
      BY <3>3
    <3> HIDE DEF frame, answer, mark
    <3>6. /\ Len(taken) + 1 \in DOMAIN taken' /\ taken'[Len(taken) + 1] = mark
          /\ \A i \in DOMAIN taken : i \in DOMAIN taken' /\ taken'[i] = taken[i]
      BY <1>1, <2>4, <3>5
    <3>7. ASSUME NEW d \in Connection, NEW k \in DOMAIN pending'[d]
          PROVE  \/ \E j \in DOMAIN pending[d] : pending'[d][k] = pending[d][j]
                 \/ IsFounded(d, pending[d][k])'
      <4>1. CASE d = c
        <5>1. pending'[d] = Append(pending[d], answer)
          BY <1>1, <2>4, <4>1
        <5>2. (k \in DOMAIN pending[d] /\ pending'[d][k] = pending[d][k]) \/ pending'[d][k] = answer
          BY <1>1, <3>4, <3>7, <4>1, <5>1, AppendedIs
        <5>3. /\ answer.signature \in signatures' \cup {NoSignature}
              /\ \E i \in DOMAIN taken' : taken'[i].connection = d /\ taken'[i].value = answer.value
          BY <3>2, <3>4, <3>5, <3>6, <4>1
        <5> QED  BY <5>2, <5>3 DEF IsFounded
      <4>2. CASE d # c
        BY <1>1, <2>4, <3>7, <4>2
      <4> QED  BY <4>1, <4>2
    <3> QED
      BY <2>1, <3>1, <3>6, <3>7 DEF TrailKept
  <2> QED
    BY <2>2, <2>3, <2>4
<1> QED
  BY <1>2, <1>3, <1>4, <1>5, <1>6 DEF GatewayReads

(* So does the end of an asynchronous verification, *)
LEMMA GatewayAnswersTrail ==
  ASSUME ConnectionInv, NEW c \in Connection, GatewayAnswers(c), UNCHANGED signatures
  PROVE  TrailKept
<1>1. PICK i \in DOMAIN pending[c] :
        RegisterAccount(c, i) \/ VerifySignature(c, i) \/ VerificationThrows(c, i)
  BY DEF GatewayAnswers
<1>2. /\ session \in [Connection -> SessionRecord]
      /\ pending \in [Connection -> Seq(PendingAnswer)] /\ pending[c] \in Seq(PendingAnswer)
  BY DEF ConnectionInv, Typed, GatewayTypeOK, PendingAnswer, SessionRecord
<1>3. /\ pending' = [pending EXCEPT ![c] = RemoveAt(pending[c], i)]
      /\ UNCHANGED <<toGateway, taken>>
  BY <1>1 DEF RegisterAccount, VerifySignature, VerificationThrows
<1>4. \A k \in DOMAIN RemoveAt(pending[c], i) :
        \E j \in DOMAIN pending[c] : RemoveAt(pending[c], i)[k] = pending[c][j]
  BY <1>2, RemoveAtIsPart
<1>5. ASSUME NEW d \in Connection, NEW k \in DOMAIN pending'[d]
      PROVE  \E j \in DOMAIN pending[d] : pending'[d][k] = pending[d][j]
  BY <1>2, <1>3, <1>4, <1>5
<1>6. ASSUME NEW d \in Connection, session'[d].account # None
      PROVE  \/ session'[d].account = session[d].account
             \/ \E j \in DOMAIN pending[d] :
                  /\ pending[d][j].step = "verify" /\ IsVerified(pending[d][j])
                  /\ session'[d].account = pending[d][j].account
  <2>1. CASE session' = session
    BY <2>1
  <2>2. CASE session' # session
    <3>1. /\ pending[c][i].step = "verify"
          /\ \/ session' = [session EXCEPT ![c] = NoSession]
             \/ /\ IsVerified(pending[c][i])
                /\ session' = [session EXCEPT ![c].account = pending[c][i].account]
      BY <1>1, <2>2 DEF RegisterAccount, VerifySignature, VerificationThrows
    <3>2. CASE session' = [session EXCEPT ![c] = NoSession]
      BY <1>2, <1>6, <3>2 DEF NoSession
    <3>3. CASE /\ IsVerified(pending[c][i])
               /\ session' = [session EXCEPT ![c].account = pending[c][i].account]
      <4>1. session[c] \in SessionRecord
        BY <1>2
      <4>2. d = c => session'[d].account = pending[c][i].account
        BY <1>2, <3>3, <4>1 DEF SessionRecord
      <4>3. d # c => session'[d] = session[d]
        BY <1>2, <3>3
      <4> QED
        BY <3>1, <3>3, <4>2, <4>3
    <3> QED
      BY <3>1, <3>2, <3>3
  <2> QED
    BY <2>1, <2>2
<1> QED
  BY <1>3, <1>5, <1>6 DEF TrailKept

(* and so do a lapsed session, a lapsed challenge and a closed connection. *)
LEMMA GatewayTimeTrail ==
  ASSUME ConnectionInv, NEW c \in Connection, UNCHANGED signatures,
         SessionLapses(c) \/ ChallengeLapses(c) \/ CloseConnection(c)
  PROVE  TrailKept
<1>1. /\ session \in [Connection -> SessionRecord] /\ session[c] \in SessionRecord
      /\ toGateway \in [Connection -> Seq(ClientFrame)]
  BY DEF ConnectionInv, Typed, GatewayTypeOK, SessionRecord
<1>2. UNCHANGED <<pending, taken>>
  BY DEF SessionLapses, ChallengeLapses, CloseConnection
<1>3. CASE SessionLapses(c)
  <2>1. session' = [session EXCEPT ![c].state = "expired"] /\ UNCHANGED toGateway
    BY <1>3 DEF SessionLapses
  <2>2. \A d \in Connection : session'[d].account = session[d].account
    BY <1>1, <2>1 DEF SessionRecord
  <2> QED
    BY <1>2, <2>1, <2>2 DEF TrailKept
<1>4. CASE ChallengeLapses(c)
  <2>1. UNCHANGED <<session, toGateway>>
    BY <1>4 DEF ChallengeLapses
  <2> QED
    BY <1>2, <2>1 DEF TrailKept
<1>5. CASE CloseConnection(c)
  <2>1. session' = [session EXCEPT ![c] = NoSession] /\ toGateway' = [toGateway EXCEPT ![c] = <<>>]
    BY <1>5 DEF CloseConnection
  <2>2. \A d \in Connection : session'[d].account # None => session'[d].account = session[d].account
    BY <1>1, <2>1 DEF NoSession
  <2>3. \A d \in Connection : \A k \in DOMAIN toGateway'[d] :
          \E j \in DOMAIN toGateway[d] : toGateway'[d][k] = toGateway[d][j]
    BY <1>1, <2>1
  <2> QED
    BY <1>2, <2>2, <2>3 DEF TrailKept
<1> QED
  BY <1>3, <1>4, <1>5

\* What the gateway keeps of a closed connection only goes; an answer that comes late
\* finds no live session to put the account on.
LEMMA NothingIsKept ==
  ASSUME ConnectionInv, NEW c \in Connection, GatewayStep(c)
  PROVE  NothingKeptAfterClose'
<1>1. /\ isOpen \in [Connection -> BOOLEAN] /\ session \in [Connection -> SessionRecord]
      /\ challenge \in [Connection -> [value : Challenge, isExpired : BOOLEAN] \cup {None}]
      /\ device \in [Connection -> {None, "worker", "consumer"}]
  BY DEF ConnectionInv, Typed, GatewayTypeOK, SessionRecord
<1>2. \A d \in Connection : ~isOpen[d] =>
        session[d] = NoSession /\ challenge[d] = None /\ device[d] = None
  BY DEF ConnectionInv, NothingKeptAfterClose
<1>3. CASE GatewayReads(c)
  <2>1. isOpen[c] /\ UNCHANGED isOpen
    BY <1>3 DEF GatewayReads, RefuseOutsideSession, DeviceAuthenticate, PipelinesGet, DeviceRegister,
                Work, AccountRegister, ChallengeRequest, AccountAuthenticate, ReadsInSession, Reads
  <2>2. \A d \in Connection \ {c} :
          session'[d] = session[d] /\ device'[d] = device[d] /\ challenge'[d] \in {None, challenge[d]}
    BY <1>1, <1>3 DEF GatewayReads, RefuseOutsideSession, DeviceAuthenticate, PipelinesGet,
                DeviceRegister, Work, AccountRegister, ChallengeRequest, AccountAuthenticate
  <2> QED
    BY <1>2, <2>1, <2>2 DEF NothingKeptAfterClose
<1>4. CASE GatewayAnswers(c)
  <2>1. UNCHANGED <<isOpen, challenge, device>>
    BY <1>4 DEF GatewayAnswers, RegisterAccount, VerifySignature, VerificationThrows
  <2>2. \/ UNCHANGED session \/ session' = [session EXCEPT ![c] = NoSession]
        \/ /\ session[c].state = "live"
           /\ \E account : session' = [session EXCEPT ![c].account = account]
    BY <1>4 DEF GatewayAnswers, RegisterAccount, VerifySignature, VerificationThrows
  <2>3. ~isOpen[c] => session[c].state # "live"
    BY <1>2 DEF NoSession
  <2>4. \A d \in Connection : ~isOpen[d] => session'[d] = NoSession
    BY <1>1, <1>2, <2>2, <2>3
  <2> QED
    BY <1>2, <2>1, <2>4 DEF NothingKeptAfterClose
<1>5. CASE SessionLapses(c)
  <2>1. isOpen[c]
    BY <1>2, <1>5 DEF SessionLapses, NoSession
  <2>2. UNCHANGED <<isOpen, challenge, device>> /\ \A d \in Connection \ {c} : session'[d] = session[d]
    BY <1>1, <1>5 DEF SessionLapses
  <2> QED
    BY <1>2, <2>1, <2>2 DEF NothingKeptAfterClose
<1>6. CASE ChallengeLapses(c)
  <2>1. isOpen[c]
    BY <1>2, <1>6 DEF ChallengeLapses
  <2>2. UNCHANGED <<isOpen, session, device>> /\ \A d \in Connection \ {c} : challenge'[d] = challenge[d]
    BY <1>1, <1>6 DEF ChallengeLapses
  <2> QED
    BY <1>2, <2>1, <2>2 DEF NothingKeptAfterClose
<1>7. CASE CloseConnection(c)
  <2>1. /\ isOpen' = [isOpen EXCEPT ![c] = FALSE]
        /\ session' = [session EXCEPT ![c] = NoSession]
        /\ challenge' = [challenge EXCEPT ![c] = None]
        /\ device' = [device EXCEPT ![c] = None]
    BY <1>7 DEF CloseConnection
  <2> QED
    BY <1>1, <1>2, <2>1 DEF NothingKeptAfterClose
<1> QED
  BY <1>3, <1>4, <1>5, <1>6, <1>7 DEF GatewayStep

(* Every step of the gateway keeps the connection's invariant. *)
LEMMA GatewayKeepsInv ==
  ASSUME ConnectionInv, NEW c \in Connection, GatewayStep(c)
  PROVE  ConnectionInv'
<1>1. UNCHANGED <<client, link, signatures, sent>>
      /\ (\/ GatewayReads(c) \/ GatewayAnswers(c)
          \/ SessionLapses(c) \/ ChallengeLapses(c) \/ CloseConnection(c))
  BY DEF GatewayStep
<1>2. Typed
  BY DEF ConnectionInv
<1>3. Typed'
  BY <1>1, <1>2, GatewayReadsTyped, GatewayAnswersTyped, GatewayTimeTyped
<1>4. TrailKept
  BY <1>1, GatewayReadsTrail, GatewayAnswersTrail, GatewayTimeTrail
<1>5. ChallengesAreFresh' /\ ChallengeTakenOnce'
  BY <1>2, GatewayChallenges, ChallengesStayFresh
<1> QED
  BY <1>3, <1>4, <1>5, TrailKeptKeeps, NothingIsKept DEF ConnectionInv

(* The invariant holds before the first connection. *)
LEMMA InitConnection ==
  ASSUME Init
  PROVE  ConnectionInv
<1>1. PICK cast \in Casts :
        /\ GatewayInit
        /\ isOpen = [c \in Connection |-> cast[c].role # "absent"]
        /\ \E keyPair \in [Connection -> BOOLEAN] :
             client = [c \in Connection |->
                        [role |-> cast[c].role, hasKeyPair |-> keyPair[c],
                         isOpen |-> cast[c].role # "absent", conversation |-> "none",
                         isRegistered |-> FALSE, isRenewing |-> FALSE, signing |-> {}, checks |-> 0]]
        /\ toGateway = [c \in Connection |-> IF cast[c].role # "absent" THEN <<Authenticate>> ELSE <<>>]
        /\ signatures = {}
  <2> DEFINE Clients(cast, keyPair) ==
               [c \in Connection |->
                  [role |-> cast[c].role, hasKeyPair |-> keyPair[c],
                   isOpen |-> cast[c].role # "absent", conversation |-> "none",
                   isRegistered |-> FALSE, isRenewing |-> FALSE, signing |-> {}, checks |-> 0]]
  <2>1. PICK cast \in Casts :
          /\ GatewayInit
          /\ isOpen = [c \in Connection |-> cast[c].role # "absent"]
          /\ \E keyPair \in [Connection -> BOOLEAN] :
               /\ \A c \in Connection : cast[c].role \in {"worker", "consumer"} \/ keyPair[c]
               /\ client = Clients(cast, keyPair)
          /\ toGateway = [c \in Connection |-> IF cast[c].role # "absent" THEN <<Authenticate>> ELSE <<>>]
          /\ link = [c \in Connection |-> IF cast[c].role # "absent" THEN "up" ELSE "down"]
          /\ sent = [c \in Connection |-> MaxMessages - cast[c].messages]
          /\ signatures = {}
    BY Zenon DEF Init
  <2>2. PICK keyPair \in [Connection -> BOOLEAN] : client = Clients(cast, keyPair)
    BY <2>1
  <2> QED
    BY <2>1, <2>2
<1>2. \A c \in Connection : cast[c].role \in {"worker", "consumer", "other", "absent"}
  BY <1>1, GatewayConnectionAssumption
<1>3. \A c \in Connection : toGateway[c] = <<Authenticate>> \/ toGateway[c] = <<>>
  BY <1>1
<1>4. Authenticate \in ClientFrame /\ Authenticate.type # "account.authenticate"
  BY DEF Authenticate, ClientFrame
<1>5. toGateway \in [Connection -> Seq(ClientFrame)]
  <2>1. <<Authenticate>> \in Seq(ClientFrame) /\ <<>> \in Seq(ClientFrame)
    BY <1>4
  <2> QED  BY <1>1, <2>1
<1>6. /\ session = [c \in Connection |-> NoSession]
      /\ challenge = [c \in Connection |-> None]
      /\ accounts \in SUBSET Account
      /\ pending = [c \in Connection |-> <<>>]
      /\ device = [c \in Connection |-> None]
      /\ toClient = [c \in Connection |-> <<>>]
      /\ issued = <<>> /\ taken = <<>> /\ refused = {} /\ work = {}
      /\ provedAs = [c \in Connection |-> None]
  BY <1>1 DEF GatewayInit
<1>7. GatewayTypeOK
  <2>1. NoSession \in SessionRecord
    BY DEF NoSession, SessionRecord
  <2>2. session \in [Connection -> SessionRecord]
    BY <1>6, <2>1
  <2>3. isOpen \in [Connection -> BOOLEAN]
    BY <1>1
  <2>4. Len(issued) <= MaxChallenges
    BY <1>6, GatewayAccountsAssumption
  <2>5. pending \in [Connection -> Seq(PendingAnswer)] /\ toClient \in [Connection -> Seq(GatewayFrame)]
    BY <1>6
  <2> QED
    BY <1>5, <1>6, <2>2, <2>3, <2>4, <2>5 DEF GatewayTypeOK, SessionRecord, PendingAnswer
<1>8. ClientTyped
  <2>1. \A c \in Connection : client[c] \in ClientRecord
    BY <1>1, <1>2 DEF ClientRecord
  <2> QED
    BY <1>1, <2>1 DEF ClientTyped
<1>9. ChallengesAreFresh /\ ChallengeTakenOnce
  BY <1>6 DEF ChallengesAreFresh, ChallengeTakenOnce
<1>10. SignaturesAreTraced
  <2>1. ASSUME NEW c \in Connection, NEW k \in DOMAIN toGateway[c]
        PROVE  IsSigned(toGateway[c][k])
    BY <1>3, <1>4, <2>1 DEF IsSigned
  <2> QED
    BY <1>6, <2>1 DEF SignaturesAreTraced
<1>11. AccountsAreSigned /\ NothingKeptAfterClose
  BY <1>6 DEF AccountsAreSigned, NothingKeptAfterClose, NoSession
<1> QED
  BY <1>7, <1>8, <1>9, <1>10, <1>11 DEF ConnectionInv, Typed

(* Every step of client or gateway keeps the invariant. *)
LEMMA NextConnection ==
  ASSUME ConnectionInv, [Next]_vars
  PROVE  ConnectionInv'
<1>1. CASE UNCHANGED vars
  <2>1. UNCHANGED <<isOpen, session, challenge, accounts, pending, device, toGateway, toClient,
                    issued, taken, refused, provedAs, work, client, signatures>>
    BY <1>1 DEF vars, gatewayVars
  <2>2. Typed' /\ UNCHANGED GatewaySide
    BY <2>1 DEF ConnectionInv, Typed, GatewayTypeOK, ClientTyped, GatewaySide
  <2>3. ClientEffect
    BY <2>1, <2>2 DEF ClientEffect
  <2> QED
    BY <2>3, ClientKeepsInv
<1>2. CASE Next
  <2>1. PICK c \in Connection : GatewayStep(c) \/ ClientStep(c)
    BY <1>2 DEF Next
  <2>2. Typed
    BY DEF ConnectionInv
  <2> QED
    BY <2>1, <2>2, GatewayKeepsInv, ClientStepEffect, ClientKeepsInv
<1> QED
  BY <1>1, <1>2

-----------------------------------------------------------------------------
(* The results *)

\* The types, the life of a challenge and the trail of a signature are kept together.
THEOREM ConnectionInductive == Spec => []ConnectionInv
<1>1. Init => ConnectionInv
  BY InitConnection
<1>2. ConnectionInv /\ [Next]_vars => ConnectionInv'
  BY NextConnection
<1> QED
  BY <1>1, <1>2, PTL DEF Spec

\* The gateway's side of every connection keeps its types (types are what the code's
\* TypeScript declares of sessions, challenges and frames).
THEOREM GatewayTypeCorrect == Spec => []GatewayTypeOK
<1>1. ConnectionInv => GatewayTypeOK
  BY DEF ConnectionInv, Typed
<1> QED
  BY <1>1, ConnectionInductive, PTL

\* ChallengeRegistry: a challenge is answered once at most, by whom it was handed to.
THEOREM ChallengesAreTakenOnce == Spec => []ChallengeTakenOnce
<1>1. ConnectionInv => ChallengeTakenOnce
  BY DEF ConnectionInv
<1> QED
  BY <1>1, ConnectionInductive, PTL

\* WebsocketRouter's close handler: session, challenge and device of a connection go with
\* it, and no answer that comes after brings one back.
THEOREM NothingOutlivesAConnection == Spec => []NothingKeptAfterClose
<1>1. ConnectionInv => NothingKeptAfterClose
  BY DEF ConnectionInv
<1> QED
  BY <1>1, ConnectionInductive, PTL

-----------------------------------------------------------------------------
(* Whose turn it is                                                        *)

\* The client's frames of the conversation, and a registration that would be refused.
Asks == {f \in ClientFrame :
           \/ f.type \in {"account.register", "account.challenge.request", "account.authenticate"}
           \/ f.type = "deviceRegister" /\ ~f.areStagesDefined}

\* The gateway's answers to them.
Answers == {f \in GatewayFrame :
              \/ f.type \in {"account.registered", "account.challenge", "account.authenticated"}
              \/ f.type = "error" /\ f.code \in AccountErrorCodes}

\* What registers a client, on its way in either direction.
Registers == {f \in ClientFrame : f.type \in {"pipelines.get", "deviceRegister"}}
Registered == {f \in GatewayFrame : f.type \in {"pipelines", "deviceRegistered"}}

Number(s, kind) == Cardinality({i \in DOMAIN s : s[i] \in kind})

\* What a conversation has under way: a frame, an answer being computed, a signature.
Talk(c) == Number(toGateway[c], Asks) + Len(pending[c]) + Number(toClient[c], Answers)
             + Cardinality(client[c].signing)

\* What a registration has under way, and the registration itself.
Places(c) == Number(toGateway[c], Registers) + Number(toClient[c], Registered) + client[c].checks
               + (IF client[c].isRegistered THEN 1 ELSE 0)

\* A client's conversation is one thing at a time, and its registration comes after it.
InTurn(c) ==
  /\ Talk(c) + Places(c) <= 1
  /\ client[c].isOpen /\ client[c].conversation = "none" => Talk(c) + Places(c) = 0
  /\ client[c].isOpen /\ client[c].conversation = "open" => Places(c) = 0
  /\ client[c].isOpen /\ client[c].conversation = "settled" => Talk(c) = 0
  /\ client[c].isOpen /\ device[c] # None => client[c].conversation = "settled"
  /\ ~client[c].isOpen => client[c].conversation = "none"

\* The clients that hold the conversation.
Converses(c) == RunsConversation(c) /\ client[c].hasKeyPair

TurnInv == \A c \in Connection : Converses(c) => InTurn(c)

\* The frames of a kind in a queue are finitely many.
LEMMA NumberIsNat ==
  ASSUME NEW S, NEW s \in Seq(S), NEW kind
  PROVE  /\ IsFiniteSet({i \in DOMAIN s : s[i] \in kind})
         /\ Number(s, kind) \in Nat
<1>1. DOMAIN s = 1..Len(s) /\ Len(s) \in Nat
  OBVIOUS
<1>2. IsFiniteSet(DOMAIN s)
  BY <1>1, FS_Interval
<1>3. IsFiniteSet({i \in DOMAIN s : s[i] \in kind})
  BY <1>2, FS_Subset
<1> QED
  BY <1>3, FS_CardinalityType DEF Number

\* One more frame under way.
LEMMA NumberAppend ==
  ASSUME NEW S, NEW s \in Seq(S), NEW e \in S, NEW kind
  PROVE  Number(Append(s, e), kind) = Number(s, kind) + (IF e \in kind THEN 1 ELSE 0)
<1> DEFINE n == Len(s) + 1
           A == {i \in DOMAIN s : s[i] \in kind}
           B == {i \in DOMAIN Append(s, e) : Append(s, e)[i] \in kind}
<1>1. /\ DOMAIN Append(s, e) = DOMAIN s \cup {n} /\ n \notin DOMAIN s
      /\ Append(s, e)[n] = e /\ \A i \in DOMAIN s : Append(s, e)[i] = s[i]
  OBVIOUS
<1>2. IsFiniteSet(A) /\ Cardinality(A) \in Nat
  BY NumberIsNat DEF Number
<1>3. Number(Append(s, e), kind) = Cardinality(B) /\ Number(s, kind) = Cardinality(A)
  BY DEF Number
<1> HIDE DEF n
<1>4. CASE e \in kind
  <2>1. B = A \cup {n} /\ n \notin A
    BY <1>1, <1>4
  <2> HIDE DEF A, B
  <2>2. Cardinality(A \cup {n}) = Cardinality(A) + 1
    BY <1>2, <2>1, FS_AddElement
  <2> QED
    BY <1>3, <1>4, <2>1, <2>2
<1>5. CASE e \notin kind
  <2>1. B = A
    BY <1>1, <1>5
  <2> HIDE DEF A, B
  <2> QED
    BY <1>2, <1>3, <1>5, <2>1
<1> QED
  BY <1>4, <1>5

\* One frame read.
LEMMA NumberTail ==
  ASSUME NEW S, NEW s \in Seq(S), s # <<>>, NEW kind
  PROVE  Number(s, kind) = Number(Tail(s), kind) + (IF Head(s) \in kind THEN 1 ELSE 0)
<1> DEFINE t == Tail(s)
           A == {i \in DOMAIN s : s[i] \in kind}
           B == {i \in DOMAIN t : t[i] \in kind}
           moved == {i \in A : i # 1}
<1>1. /\ t \in Seq(S) /\ Head(s) = s[1] /\ 1 \in DOMAIN s
      /\ DOMAIN s = 1..Len(s) /\ Len(s) \in Nat \ {0} /\ DOMAIN t = 1..(Len(s) - 1)
      /\ \A i \in 1..(Len(s) - 1) : t[i] = s[i + 1]
  OBVIOUS
<1>2. /\ IsFiniteSet(A) /\ Cardinality(A) \in Nat
      /\ IsFiniteSet(B) /\ Cardinality(B) \in Nat
  BY <1>1, NumberIsNat DEF Number
<1>3. Number(s, kind) = Cardinality(A) /\ Number(Tail(s), kind) = Cardinality(B)
  BY DEF Number
<1> HIDE DEF t
<1>4. Cardinality(moved) = Cardinality(B)
  <2> DEFINE g == [i \in B |-> i + 1]
  <2>1. \A i \in B : i \in Nat \ {0} /\ i + 1 \in moved
    BY <1>1
  <2>2. \A j \in moved : j - 1 \in B /\ (j - 1) + 1 = j
    <3> TAKE j \in moved
    <3>1. j \in 1..Len(s) /\ j # 1 /\ s[j] \in kind
      BY <1>1
    <3>2. j - 1 \in 1..(Len(s) - 1) /\ (j - 1) + 1 = j
      BY <1>1, <3>1
    <3> QED
      BY <1>1, <3>1, <3>2
  <2> HIDE DEF moved, A, B
  <2>3. g \in Bijection(B, moved)
    <3>1. g \in [B -> moved]
      BY <2>1
    <3>2. \A a, b \in B : g[a] = g[b] => a = b
      BY <2>1
    <3>3. \A j \in moved : \E a \in B : g[a] = j
      BY <2>2
    <3> QED
      BY <3>1, <3>2, <3>3 DEF Bijection, Injection, Surjection, IsInjective
  <2> HIDE DEF g
  <2>4. ExistsBijection(B, moved)
    BY <2>3 DEF ExistsBijection
  <2> QED
    BY <1>2, <2>4, FS_Bijection
<1>5. CASE Head(s) \in kind
  <2>1. 1 \in A /\ moved = A \ {1}
    BY <1>1, <1>5
  <2> HIDE DEF moved, A, B
  <2>2. Cardinality(A \ {1}) = Cardinality(A) - 1
    BY <1>2, <2>1, FS_RemoveElement
  <2> QED
    BY <1>2, <1>3, <1>4, <1>5, <2>1, <2>2
<1>6. CASE Head(s) \notin kind
  <2>1. moved = A
    BY <1>1, <1>6
  <2> HIDE DEF moved, A, B
  <2> QED
    BY <1>2, <1>3, <1>4, <1>6, <2>1
<1> QED
  BY <1>5, <1>6

\* One verification over.
LEMMA RemoveAtShortens ==
  ASSUME NEW S, NEW s \in Seq(S), NEW i \in DOMAIN s
  PROVE  Len(RemoveAt(s, i)) = Len(s) - 1
<1> DEFINE a == SubSeq(s, 1, i - 1)
           b == SubSeq(s, i + 1, Len(s))
<1>0. i \in 1..Len(s) /\ Len(s) \in Nat
  OBVIOUS
<1>1. a \in Seq(S) /\ Len(a) = i - 1
  BY <1>0
<1>2. b \in Seq(S) /\ Len(b) = Len(s) - i
  BY <1>0
<1>3. RemoveAt(s, i) = a \o b
  BY DEF RemoveAt
<1> HIDE DEF a, b
<1> QED
  BY <1>0, <1>1, <1>2, <1>3

\* Nothing under way.
LEMMA NumberOfNone ==
  ASSUME NEW kind
  PROVE  Number(<<>>, kind) = 0
<1>1. {i \in DOMAIN <<>> : <<>>[i] \in kind} = {}
  OBVIOUS
<1> QED
  BY <1>1, FS_EmptySet DEF Number

\* The parts that Talk and Places add up.
LEMMA TurnParts ==
  ASSUME NEW asked \in Seq(ClientFrame), NEW told \in Seq(GatewayFrame),
         NEW computing \in Seq(PendingAnswer), NEW k \in ClientRecord
  PROVE  /\ Number(asked, Asks) \in Nat /\ Number(asked, Registers) \in Nat
         /\ Number(told, Answers) \in Nat /\ Number(told, Registered) \in Nat
         /\ Len(computing) \in Nat /\ k.checks \in Nat
         /\ IsFiniteSet(k.signing) /\ Cardinality(k.signing) \in Nat
<1>1. k.signing \subseteq 1..MaxChallenges
  BY DEF ClientRecord, Challenge
<1>2. IsFiniteSet(1..MaxChallenges)
  BY GatewayAccountsAssumption, FS_Interval
<1>3. IsFiniteSet(k.signing) /\ Cardinality(k.signing) \in Nat
  BY <1>1, <1>2, FS_Subset, FS_CardinalityType
<1>4. Number(asked, Asks) \in Nat /\ Number(asked, Registers) \in Nat
  BY NumberIsNat
<1>5. Number(told, Answers) \in Nat /\ Number(told, Registered) \in Nat
  BY NumberIsNat
<1>6. Len(computing) \in Nat /\ k.checks \in Nat
  BY DEF ClientRecord
<1> QED
  BY <1>3, <1>4, <1>5, <1>6

\* What is on the wires and in hand, of one connection.
LEMMA TurnTyped ==
  ASSUME Typed, NEW c \in Connection
  PROVE  /\ toGateway[c] \in Seq(ClientFrame) /\ toClient[c] \in Seq(GatewayFrame)
         /\ pending[c] \in Seq(PendingAnswer) /\ client[c] \in ClientRecord
BY DEF Typed, GatewayTypeOK, ClientTyped, PendingAnswer

\* What a step of one connection leaves of the others.
OthersSame(c) ==
  \A d \in Connection : d # c =>
    /\ toGateway'[d] = toGateway[d] /\ toClient'[d] = toClient[d]
    /\ pending'[d] = pending[d] /\ device'[d] = device[d] /\ client'[d] = client[d]

\* The turns of the other connections stay.
LEMMA OthersKeep ==
  ASSUME NEW c \in Connection, NEW d \in Connection, d # c, OthersSame(c)
  PROVE  (Converses(d)' <=> Converses(d)) /\ (InTurn(d) => InTurn(d)')
<1>1. /\ toGateway'[d] = toGateway[d] /\ toClient'[d] = toClient[d]
      /\ pending'[d] = pending[d] /\ device'[d] = device[d] /\ client'[d] = client[d]
  BY DEF OthersSame
<1>2. Talk(d)' = Talk(d) /\ Places(d)' = Places(d)
  BY <1>1 DEF Talk, Places
<1> QED
  BY <1>1, <1>2 DEF Converses, RunsConversation, InTurn

\* What a step may do with the turn: pass it on or end it, begin the conversation, settle
\* it, or close.
PassesOn(c) ==
  /\ client'[c].isOpen = client[c].isOpen /\ client'[c].conversation = client[c].conversation
  /\ Talk(c)' <= Talk(c) /\ Places(c)' <= Places(c)
  /\ device'[c] # None => device[c] # None \/ Places(c) >= 1

Begins(c) ==
  /\ client[c].isOpen /\ client'[c].isOpen
  /\ client[c].conversation = "none" /\ client'[c].conversation = "open"
  /\ Talk(c)' <= Talk(c) + 1 /\ Places(c)' <= Places(c) /\ device'[c] = device[c]

Settles(c) ==
  /\ client'[c].isOpen = client[c].isOpen
  /\ client[c].conversation = "open" /\ client'[c].conversation = "settled"
  /\ Talk(c)' + 1 <= Talk(c) /\ Places(c)' <= Places(c) + 1 /\ device'[c] = device[c]

Closes(c) ==
  /\ ~client'[c].isOpen /\ client'[c].conversation = "none"
  /\ Talk(c)' <= Talk(c) /\ Places(c)' <= Places(c)

\* Each of these keeps a connection's turns.
LEMMA TurnKept ==
  ASSUME Typed, Typed', NEW c \in Connection, InTurn(c),
         PassesOn(c) \/ Begins(c) \/ Settles(c) \/ Closes(c)
  PROVE  InTurn(c)'
<1> DEFINE talk == Talk(c)
           places == Places(c)
           talkThen == Talk(c)'
           placesThen == Places(c)'
<1>2. talk \in Nat /\ places \in Nat
  <2>1. /\ toGateway[c] \in Seq(ClientFrame) /\ toClient[c] \in Seq(GatewayFrame)
        /\ pending[c] \in Seq(PendingAnswer) /\ client[c] \in ClientRecord
    BY TurnTyped
  <2>2. /\ Number(toGateway[c], Asks) \in Nat /\ Number(toGateway[c], Registers) \in Nat
        /\ Number(toClient[c], Answers) \in Nat /\ Number(toClient[c], Registered) \in Nat
        /\ Len(pending[c]) \in Nat /\ Cardinality(client[c].signing) \in Nat
        /\ client[c].checks \in Nat
    BY <2>1, TurnParts
  <2>3. Talk(c) \in Nat
    BY <2>2 DEF Talk
  <2>4. Places(c) \in Nat
    BY <2>2, SMTT(20) DEF Places
  <2> QED
    BY <2>3, <2>4
<1>3. /\ Number(toGateway'[c], Asks) \in Nat /\ Number(toGateway'[c], Registers) \in Nat
      /\ Number(toClient'[c], Answers) \in Nat /\ Number(toClient'[c], Registered) \in Nat
      /\ Len(pending'[c]) \in Nat /\ Cardinality(client'[c].signing) \in Nat
      /\ client'[c].checks \in Nat
  <2>1. /\ toGateway'[c] \in Seq(ClientFrame) /\ toClient'[c] \in Seq(GatewayFrame)
        /\ pending'[c] \in Seq(PendingAnswer) /\ client'[c] \in ClientRecord
    BY DEF Typed, GatewayTypeOK, ClientTyped, PendingAnswer
  <2> QED
    BY <2>1, TurnParts
<1>4. talkThen \in Nat /\ placesThen \in Nat
  <2>1. Talk(c)' \in Nat
    BY <1>3 DEF Talk
  <2>2. Places(c)' \in Nat
    BY <1>3, SMTT(20) DEF Places
  <2> QED
    BY <2>1, <2>2
<1>5. /\ talk + places <= 1
      /\ client[c].isOpen /\ client[c].conversation = "none" => talk + places = 0
      /\ client[c].isOpen /\ client[c].conversation = "open" => places = 0
      /\ client[c].isOpen /\ client[c].conversation = "settled" => talk = 0
      /\ client[c].isOpen /\ device[c] # None => client[c].conversation = "settled"
      /\ ~client[c].isOpen => client[c].conversation = "none"
  BY DEF InTurn
<1>6. client[c].conversation \in {"none", "open", "settled"}
  BY DEF Typed, ClientTyped, ClientRecord
<1> SUFFICES /\ talkThen + placesThen <= 1
             /\ client'[c].isOpen /\ client'[c].conversation = "none" => talkThen + placesThen = 0
             /\ client'[c].isOpen /\ client'[c].conversation = "open" => placesThen = 0
             /\ client'[c].isOpen /\ client'[c].conversation = "settled" => talkThen = 0
             /\ client'[c].isOpen /\ device'[c] # None => client'[c].conversation = "settled"
             /\ ~client'[c].isOpen => client'[c].conversation = "none"
  BY DEF InTurn
<1>7. CASE PassesOn(c)
  <2>1. /\ client'[c].isOpen = client[c].isOpen /\ client'[c].conversation = client[c].conversation
        /\ talkThen <= talk /\ placesThen <= places
        /\ device'[c] # None => device[c] # None \/ places >= 1
    BY <1>7 DEF PassesOn
  <2> HIDE DEF talk, places, talkThen, placesThen
  <2>2. /\ talkThen + placesThen <= talk + places
        /\ talk + places = 0 => talkThen + placesThen = 0
        /\ places = 0 => placesThen = 0
        /\ talk = 0 => talkThen = 0
    BY <1>2, <1>4, <2>1
  <2>3. /\ talkThen + placesThen <= 1
        /\ client[c].isOpen /\ places >= 1 => client[c].conversation = "settled"
    BY <1>2, <1>4, <1>5, <1>6, <2>2
  <2> QED
    BY <1>5, <2>1, <2>2, <2>3
<1>8. CASE Begins(c)
  <2>1. /\ client[c].isOpen /\ client'[c].isOpen
        /\ client[c].conversation = "none" /\ client'[c].conversation = "open"
        /\ talkThen <= talk + 1 /\ placesThen <= places /\ device'[c] = device[c]
    BY <1>8 DEF Begins
  <2> HIDE DEF talk, places, talkThen, placesThen
  <2> QED
    BY <1>2, <1>4, <1>5, <1>6, <2>1
<1>9. CASE Settles(c)
  <2>1. /\ client'[c].isOpen = client[c].isOpen
        /\ client[c].conversation = "open" /\ client'[c].conversation = "settled"
        /\ talkThen + 1 <= talk /\ placesThen <= places + 1 /\ device'[c] = device[c]
    BY <1>9 DEF Settles
  <2> HIDE DEF talk, places, talkThen, placesThen
  <2> QED
    BY <1>2, <1>4, <1>5, <1>6, <2>1
<1>10. CASE Closes(c)
  <2>1. /\ ~client'[c].isOpen /\ client'[c].conversation = "none"
        /\ talkThen <= talk /\ placesThen <= places
    BY <1>10 DEF Closes
  <2> HIDE DEF talk, places, talkThen, placesThen
  <2> QED
    BY <1>2, <1>4, <1>5, <2>1
<1> QED
  BY <1>7, <1>8, <1>9, <1>10

\* Reading a frame takes it out of the turn it was.
LEMMA ReadsCount ==
  ASSUME Typed, NEW c \in Connection, NEW type, Reads(c, type), NEW kind
  PROVE  /\ Number(toGateway'[c], kind) \in Nat
         /\ Number(toGateway[c], kind) =
              Number(toGateway'[c], kind) + (IF Head(toGateway[c]) \in kind THEN 1 ELSE 0)
         /\ \A d \in Connection \ {c} : toGateway'[d] = toGateway[d]
<1>1. toGateway \in [Connection -> Seq(ClientFrame)]
  BY DEF Typed, GatewayTypeOK
<1>2. toGateway[c] \in Seq(ClientFrame) /\ toGateway[c] # <<>>
  BY <1>1 DEF Reads
<1>3. toGateway'[c] = Tail(toGateway[c]) /\ \A d \in Connection \ {c} : toGateway'[d] = toGateway[d]
  BY <1>1 DEF Reads
<1>4. Tail(toGateway[c]) \in Seq(ClientFrame)
  BY <1>2
<1> QED
  BY <1>2, <1>3, <1>4, NumberTail, NumberIsNat

\* Sending one puts it into the turn it is, if it is sent at all.
LEMMA SendCount ==
  ASSUME Typed, NEW c \in Connection, NEW frame \in GatewayFrame, Send(c, frame), NEW kind
  PROVE  /\ Number(toClient[c], kind) \in Nat /\ Number(toClient'[c], kind) \in Nat
         /\ Number(toClient'[c], kind) <= Number(toClient[c], kind) + (IF frame \in kind THEN 1 ELSE 0)
         /\ \A d \in Connection \ {c} : toClient'[d] = toClient[d]
<1>1. toClient \in [Connection -> Seq(GatewayFrame)]
  BY DEF Typed, GatewayTypeOK
<1>2. toClient[c] \in Seq(GatewayFrame)
  BY <1>1
<1>3. Number(toClient[c], kind) \in Nat
  BY <1>2, NumberIsNat
<1>4. CASE isOpen[c]
  <2>1. /\ toClient'[c] = Append(toClient[c], frame)
        /\ \A d \in Connection \ {c} : toClient'[d] = toClient[d]
    BY <1>1, <1>4 DEF Send
  <2>2. Number(Append(toClient[c], frame), kind)
          = Number(toClient[c], kind) + (IF frame \in kind THEN 1 ELSE 0)
    BY <1>2, NumberAppend
  <2> QED
    BY <1>3, <2>1, <2>2
<1>5. CASE ~isOpen[c]
  <2>1. toClient' = toClient
    BY <1>5 DEF Send
  <2> QED
    BY <1>3, <2>1
<1> QED
  BY <1>4, <1>5

\* What a handler that reads frame h may do with the turn: send a frame in it, or begin to
\* compute an answer in it.
Answered(c, h) ==
  /\ UNCHANGED pending
  /\ \/ UNCHANGED toClient
     \/ \E frame \in GatewayFrame :
          /\ Send(c, frame)
          /\ frame \in Answers => h \in Asks
          /\ frame \in Registered => h \in Registers

Computes(c, h) ==
  /\ UNCHANGED toClient /\ h \in Asks
  /\ \E answer \in PendingAnswer : pending' = [pending EXCEPT ![c] = Append(@, answer)]

\* What leaves one queue enters another, or ends.
LEMMA PassedOn ==
  ASSUME NEW a \in Nat, NEW b \in Nat, NEW p \in Nat, NEW q \in Nat, NEW n \in Nat, NEW m \in Nat,
         NEW rest \in Nat, NEW x \in Nat, a = b + x, m + q <= n + p + x
  PROVE  b + q + m + rest <= a + p + n + rest
OBVIOUS

\* Reading a frame passes the turn on, or ends it.
LEMMA ReadsPassOn ==
  ASSUME Typed, NEW c \in Connection, NEW type, Reads(c, type),
         Answered(c, Head(toGateway[c])) \/ Computes(c, Head(toGateway[c])),
         UNCHANGED client,
         \/ device' = device
         \/ /\ Head(toGateway[c]) \in Registers
            /\ \A d \in Connection \ {c} : device'[d] = device[d]
  PROVE  OthersSame(c) /\ PassesOn(c)
<1> DEFINE h == Head(toGateway[c])
<1>1. /\ toGateway[c] \in Seq(ClientFrame) /\ toClient[c] \in Seq(GatewayFrame)
      /\ pending[c] \in Seq(PendingAnswer) /\ client[c] \in ClientRecord
  BY TurnTyped
<1>2. /\ Number(toGateway[c], Asks) \in Nat /\ Number(toGateway[c], Registers) \in Nat
      /\ Number(toClient[c], Answers) \in Nat /\ Number(toClient[c], Registered) \in Nat
      /\ Len(pending[c]) \in Nat /\ Cardinality(client[c].signing) \in Nat
      /\ client[c].checks \in Nat
  BY <1>1, TurnParts
<1>3. /\ Number(toGateway'[c], Asks) \in Nat
      /\ Number(toGateway[c], Asks) = Number(toGateway'[c], Asks) + (IF h \in Asks THEN 1 ELSE 0)
  BY ReadsCount
<1>4. /\ Number(toGateway'[c], Registers) \in Nat
      /\ Number(toGateway[c], Registers) =
           Number(toGateway'[c], Registers) + (IF h \in Registers THEN 1 ELSE 0)
  BY ReadsCount
<1>5. \A d \in Connection \ {c} : toGateway'[d] = toGateway[d]
  BY ReadsCount
<1>6. pending \in [Connection -> Seq(PendingAnswer)]
  BY DEF Typed, GatewayTypeOK, PendingAnswer
<1> HIDE DEF h
<1> DEFINE Sends ==
      /\ Number(toClient'[c], Answers) \in Nat /\ Number(toClient'[c], Registered) \in Nat
      /\ Len(pending'[c]) \in Nat
      /\ Number(toClient'[c], Answers) + Len(pending'[c])
           <= Number(toClient[c], Answers) + Len(pending[c]) + (IF h \in Asks THEN 1 ELSE 0)
      /\ Number(toClient'[c], Registered)
           <= Number(toClient[c], Registered) + (IF h \in Registers THEN 1 ELSE 0)
      /\ \A d \in Connection \ {c} : toClient'[d] = toClient[d] /\ pending'[d] = pending[d]
<1>7. Sends
  <2>1. CASE Answered(c, h)
    <3>1. CASE UNCHANGED toClient
      BY <1>2, <2>1, <3>1 DEF Answered
    <3>2. ASSUME NEW frame \in GatewayFrame, Send(c, frame),
                 frame \in Answers => h \in Asks, frame \in Registered => h \in Registers
          PROVE  Sends
      <4>1. /\ Number(toClient'[c], Answers) \in Nat
            /\ Number(toClient'[c], Answers)
                 <= Number(toClient[c], Answers) + (IF frame \in Answers THEN 1 ELSE 0)
        BY <3>2, SendCount
      <4>2. /\ Number(toClient'[c], Registered) \in Nat
            /\ Number(toClient'[c], Registered)
                 <= Number(toClient[c], Registered) + (IF frame \in Registered THEN 1 ELSE 0)
        BY <3>2, SendCount
      <4>3. \A d \in Connection \ {c} : toClient'[d] = toClient[d]
        BY <3>2, SendCount
      <4>4. pending' = pending
        BY <2>1 DEF Answered
      <4> QED
        BY <1>2, <3>2, <4>1, <4>2, <4>3, <4>4, SMTT(20)
    <3> QED
      BY <2>1, <3>1, <3>2 DEF Answered
  <2>2. CASE Computes(c, h)
    <3>1. PICK answer \in PendingAnswer : pending' = [pending EXCEPT ![c] = Append(@, answer)]
      BY <2>2 DEF Computes
    <3>2. pending'[c] = Append(pending[c], answer) /\ \A d \in Connection \ {c} : pending'[d] = pending[d]
      BY <1>6, <3>1
    <3>3. Len(pending'[c]) = Len(pending[c]) + 1
      BY <1>1, <3>2
    <3>4. toClient' = toClient /\ h \in Asks
      BY <2>2 DEF Computes
    <3> QED
      BY <1>2, <3>2, <3>3, <3>4
  <2>3. Answered(c, h) \/ Computes(c, h)
    BY DEF h
  <2> QED
    BY <2>1, <2>2, <2>3
<1>8. client' = client
  OBVIOUS
<1> HIDE DEF Sends
<1>9. Talk(c)' <= Talk(c)
  <2>1. /\ Number(toClient'[c], Answers) \in Nat /\ Len(pending'[c]) \in Nat
        /\ Number(toClient'[c], Answers) + Len(pending'[c])
             <= Number(toClient[c], Answers) + Len(pending[c]) + (IF h \in Asks THEN 1 ELSE 0)
    BY <1>7 DEF Sends
  <2>2. Talk(c) = Number(toGateway[c], Asks) + Len(pending[c]) + Number(toClient[c], Answers)
                    + Cardinality(client[c].signing)
    BY DEF Talk
  <2>3. Talk(c)' = Number(toGateway'[c], Asks) + Len(pending'[c]) + Number(toClient'[c], Answers)
                     + Cardinality(client[c].signing)
    BY <1>8 DEF Talk
  <2>4. (IF h \in Asks THEN 1 ELSE 0) \in Nat
    OBVIOUS
  <2>5. Number(toGateway'[c], Asks) + Len(pending'[c]) + Number(toClient'[c], Answers)
           + Cardinality(client[c].signing)
        <= Number(toGateway[c], Asks) + Len(pending[c]) + Number(toClient[c], Answers)
             + Cardinality(client[c].signing)
    BY <1>2, <1>3, <2>1, <2>4, PassedOn
  <2> QED
    BY <2>2, <2>3, <2>5
<1>10. Places(c)' <= Places(c)
  <2> DEFINE one == IF client[c].isRegistered THEN 1 ELSE 0
  <2>1. one \in Nat
    OBVIOUS
  <2>2. /\ Number(toClient'[c], Registered) \in Nat
        /\ Number(toClient'[c], Registered)
             <= Number(toClient[c], Registered) + (IF h \in Registers THEN 1 ELSE 0)
    BY <1>7 DEF Sends
  <2>3. Places(c) = Number(toGateway[c], Registers) + Number(toClient[c], Registered) + client[c].checks + one
    BY DEF Places
  <2>4. Places(c)' = Number(toGateway'[c], Registers) + Number(toClient'[c], Registered)
                       + client[c].checks + one
    BY <1>8 DEF Places
  <2> HIDE DEF one
  <2>5. CASE h \in Registers
    BY <1>2, <1>4, <2>1, <2>2, <2>3, <2>4, <2>5, SMTT(20)
  <2>6. CASE h \notin Registers
    BY <1>2, <1>4, <2>1, <2>2, <2>3, <2>4, <2>6
  <2> QED
    BY <2>5, <2>6
<1>11. h \in Registers => Places(c) >= 1
  <2>1. (IF client[c].isRegistered THEN 1 ELSE 0) \in Nat
    OBVIOUS
  <2> QED
    BY <1>2, <1>4, <2>1, SMTT(20) DEF Places
<1>12. device' = device \/ (h \in Registers /\ \A d \in Connection \ {c} : device'[d] = device[d])
  BY DEF h
<1>13. PassesOn(c)
  BY <1>8, <1>9, <1>10, <1>11, <1>12 DEF PassesOn
<1>14. OthersSame(c)
  BY <1>5, <1>7, <1>8, <1>12 DEF Sends, OthersSame
<1> QED
  BY <1>13, <1>14

\* Each handler that reads a frame.
LEMMA GatewayReadsTurn ==
  ASSUME Typed, NEW c \in Connection, GatewayReads(c), UNCHANGED client
  PROVE  OthersSame(c) /\ PassesOn(c)
<1> DEFINE h == Head(toGateway[c])
<1>1. \A code \in {"AUTHENTICATION_REQUIRED", "NOT_REGISTERED", "VALIDATION", "ACCOUNT_NOT_FOUND",
                   "ACCOUNT_CHALLENGE_INVALID", "ACCOUNT_SIGNATURE_REJECTED", "UNSUPPORTED"} :
        /\ ErrorFrame(code) \in GatewayFrame /\ ErrorFrame(code) \notin Registered
        /\ code \in {"AUTHENTICATION_REQUIRED", "NOT_REGISTERED"} => ErrorFrame(code) \notin Answers
  BY ErrorIsAFrame DEF ErrorFrame, Registered, Answers, AccountErrorCodes
<1>2. CASE RefuseOutsideSession(c)
  <2>1. PICK type : Reads(c, type) /\ Send(c, ErrorFrame("AUTHENTICATION_REQUIRED"))
                    /\ pending' = pending /\ device' = device
    BY <1>2 DEF RefuseOutsideSession
  <2>2. Answered(c, h)
    BY <1>1, <2>1 DEF Answered
  <2> QED
    BY <2>1, <2>2, ReadsPassOn
<1>3. CASE DeviceAuthenticate(c)
  <2>1. Reads(c, "deviceAuthenticate") /\ pending' = pending /\ device' = device
    BY <1>3 DEF DeviceAuthenticate
  <2>2. Send(c, [type |-> "deviceAuthenticated"]) \/ Send(c, ErrorFrame("AUTHENTICATION_REQUIRED"))
    BY <1>3 DEF DeviceAuthenticate
  <2>3. /\ [type |-> "deviceAuthenticated"] \in GatewayFrame
        /\ [type |-> "deviceAuthenticated"] \notin Answers
        /\ [type |-> "deviceAuthenticated"] \notin Registered
    BY DEF GatewayFrame, Answers, Registered
  <2>4. Answered(c, h)
    BY <1>1, <2>1, <2>2, <2>3 DEF Answered
  <2> QED
    BY <2>1, <2>4, ReadsPassOn
<1>4. CASE PipelinesGet(c)
  <2>1. Reads(c, "pipelines.get") /\ pending' = pending /\ device' = device /\ Send(c, [type |-> "pipelines"])
    BY <1>4 DEF PipelinesGet, ReadsInSession
  <2>2. [type |-> "pipelines"] \in GatewayFrame /\ [type |-> "pipelines"] \notin Answers
    BY DEF GatewayFrame, Answers
  <2>3. h \in Registers
    BY <2>1, ReadsTakes DEF Registers
  <2>4. Answered(c, h)
    BY <2>1, <2>2, <2>3 DEF Answered
  <2> QED
    BY <2>1, <2>4, ReadsPassOn
<1>5. CASE DeviceRegister(c)
  <2>1. Reads(c, "deviceRegister") /\ pending' = pending
    BY <1>5 DEF DeviceRegister, ReadsInSession
  <2>2. h \in ClientFrame /\ h.type = "deviceRegister"
    BY <2>1, ReadsTakes
  <2>3. h \in Registers
    BY <2>2 DEF Registers
  <2>4. [type |-> "deviceRegistered"] \in GatewayFrame /\ [type |-> "deviceRegistered"] \notin Answers
    BY DEF GatewayFrame, Answers
  <2>5. \/ ~h.areStagesDefined /\ device' = device /\ Send(c, ErrorFrame("VALIDATION"))
        \/ device' = [device EXCEPT ![c] = h.role] /\ Send(c, [type |-> "deviceRegistered"])
    BY <1>5 DEF DeviceRegister
  <2>6. ~h.areStagesDefined => h \in Asks
    BY <2>2 DEF Asks
  <2> HIDE DEF h
  <2>7. Answered(c, h)
    BY <1>1, <2>1, <2>3, <2>4, <2>5, <2>6 DEF Answered
  <2>8. device' = device \/ \A d \in Connection \ {c} : device'[d] = device[d]
    BY <2>5 DEF Typed, GatewayTypeOK
  <2> QED
    BY <2>1, <2>3, <2>7, <2>8, ReadsPassOn DEF h
<1>6. CASE Work(c)
  <2>1. Reads(c, "work") /\ pending' = pending /\ device' = device
    BY <1>6 DEF Work, ReadsInSession
  <2>2. toClient' = toClient \/ Send(c, ErrorFrame("NOT_REGISTERED"))
    BY <1>6 DEF Work
  <2>3. Answered(c, h)
    BY <1>1, <2>1, <2>2 DEF Answered
  <2> QED
    BY <2>1, <2>3, ReadsPassOn
<1>7. CASE AccountRegister(c)
  <2>1. /\ Reads(c, "account.register") /\ device' = device /\ toClient' = toClient
        /\ pending' = [pending EXCEPT ![c] = Append(@, [step |-> "register", account |-> h.account])]
    BY <1>7 DEF AccountRegister, ReadsInSession
  <2>2. h \in ClientFrame /\ h.type = "account.register"
    BY <2>1, ReadsTakes
  <2>3. h \in Asks
    BY <2>2 DEF Asks
  <2>4. h.account \in Account
    BY <2>2, FrameFields
  <2> HIDE DEF h
  <2>5. [step |-> "register", account |-> h.account] \in PendingAnswer
    BY <2>4 DEF PendingAnswer
  <2>6. Computes(c, h)
    BY <2>1, <2>3, <2>5 DEF Computes
  <2> QED
    BY <2>1, <2>6, ReadsPassOn DEF h
<1>8. CASE ChallengeRequest(c)
  <2> DEFINE reply == [type |-> "account.challenge", value |-> Len(issued) + 1]
  <2>1. /\ Reads(c, "account.challenge.request") /\ pending' = pending /\ device' = device
        /\ Send(c, reply) /\ Len(issued) < MaxChallenges
    BY <1>8 DEF ChallengeRequest, ReadsInSession
  <2>2. h \in ClientFrame /\ h.type = "account.challenge.request"
    BY <2>1, ReadsTakes
  <2>3. h \in Asks
    BY <2>2 DEF Asks
  <2>4. Len(issued) + 1 \in Challenge
    BY <2>1, GatewayAccountsAssumption DEF Typed, GatewayTypeOK, Challenge
  <2>5. reply \in GatewayFrame /\ reply \notin Registered
    BY <2>4 DEF GatewayFrame, Registered
  <2> HIDE DEF reply
  <2>6. Answered(c, h)
    BY <2>1, <2>3, <2>5 DEF Answered
  <2> QED
    BY <2>1, <2>6, ReadsPassOn
<1>9. CASE AccountAuthenticate(c)
  <2> DEFINE answer == [step |-> "verify", account |-> h.account, value |-> challenge[c].value,
                        signature |-> h.signature]
  <2>1. Reads(c, "account.authenticate") /\ device' = device
    BY <1>9 DEF AccountAuthenticate, ReadsInSession
  <2>2. h \in ClientFrame /\ h.type = "account.authenticate"
    BY <2>1, ReadsTakes
  <2>3. h \in Asks
    BY <2>2 DEF Asks
  <2>4. h.account \in Account /\ h.signature \in Signature
    BY <2>2, FrameFields
  <2>5. \/ pending' = pending /\ \/ Send(c, ErrorFrame("ACCOUNT_NOT_FOUND"))
                                 \/ Send(c, ErrorFrame("ACCOUNT_CHALLENGE_INVALID"))
        \/ /\ challenge[c] # None /\ toClient' = toClient
           /\ pending' = [pending EXCEPT ![c] = Append(@, answer)]
    BY <1>9 DEF AccountAuthenticate
  <2>6. challenge[c] # None => challenge[c].value \in Challenge
    BY DEF Typed, GatewayTypeOK
  <2> HIDE DEF h
  <2>7. challenge[c] # None => answer \in PendingAnswer
    BY <2>4, <2>6 DEF PendingAnswer
  <2> HIDE DEF answer
  <2>8. Answered(c, h) \/ Computes(c, h)
    BY <1>1, <2>3, <2>5, <2>7 DEF Answered, Computes
  <2> QED
    BY <2>1, <2>8, ReadsPassOn DEF h
<1> QED
  BY <1>2, <1>3, <1>4, <1>5, <1>6, <1>7, <1>8, <1>9 DEF GatewayReads

\* Each answer that was being computed, and each frame that is sent for it.
LEMMA GatewayAnswersTurn ==
  ASSUME Typed, NEW c \in Connection, GatewayAnswers(c), UNCHANGED client
  PROVE  OthersSame(c) /\ PassesOn(c)
<1>1. PICK i \in DOMAIN pending[c] :
        RegisterAccount(c, i) \/ VerifySignature(c, i) \/ VerificationThrows(c, i)
  BY DEF GatewayAnswers
<1>2. /\ toGateway[c] \in Seq(ClientFrame) /\ toClient[c] \in Seq(GatewayFrame)
      /\ pending[c] \in Seq(PendingAnswer) /\ client[c] \in ClientRecord
  BY TurnTyped
<1>3. /\ Number(toGateway[c], Asks) \in Nat /\ Number(toGateway[c], Registers) \in Nat
      /\ Number(toClient[c], Answers) \in Nat /\ Number(toClient[c], Registered) \in Nat
      /\ Len(pending[c]) \in Nat /\ Cardinality(client[c].signing) \in Nat
      /\ client[c].checks \in Nat
  BY <1>2, TurnParts
<1>4. /\ pending' = [pending EXCEPT ![c] = RemoveAt(@, i)]
      /\ toGateway' = toGateway /\ device' = device
  BY <1>1 DEF RegisterAccount, VerifySignature, VerificationThrows
<1>5. pending \in [Connection -> Seq(PendingAnswer)]
  BY DEF Typed, GatewayTypeOK, PendingAnswer
<1>6. /\ pending'[c] = RemoveAt(pending[c], i)
      /\ \A d \in Connection \ {c} : pending'[d] = pending[d]
  BY <1>4, <1>5
<1>7. Len(pending'[c]) = Len(pending[c]) - 1
  BY <1>2, <1>6, RemoveAtShortens
<1>8. Len(pending[c]) >= 1
  BY <1>2
<1>9. PICK frame \in GatewayFrame : Send(c, frame) /\ frame \notin Registered
  <2>1. \A code \in {"AUTHENTICATION_REQUIRED", "NOT_REGISTERED", "VALIDATION", "ACCOUNT_NOT_FOUND",
                     "ACCOUNT_CHALLENGE_INVALID", "ACCOUNT_SIGNATURE_REJECTED", "UNSUPPORTED"} :
          ErrorFrame(code) \in GatewayFrame /\ ErrorFrame(code) \notin Registered
    BY ErrorIsAFrame DEF ErrorFrame, Registered
  <2>2. pending[c][i] \in PendingAnswer
    BY <1>2
  <2>3. pending[c][i].account \in Account
    BY <2>2, PendingAnswerFields
  <2>4. CASE RegisterAccount(c, i)
    <3>1. Send(c, [type |-> "account.registered"]) \/ Send(c, ErrorFrame("UNSUPPORTED"))
      BY <2>4 DEF RegisterAccount
    <3>2. /\ [type |-> "account.registered"] \in GatewayFrame
          /\ [type |-> "account.registered"] \notin Registered
      BY DEF GatewayFrame, Registered
    <3> QED
      BY <2>1, <3>1, <3>2
  <2>5. CASE VerifySignature(c, i)
    <3> DEFINE reply == [type |-> "account.authenticated", account |-> pending[c][i].account]
    <3>1. \/ Send(c, ErrorFrame("ACCOUNT_SIGNATURE_REJECTED"))
          \/ Send(c, ErrorFrame("AUTHENTICATION_REQUIRED"))
          \/ Send(c, reply)
      BY <2>5 DEF VerifySignature
    <3>2. reply \in GatewayFrame /\ reply \notin Registered
      BY <2>3 DEF GatewayFrame, Registered
    <3> HIDE DEF reply
    <3> QED
      BY <2>1, <3>1, <3>2
  <2>6. CASE VerificationThrows(c, i)
    <3>1. Send(c, ErrorFrame("UNSUPPORTED"))
      BY <2>6 DEF VerificationThrows
    <3> QED
      BY <2>1, <3>1
  <2> QED
    BY <1>1, <2>4, <2>5, <2>6
<1>10. /\ Number(toClient'[c], Answers) \in Nat
       /\ Number(toClient'[c], Answers)
            <= Number(toClient[c], Answers) + (IF frame \in Answers THEN 1 ELSE 0)
  BY <1>9, SendCount
<1>11. /\ Number(toClient'[c], Registered) \in Nat
       /\ Number(toClient'[c], Registered)
            <= Number(toClient[c], Registered) + (IF frame \in Registered THEN 1 ELSE 0)
  BY <1>9, SendCount
<1>12. \A d \in Connection \ {c} : toClient'[d] = toClient[d]
  BY <1>9, SendCount
<1>13. Talk(c)' <= Talk(c)
  <2>1. Talk(c) = Number(toGateway[c], Asks) + Len(pending[c]) + Number(toClient[c], Answers)
                    + Cardinality(client[c].signing)
    BY DEF Talk
  <2>2. Talk(c)' = Number(toGateway[c], Asks) + Len(pending'[c]) + Number(toClient'[c], Answers)
                     + Cardinality(client[c].signing)
    BY <1>4 DEF Talk
  <2>3. Number(toClient'[c], Answers) <= Number(toClient[c], Answers) + 1
    BY <1>3, <1>10
  <2> QED
    BY <1>3, <1>7, <1>10, <2>1, <2>2, <2>3
<1>14. Places(c)' <= Places(c)
  <2> DEFINE one == IF client[c].isRegistered THEN 1 ELSE 0
  <2>1. one \in Nat
    OBVIOUS
  <2>2. Places(c) = Number(toGateway[c], Registers) + Number(toClient[c], Registered) + client[c].checks + one
    BY DEF Places
  <2>3. Places(c)' = Number(toGateway[c], Registers) + Number(toClient'[c], Registered)
                       + client[c].checks + one
    BY <1>4 DEF Places
  <2>4. Number(toClient'[c], Registered) <= Number(toClient[c], Registered)
    BY <1>3, <1>9, <1>11
  <2> HIDE DEF one
  <2> QED
    BY <1>3, <1>11, <2>1, <2>2, <2>3, <2>4
<1>15. PassesOn(c)
  BY <1>4, <1>13, <1>14 DEF PassesOn
<1>16. OthersSame(c)
  BY <1>4, <1>6, <1>12 DEF OthersSame
<1> QED
  BY <1>15, <1>16

\* Time passing, and the close of a connection, send nothing.
LEMMA GatewayTimeTurn ==
  ASSUME Typed, NEW c \in Connection, UNCHANGED client,
         SessionLapses(c) \/ ChallengeLapses(c) \/ CloseConnection(c)
  PROVE  OthersSame(c) /\ PassesOn(c)
<1>1. /\ pending' = pending /\ toClient' = toClient
      /\ \/ toGateway' = toGateway /\ device' = device
         \/ toGateway' = [toGateway EXCEPT ![c] = <<>>] /\ device' = [device EXCEPT ![c] = None]
  BY DEF SessionLapses, ChallengeLapses, CloseConnection
<1>2. /\ toGateway[c] \in Seq(ClientFrame) /\ toClient[c] \in Seq(GatewayFrame)
      /\ pending[c] \in Seq(PendingAnswer) /\ client[c] \in ClientRecord
  BY TurnTyped
<1>3. /\ Number(toGateway[c], Asks) \in Nat /\ Number(toGateway[c], Registers) \in Nat
      /\ Number(toClient[c], Answers) \in Nat /\ Number(toClient[c], Registered) \in Nat
      /\ Len(pending[c]) \in Nat /\ Cardinality(client[c].signing) \in Nat
      /\ client[c].checks \in Nat
  BY <1>2, TurnParts
<1>4. /\ \A d \in Connection \ {c} : toGateway'[d] = toGateway[d] /\ device'[d] = device[d]
      /\ device'[c] # None => device[c] # None
      /\ toGateway'[c] \in {toGateway[c], <<>>}
  BY <1>1 DEF Typed, GatewayTypeOK
<1>5. /\ Number(toGateway'[c], Asks) \in {0, Number(toGateway[c], Asks)}
      /\ Number(toGateway'[c], Registers) \in {0, Number(toGateway[c], Registers)}
  BY <1>4, NumberOfNone
<1>6. Talk(c)' <= Talk(c)
  <2>1. Talk(c) = Number(toGateway[c], Asks) + Len(pending[c]) + Number(toClient[c], Answers)
                    + Cardinality(client[c].signing)
    BY DEF Talk
  <2>2. Talk(c)' = Number(toGateway'[c], Asks) + Len(pending[c]) + Number(toClient[c], Answers)
                     + Cardinality(client[c].signing)
    BY <1>1 DEF Talk
  <2> QED
    BY <1>3, <1>5, <2>1, <2>2
<1>7. Places(c)' <= Places(c)
  <2> DEFINE one == IF client[c].isRegistered THEN 1 ELSE 0
  <2>1. one \in Nat
    OBVIOUS
  <2>2. Places(c) = Number(toGateway[c], Registers) + Number(toClient[c], Registered) + client[c].checks + one
    BY DEF Places
  <2>3. Places(c)' = Number(toGateway'[c], Registers) + Number(toClient[c], Registered)
                       + client[c].checks + one
    BY <1>1 DEF Places
  <2> HIDE DEF one
  <2> QED
    BY <1>3, <1>5, <2>1, <2>2, <2>3
<1> QED
  BY <1>1, <1>4, <1>6, <1>7 DEF PassesOn, OthersSame

\* A client that sends one frame, if its socket still takes it.
LEMMA ClientSendsCount ==
  ASSUME Typed, NEW c \in Connection, NEW frame \in ClientFrame, ClientSends(c, <<frame>>), NEW kind
  PROVE  /\ Number(toGateway[c], kind) \in Nat /\ Number(toGateway'[c], kind) \in Nat
         /\ Number(toGateway'[c], kind) <= Number(toGateway[c], kind) + (IF frame \in kind THEN 1 ELSE 0)
         /\ \A d \in Connection \ {c} : toGateway'[d] = toGateway[d]
<1>1. toGateway \in [Connection -> Seq(ClientFrame)]
  BY DEF Typed, GatewayTypeOK
<1>2. toGateway[c] \in Seq(ClientFrame)
  BY <1>1
<1>3. Number(toGateway[c], kind) \in Nat
  BY <1>2, NumberIsNat
<1>4. CASE isOpen[c] /\ client[c].isOpen
  <2>1. /\ toGateway'[c] = toGateway[c] \o <<frame>>
        /\ \A d \in Connection \ {c} : toGateway'[d] = toGateway[d]
    BY <1>1, <1>4 DEF ClientSends
  <2>2. toGateway[c] \o <<frame>> = Append(toGateway[c], frame)
    BY <1>2
  <2>3. Number(Append(toGateway[c], frame), kind)
          = Number(toGateway[c], kind) + (IF frame \in kind THEN 1 ELSE 0)
    BY <1>2, NumberAppend
  <2>4. Number(toGateway'[c], kind) = Number(toGateway[c], kind) + (IF frame \in kind THEN 1 ELSE 0)
    BY <2>1, <2>2, <2>3
  <2>5. (IF frame \in kind THEN 1 ELSE 0) \in Nat
    OBVIOUS
  <2>6. Number(toGateway'[c], kind) \in Nat
    BY <1>3, <2>4, <2>5
  <2>7. Number(toGateway'[c], kind) <= Number(toGateway[c], kind) + (IF frame \in kind THEN 1 ELSE 0)
    BY <2>4, <2>6
  <2> QED
    BY <1>3, <2>1, <2>6, <2>7
<1>5. CASE ~(isOpen[c] /\ client[c].isOpen)
  <2>1. toGateway' = toGateway
    BY <1>5 DEF ClientSends
  <2> QED
    BY <1>3, <2>1
<1> QED
  BY <1>4, <1>5

\* One that has nothing to send.
LEMMA ClientSendsNone ==
  ASSUME Typed, NEW c \in Connection, ClientSends(c, <<>>)
  PROVE  \A d \in Connection : toGateway'[d] = toGateway[d]
<1>1. toGateway \in [Connection -> Seq(ClientFrame)]
  BY DEF Typed, GatewayTypeOK
<1>2. toGateway[c] \o <<>> = toGateway[c]
  BY <1>1
<1> QED
  BY <1>1, <1>2 DEF ClientSends

\* A frame the client reads.
LEMMA ReceivesCount ==
  ASSUME Typed, NEW c \in Connection, toClient[c] # <<>>,
         toClient' = [toClient EXCEPT ![c] = Tail(@)], NEW kind
  PROVE  /\ Number(toClient'[c], kind) \in Nat
         /\ Number(toClient[c], kind) =
              Number(toClient'[c], kind) + (IF Head(toClient[c]) \in kind THEN 1 ELSE 0)
         /\ \A d \in Connection \ {c} : toClient'[d] = toClient[d]
<1>1. toClient \in [Connection -> Seq(GatewayFrame)]
  BY DEF Typed, GatewayTypeOK
<1>2. toClient[c] \in Seq(GatewayFrame) /\ toClient'[c] = Tail(toClient[c])
  BY <1>1
<1>3. Tail(toClient[c]) \in Seq(GatewayFrame)
  BY <1>2
<1> QED
  BY <1>1, <1>2, <1>3, NumberTail, NumberIsNat

-----------------------------------------------------------------------------
(* What a client does with a frame h: it becomes z and sends frames        *)

SameClient(k, z) ==
  z.role = k.role /\ z.hasKeyPair = k.hasKeyPair /\ z.isOpen = k.isOpen

SameHand(k, z) == z.signing = k.signing /\ z.checks = k.checks /\ z.isRegistered = k.isRegistered

\* Nothing for the turn.
NotItsTurn(k, z, frames) ==
  SameClient(k, z) /\ SameHand(k, z) /\ z.conversation = k.conversation /\ frames = <<>>

\* It hears of its registration.
HearsRegistered(k, z, h, frames) ==
  /\ SameClient(k, z) /\ z.conversation = k.conversation /\ z.signing = k.signing /\ frames = <<>>
  /\ h \in Registered
  /\ \/ z.checks = k.checks + 1 /\ z.isRegistered = k.isRegistered
     \/ z.checks = k.checks /\ z.isRegistered = TRUE

\* It answers in its conversation: it asks on, or begins to sign.
AsksOn(k, z, h, frames) ==
  /\ SameClient(k, z) /\ SameHand(k, z) /\ z.conversation = k.conversation /\ h \in Answers
  /\ \E f \in Asks \ Registers : frames = <<f>>

SignsNext(k, z, h, frames) ==
  /\ SameClient(k, z) /\ z.conversation = k.conversation /\ frames = <<>> /\ h \in Answers
  /\ \E v \in Challenge : z.signing = k.signing \cup {v}
  /\ z.checks = k.checks /\ z.isRegistered = k.isRegistered

OpensConversation(k, z, frames) ==
  /\ SameClient(k, z) /\ SameHand(k, z) /\ k.conversation = "none" /\ z.conversation = "open"
  /\ \E f \in Asks \ Registers : frames = <<f>>

EndsConversation(k, z, frames) ==
  /\ SameClient(k, z) /\ SameHand(k, z) /\ k.conversation = "open" /\ z.conversation = "settled"
  /\ frames = <<>> \/ \E f \in Registers \ Asks : frames = <<f>>

\* settle, of a client that holds a key pair.
LEMMA SettleTurn ==
  ASSUME Typed, NEW c \in Connection, RunsConversation(c)
  PROVE  LET s == Settle(c)
         IN  \/ client[c].conversation # "open" /\ s.client = client[c] /\ s.frames = <<>>
             \/ EndsConversation(client[c], s.client, s.frames)
<1>1. client[c] \in ClientRecord
  BY TurnTyped
<1>2. CASE client[c].conversation # "open"
  BY <1>2 DEF Settle, Nothing
<1>3. CASE client[c].conversation = "open"
  <2> DEFINE z == [client[c] EXCEPT !.conversation = "settled"]
  <2>1. Settle(c) = [client |-> z, frames |-> OnSettled(c)]
    BY <1>3 DEF Settle
  <2>2. Settle(c).client = z /\ Settle(c).frames = OnSettled(c)
    BY <2>1
  <2>3. SameClient(client[c], z) /\ SameHand(client[c], z) /\ z.conversation = "settled"
    BY <1>1 DEF ClientRecord, SameClient, SameHand
  <2> HIDE DEF z
  <2>4. Type("pipelines.get") \in Registers \ Asks
    BY DEF Type, Registers, Asks, ClientFrame
  <2>5. Registration(c) \in Registers \ Asks
    <3>1. client[c].role \in {"worker", "consumer"}
      BY DEF RunsConversation
    <3>2. Registration(c) \in ClientFrame
      BY <3>1 DEF Registration, ClientFrame
    <3>3. Registration(c).type = "deviceRegister" /\ Registration(c).areStagesDefined = TRUE
      BY DEF Registration
    <3> QED
      BY <3>2, <3>3 DEF Registers, Asks
  <2>6. OnSettled(c) = <<>> \/ \E f \in Registers \ Asks : OnSettled(c) = <<f>>
    BY <2>4, <2>5 DEF OnSettled
  <2> QED
    BY <1>3, <2>2, <2>3, <2>6 DEF EndsConversation
<1> QED
  BY <1>2, <1>3

\* What a frame of the gateway makes a client do with its turn.
TurnOf(k, h, r) ==
  \/ NotItsTurn(k, r.client, r.frames)
  \/ HearsRegistered(k, r.client, h, r.frames)
  \/ AsksOn(k, r.client, h, r.frames)
  \/ SignsNext(k, r.client, h, r.frames)
  \/ OpensConversation(k, r.client, r.frames)
  \/ EndsConversation(k, r.client, r.frames) /\ h \in Answers
  \/ SameClient(k, r.client) /\ ~k.hasKeyPair

\* Every reaction of a client is one of these.
LEMMA ReactionTurn ==
  ASSUME Typed, NEW c \in Connection, RunsConversation(c), NEW h \in GatewayFrame
  PROVE  TurnOf(client[c], h, Reaction(c, h))
<1> DEFINE k == client[c]
<1>1. k \in ClientRecord
  BY TurnTyped
<1>2. TurnOf(k, h, Nothing(c))
  <2>1. Nothing(c).client = k /\ Nothing(c).frames = <<>>
    BY DEF Nothing
  <2> QED
    BY <2>1 DEF TurnOf, NotItsTurn, SameClient, SameHand
<1>3. h \in Answers => TurnOf(k, h, Settle(c))
  <2>1. CASE client[c].conversation # "open" /\ Settle(c).client = client[c] /\ Settle(c).frames = <<>>
    BY <2>1 DEF TurnOf, NotItsTurn, SameClient, SameHand
  <2>2. CASE EndsConversation(client[c], Settle(c).client, Settle(c).frames)
    BY <2>2 DEF TurnOf
  <2> QED
    BY <2>1, <2>2, SettleTurn
<1>4. TurnOf(k, h, OnDeviceAuthenticated(c))
  <2> DEFINE register == [type |-> "account.register", account |-> AccountOf[c]]
             renewing == [client[c] EXCEPT !.isRenewing = TRUE]
             opening  == [renewing EXCEPT !.conversation = "open"]
  <2>1. register \in Asks \ Registers
    BY GatewayAccountsAssumption DEF ClientFrame, Asks, Registers
  <2>2. /\ SameClient(k, renewing) /\ SameHand(k, renewing)
        /\ renewing.conversation = k.conversation
    BY <1>1 DEF ClientRecord, SameClient, SameHand
  <2>3. SameClient(k, opening) /\ SameHand(k, opening) /\ opening.conversation = "open"
    BY <1>1 DEF ClientRecord, SameClient, SameHand
  <2>4. \/ OnDeviceAuthenticated(c) = [client |-> renewing, frames |-> <<>>]
        \/ /\ OnDeviceAuthenticated(c) = [client |-> opening, frames |-> <<register>>]
           /\ k.conversation = "none"
        \/ /\ OnDeviceAuthenticated(c) = [client |-> renewing, frames |-> OnSettled(c)]
           /\ ~k.hasKeyPair
    BY DEF OnDeviceAuthenticated
  <2> HIDE DEF register, renewing, opening
  <2>5. NotItsTurn(k, renewing, <<>>)
    BY <2>2 DEF NotItsTurn
  <2>6. k.conversation = "none" => OpensConversation(k, opening, <<register>>)
    BY <2>1, <2>3 DEF OpensConversation
  <2> QED
    BY <2>2, <2>4, <2>5, <2>6 DEF TurnOf
<1>5. /\ h.type = "deviceRegistered" =>
           TurnOf(k, h, [client |-> [client[c] EXCEPT !.isRegistered = TRUE], frames |-> <<>>])
      /\ h.type = "pipelines" =>
           TurnOf(k, h, [client |-> [client[c] EXCEPT !.checks = @ + 1], frames |-> <<>>])
  <2> DEFINE y == [client[c] EXCEPT !.isRegistered = TRUE]
             z == [client[c] EXCEPT !.checks = @ + 1]
  <2>1. h.type \in {"deviceRegistered", "pipelines"} => h \in Registered
    BY DEF Registered
  <2>2. /\ SameClient(k, y) /\ y.conversation = k.conversation /\ y.signing = k.signing
        /\ y.checks = k.checks /\ y.isRegistered = TRUE
    BY <1>1 DEF ClientRecord, SameClient
  <2>3. /\ SameClient(k, z) /\ z.conversation = k.conversation /\ z.signing = k.signing
        /\ z.checks = k.checks + 1 /\ z.isRegistered = k.isRegistered
    BY <1>1 DEF ClientRecord, SameClient
  <2> HIDE DEF y, z
  <2>4. h \in Registered => HearsRegistered(k, y, h, <<>>) /\ HearsRegistered(k, z, h, <<>>)
    BY <2>2, <2>3 DEF HearsRegistered
  <2> QED
    BY <2>1, <2>4 DEF TurnOf, y, z
<1>6. h.type = "account.challenge" =>
        TurnOf(k, h, [client |-> [client[c] EXCEPT !.signing = @ \cup {h.value}], frames |-> <<>>])
  <2> SUFFICES ASSUME h.type = "account.challenge"
               PROVE  TurnOf(k, h, [client |-> [client[c] EXCEPT !.signing = @ \cup {h.value}],
                                    frames |-> <<>>])
    OBVIOUS
  <2> DEFINE z == [client[c] EXCEPT !.signing = @ \cup {h.value}]
  <2>1. h.value \in Challenge
    BY GatewayFrameFields
  <2>2. h \in Answers
    BY DEF Answers
  <2>3. /\ SameClient(k, z) /\ z.conversation = k.conversation /\ z.signing = k.signing \cup {h.value}
        /\ z.checks = k.checks /\ z.isRegistered = k.isRegistered
    BY <1>1 DEF ClientRecord, SameClient
  <2> HIDE DEF z
  <2>4. SignsNext(k, z, h, <<>>)
    BY <2>1, <2>2, <2>3 DEF SignsNext
  <2> QED
    BY <2>4 DEF TurnOf, z
<1>7. h.type = "account.registered" =>
        TurnOf(k, h, [client |-> client[c], frames |-> <<Type("account.challenge.request")>>])
  <2>1. Type("account.challenge.request") \in Asks \ Registers
    BY DEF Type, Asks, Registers, ClientFrame
  <2>2. h.type = "account.registered" => h \in Answers
    BY DEF Answers
  <2> QED
    BY <2>1, <2>2 DEF TurnOf, AsksOn, SameClient, SameHand
<1>8. h.type = "account.authenticated" => h \in Answers
  BY DEF Answers
<1>9. h.type = "error" => TurnOf(k, h, OnError(c, h.code))
  <2>1. h.type = "error" /\ h.code \in AccountErrorCodes => h \in Answers
    BY DEF Answers
  <2> QED
    BY <1>2, <1>3, <2>1 DEF OnError
<1>10. h.type \in {"deviceAuthenticated", "account.registered", "pipelines",
                   "deviceRegistered", "account.challenge", "account.authenticated", "error"}
  BY DEF GatewayFrame
<1>11. \/ Reaction(c, h) = OnDeviceAuthenticated(c)
       \/ /\ h.type = "deviceRegistered"
          /\ Reaction(c, h) = [client |-> [client[c] EXCEPT !.isRegistered = TRUE], frames |-> <<>>]
       \/ /\ h.type = "pipelines"
          /\ Reaction(c, h) = [client |-> [client[c] EXCEPT !.checks = @ + 1], frames |-> <<>>]
       \/ Reaction(c, h) = Nothing(c)
       \/ /\ Reaction(c, h) = InConversation(c, h)
          /\ h.type \in {"account.registered", "account.challenge", "account.authenticated", "error"}
  BY <1>10 DEF Reaction
<1>12. h.type \in {"account.registered", "account.challenge", "account.authenticated", "error"} =>
         TurnOf(k, h, InConversation(c, h))
  <2> SUFFICES ASSUME h.type \in {"account.registered", "account.challenge", "account.authenticated", "error"}
               PROVE  TurnOf(k, h, InConversation(c, h))
    OBVIOUS
  <2>1. \/ /\ h.type = "account.registered"
           /\ InConversation(c, h) = [client |-> client[c], frames |-> <<Type("account.challenge.request")>>]
        \/ /\ h.type = "account.challenge"
           /\ InConversation(c, h) =
                [client |-> [client[c] EXCEPT !.signing = @ \cup {h.value}], frames |-> <<>>]
        \/ h.type = "account.authenticated" /\ InConversation(c, h) = Settle(c)
        \/ h.type = "error" /\ InConversation(c, h) = OnError(c, h.code)
    BY DEF InConversation
  <2> QED
    BY <1>3, <1>6, <1>7, <1>8, <1>9, <2>1
<1> HIDE DEF k
<1>13. TurnOf(k, h, Reaction(c, h))
  BY <1>2, <1>4, <1>5, <1>11, <1>12
<1> QED
  BY <1>13 DEF k

\* The parts of Talk and Places, by name.
Asked(c) == Number(toGateway[c], Asks)
Told(c) == Number(toClient[c], Answers)
Signing(c) == Cardinality(client[c].signing)
Placed(c) == Number(toGateway[c], Registers)
Confirmed(c) == Number(toClient[c], Registered)
Checking(c) == client[c].checks
Holding(c) == IF client[c].isRegistered THEN 1 ELSE 0

\* What the turn adds up to before and after a step that computes no answer.
LEMMA TurnSums ==
  ASSUME Typed, Typed', NEW c \in Connection, UNCHANGED pending
  PROVE  /\ Asked(c) \in Nat /\ Told(c) \in Nat /\ Signing(c) \in Nat
         /\ Asked(c)' \in Nat /\ Told(c)' \in Nat /\ Signing(c)' \in Nat
         /\ Placed(c) \in Nat /\ Confirmed(c) \in Nat /\ Checking(c) \in Nat /\ Holding(c) \in {0, 1}
         /\ Placed(c)' \in Nat /\ Confirmed(c)' \in Nat /\ Checking(c)' \in Nat /\ Holding(c)' \in {0, 1}
         /\ Len(pending[c]) \in Nat
         /\ Talk(c) = Asked(c) + Len(pending[c]) + Told(c) + Signing(c)
         /\ Talk(c)' = Asked(c)' + Len(pending[c]) + Told(c)' + Signing(c)'
         /\ Places(c) = Placed(c) + Confirmed(c) + Checking(c) + Holding(c)
         /\ Places(c)' = Placed(c)' + Confirmed(c)' + Checking(c)' + Holding(c)'
<1>1. /\ toGateway[c] \in Seq(ClientFrame) /\ toClient[c] \in Seq(GatewayFrame)
      /\ pending[c] \in Seq(PendingAnswer) /\ client[c] \in ClientRecord
  BY TurnTyped
<1>2. /\ toGateway'[c] \in Seq(ClientFrame) /\ toClient'[c] \in Seq(GatewayFrame)
      /\ client'[c] \in ClientRecord
  BY DEF Typed, GatewayTypeOK, ClientTyped
<1>3. /\ Asked(c) \in Nat /\ Told(c) \in Nat /\ Signing(c) \in Nat /\ Len(pending[c]) \in Nat
      /\ Placed(c) \in Nat /\ Confirmed(c) \in Nat /\ Checking(c) \in Nat /\ Holding(c) \in {0, 1}
  BY <1>1, TurnParts DEF Asked, Told, Signing, Placed, Confirmed, Checking, Holding
<1>4. /\ Asked(c)' \in Nat /\ Told(c)' \in Nat /\ Signing(c)' \in Nat
      /\ Placed(c)' \in Nat /\ Confirmed(c)' \in Nat /\ Checking(c)' \in Nat /\ Holding(c)' \in {0, 1}
  BY <1>1, <1>2, TurnParts DEF Asked, Told, Signing, Placed, Confirmed, Checking, Holding
<1>5. /\ Talk(c) = Asked(c) + Len(pending[c]) + Told(c) + Signing(c)
      /\ Places(c) = Placed(c) + Confirmed(c) + Checking(c) + Holding(c)
  BY DEF Talk, Places, Asked, Told, Signing, Placed, Confirmed, Checking, Holding
<1>6. /\ Talk(c)' = Asked(c)' + Len(pending[c]) + Told(c)' + Signing(c)'
      /\ Places(c)' = Placed(c)' + Confirmed(c)' + Checking(c)' + Holding(c)'
  BY DEF Talk, Places, Asked, Told, Signing, Placed, Confirmed, Checking, Holding
<1> QED
  BY <1>3, <1>4, <1>5, <1>6

\* A step of a client is about its own connection.
LEMMA ClientStepOthers ==
  ASSUME Typed, NEW c \in Connection, ClientStep(c)
  PROVE  /\ OthersSame(c) /\ UNCHANGED <<pending, device>>
         /\ client'[c].role = client[c].role /\ client'[c].hasKeyPair = client[c].hasKeyPair
<1>1. /\ client \in [Connection -> ClientRecord] /\ client[c] \in ClientRecord
      /\ toGateway \in [Connection -> Seq(ClientFrame)]
      /\ toClient \in [Connection -> Seq(GatewayFrame)]
  BY DEF Typed, ClientTyped, GatewayTypeOK
<1> DEFINE Whole(z) == z.role = client[c].role /\ z.hasKeyPair = client[c].hasKeyPair
<1>2. UNCHANGED <<pending, device>>
  BY DEF ClientStep, ReceiveFrame, OfferStages, RenewSession, DoWork, Sign, SignFails, OtherSends,
         OtherReceives, LinkFails, ClientCloses, OnlyClient, gatewayVars
<1>3. \A d \in Connection \ {c} : toClient'[d] = toClient[d]
  BY <1>1 DEF ClientStep, ReceiveFrame, OfferStages, RenewSession, DoWork, Sign, SignFails, OtherSends,
              OtherReceives, LinkFails, ClientCloses, gatewayVars
<1>4. \A d \in Connection \ {c} : toGateway'[d] = toGateway[d]
  BY <1>1 DEF ClientStep, ReceiveFrame, OfferStages, RenewSession, DoWork, Sign, SignFails, OtherSends,
              OtherReceives, LinkFails, ClientCloses, gatewayVars, ClientSends
<1>5. client' = client \/ \E z : client' = [client EXCEPT ![c] = z] /\ Whole(z)
  <2>1. CASE client' = client
    BY <2>1
  <2>2. CASE ReceiveFrame(c)
    <3>1. client' = [client EXCEPT ![c] = Reaction(c, Head(toClient[c])).client]
      BY <2>2 DEF ReceiveFrame
    <3>2. Head(toClient[c]) \in GatewayFrame /\ RunsConversation(c)
      BY <1>1, <2>2 DEF ReceiveFrame
    <3>3. TurnOf(client[c], Head(toClient[c]), Reaction(c, Head(toClient[c])))
      BY <3>2, ReactionTurn
    <3>4. Whole(Reaction(c, Head(toClient[c])).client)
      BY <3>3 DEF TurnOf, SameClient, NotItsTurn, HearsRegistered, AsksOn, SignsNext,
                  OpensConversation, EndsConversation
    <3> QED
      BY <3>1, <3>4
  <2>3. CASE OfferStages(c)
    <3>1. client' = [client EXCEPT ![c] = [client[c] EXCEPT !.checks = client[c].checks - 1]]
      BY <2>3 DEF OfferStages
    <3>2. Whole([client[c] EXCEPT !.checks = client[c].checks - 1])
      BY <1>1 DEF ClientRecord
    <3> QED
      BY <3>1, <3>2
  <2>4. CASE RenewSession(c)
    <3>1. client' = [client EXCEPT ![c] = [client[c] EXCEPT !.isRenewing = FALSE]]
      BY <2>4 DEF RenewSession
    <3>2. Whole([client[c] EXCEPT !.isRenewing = FALSE])
      BY <1>1 DEF ClientRecord
    <3> QED
      BY <3>1, <3>2
  <2>5. ASSUME NEW v \in client[c].signing, Sign(c, v)
        PROVE  \E z : client' = [client EXCEPT ![c] = z] /\ Whole(z)
    <3>1. client' = [client EXCEPT ![c] = [client[c] EXCEPT !.signing = client[c].signing \ {v}]]
      BY <2>5 DEF Sign
    <3>2. Whole([client[c] EXCEPT !.signing = client[c].signing \ {v}])
      BY <1>1 DEF ClientRecord
    <3> QED
      BY <3>1, <3>2
  <2>6. ASSUME NEW v \in client[c].signing, SignFails(c, v), RunsConversation(c)
        PROVE  \E z : client' = [client EXCEPT ![c] = z] /\ Whole(z)
    <3> DEFINE e == Settle(c).client
               z == [e EXCEPT !.signing = e.signing \ {v}]
    <3>1. client' = [client EXCEPT ![c] = z]
      BY <2>6 DEF SignFails
    <3>2. e \in ClientRecord /\ SameClient(client[c], e)
      BY <1>1, <2>6, SettleReaction, SettleTurn DEF SameClient, EndsConversation
    <3> HIDE DEF e
    <3>3. Whole(z)
      BY <3>2 DEF SameClient, ClientRecord
    <3> QED
      BY <3>1, <3>3
  <2>7. CASE ClientCloses(c)
    <3> DEFINE z == [client[c] EXCEPT !.isOpen = FALSE, !.conversation = "none",
                                      !.isRegistered = FALSE, !.isRenewing = FALSE,
                                      !.signing = {}, !.checks = 0]
    <3>1. client' = [client EXCEPT ![c] = z]
      BY <2>7 DEF ClientCloses
    <3>2. Whole(z)
      BY <1>1 DEF ClientRecord
    <3> QED
      BY <3>1, <3>2
  <2> QED
    BY <2>1, <2>2, <2>3, <2>4, <2>5, <2>6, <2>7 DEF ClientStep, DoWork, OtherSends, OtherReceives,
                                                         LinkFails
<1>6. (\A d \in Connection \ {c} : client'[d] = client[d]) /\ Whole(client'[c])
  BY <1>1, <1>5
<1> QED
  BY <1>2, <1>3, <1>4, <1>6 DEF OthersSame

\* What a client sends adds to the turn at most the frames of its kinds.
LEMMA SendsToTurn ==
  ASSUME Typed, NEW c \in Connection, NEW frames, ClientSends(c, frames),
         frames = <<>> \/ \E f \in ClientFrame : frames = <<f>>
  PROVE  /\ Asked(c)' <= Asked(c) + 1 /\ Placed(c)' <= Placed(c) + 1
         /\ frames = <<>> \/ (\E f \in ClientFrame \ Asks : frames = <<f>>) => Asked(c)' <= Asked(c)
         /\ frames = <<>> \/ (\E f \in ClientFrame \ Registers : frames = <<f>>) => Placed(c)' <= Placed(c)
<1>1. Asked(c) \in Nat /\ Placed(c) \in Nat
  BY TurnTyped, NumberIsNat DEF Asked, Placed
<1>2. CASE frames = <<>>
  <2>1. toGateway'[c] = toGateway[c]
    BY <1>2, ClientSendsNone
  <2>2. Asked(c)' = Asked(c) /\ Placed(c)' = Placed(c)
    BY <2>1 DEF Asked, Placed
  <2> QED
    BY <1>1, <2>2
<1>3. ASSUME NEW f \in ClientFrame, frames = <<f>>
      PROVE  /\ Asked(c)' <= Asked(c) + 1 /\ Placed(c)' <= Placed(c) + 1
             /\ f \notin Asks => Asked(c)' <= Asked(c)
             /\ f \notin Registers => Placed(c)' <= Placed(c)
  <2>1. ClientSends(c, <<f>>)
    BY <1>3
  <2>2. /\ Asked(c)' \in Nat
        /\ Asked(c)' <= Asked(c) + (IF f \in Asks THEN 1 ELSE 0)
    BY <2>1, ClientSendsCount DEF Asked
  <2>3. /\ Placed(c)' \in Nat
        /\ Placed(c)' <= Placed(c) + (IF f \in Registers THEN 1 ELSE 0)
    BY <2>1, ClientSendsCount DEF Placed
  <2> QED
    BY <1>1, <2>2, <2>3
<1>4. ASSUME NEW f \in ClientFrame, NEW g \in ClientFrame, <<f>> = <<g>>
      PROVE  f = g
  BY <1>4
<1>5. ASSUME NEW f \in ClientFrame, <<f>> = <<>>
      PROVE  FALSE
  BY <1>5
<1>6. ASSUME NEW f \in ClientFrame, frames = <<f>>
      PROVE  /\ frames # <<>>
             /\ (\E g \in ClientFrame \ Asks : frames = <<g>>) => f \notin Asks
             /\ (\E g \in ClientFrame \ Registers : frames = <<g>>) => f \notin Registers
  BY <1>4, <1>5, <1>6
<1> QED
  BY <1>2, <1>3, <1>6

\* A frame of the gateway passes the turn on, begins the conversation or settles it.
LEMMA ReceiveTurn ==
  ASSUME Typed, Typed', NEW c \in Connection, ReceiveFrame(c), Converses(c),
         UNCHANGED <<pending, device>>
  PROVE  PassesOn(c) \/ Begins(c) \/ Settles(c)
<1> DEFINE h == Head(toClient[c])
           r == Reaction(c, h)
           k == client[c]
           asked == Asked(c)
           askedThen == Asked(c)'
           told == Told(c)
           toldThen == Told(c)'
           signing == Signing(c)
           signingThen == Signing(c)'
           placed == Placed(c)
           placedThen == Placed(c)'
           confirmed == Confirmed(c)
           confirmedThen == Confirmed(c)'
           checking == Checking(c)
           checkingThen == Checking(c)'
           holding == Holding(c)
           holdingThen == Holding(c)'
           talk == Talk(c)
           talkThen == Talk(c)'
           places == Places(c)
           placesThen == Places(c)'
<1>1. /\ client \in [Connection -> ClientRecord] /\ k \in ClientRecord
      /\ toClient[c] \in Seq(GatewayFrame) /\ toClient[c] # <<>> /\ h \in GatewayFrame
      /\ k.isOpen /\ k.hasKeyPair
  BY TurnTyped DEF Typed, ClientTyped, ReceiveFrame, Converses
<1>2. /\ client'[c] = r.client /\ ClientSends(c, r.frames)
      /\ toClient' = [toClient EXCEPT ![c] = Tail(@)]
  BY <1>1 DEF ReceiveFrame
<1>3. TurnOf(k, h, r)
  BY <1>1, ReactionTurn DEF Converses
<1>4. Asks \subseteq ClientFrame /\ Registers \subseteq ClientFrame
  BY DEF Asks, Registers
<1>5. ~(h \in Answers /\ h \in Registered)
  BY DEF Answers, Registered
<1> HIDE DEF h, r, k
<1>6. /\ told = toldThen + (IF h \in Answers THEN 1 ELSE 0)
      /\ confirmed = confirmedThen + (IF h \in Registered THEN 1 ELSE 0)
  BY <1>1, <1>2, ReceivesCount DEF Told, Confirmed, h
<1>7. /\ asked \in Nat /\ told \in Nat /\ signing \in Nat
      /\ askedThen \in Nat /\ toldThen \in Nat /\ signingThen \in Nat
      /\ placed \in Nat /\ confirmed \in Nat /\ checking \in Nat /\ holding \in {0, 1}
      /\ placedThen \in Nat /\ confirmedThen \in Nat /\ checkingThen \in Nat /\ holdingThen \in {0, 1}
      /\ Len(pending[c]) \in Nat
      /\ talk = asked + Len(pending[c]) + told + signing
      /\ talkThen = askedThen + Len(pending[c]) + toldThen + signingThen
      /\ places = placed + confirmed + checking + holding
      /\ placesThen = placedThen + confirmedThen + checkingThen + holdingThen
  BY TurnSums
<1> HIDE DEF asked, askedThen, told, toldThen, signing, signingThen, placed, placedThen,
             confirmed, confirmedThen, checking, checkingThen, holding, holdingThen,
             talk, talkThen, places, placesThen
<1>8. /\ toldThen <= told /\ confirmedThen <= confirmed
      /\ h \in Answers => toldThen = told - 1
      /\ h \in Registered => confirmedThen = confirmed - 1
  BY <1>6, <1>7
<1>9. r.client.signing = k.signing => signingThen = signing
  BY <1>2 DEF Signing, signing, signingThen, k
<1>10. /\ r.client.checks = k.checks => checkingThen = checking
       /\ r.client.checks = k.checks + 1 => checkingThen = checking + 1
  BY <1>2 DEF Checking, checking, checkingThen, k
<1>11. r.client.isRegistered = k.isRegistered => holdingThen = holding
  BY <1>2 DEF Holding, holding, holdingThen, k
<1>12. SameHand(k, r.client) =>
         signingThen = signing /\ checkingThen = checking /\ holdingThen = holding
  BY <1>9, <1>10, <1>11 DEF SameHand
<1>13. SameClient(k, r.client) => client'[c].isOpen = client[c].isOpen /\ client[c].isOpen
  BY <1>1, <1>2 DEF SameClient, k
<1>14. client'[c].conversation = r.client.conversation /\ client[c].conversation = k.conversation
  BY <1>2 DEF k
<1>15. r.frames = <<>> => askedThen <= asked /\ placedThen <= placed
  BY <1>2, SendsToTurn DEF asked, askedThen, placed, placedThen
<1>16. (\E f \in Asks \ Registers : r.frames = <<f>>) =>
         askedThen <= asked + 1 /\ placedThen <= placed
  BY <1>2, <1>4, SendsToTurn DEF asked, askedThen, placed, placedThen
<1>17. (\E f \in Registers \ Asks : r.frames = <<f>>) =>
         askedThen <= asked /\ placedThen <= placed + 1
  BY <1>2, <1>4, SendsToTurn DEF asked, askedThen, placed, placedThen
<1>18. CASE NotItsTurn(k, r.client, r.frames)
  <2>1. /\ SameClient(k, r.client) /\ SameHand(k, r.client) /\ r.frames = <<>>
        /\ r.client.conversation = k.conversation
    BY <1>18 DEF NotItsTurn
  <2>2. talkThen <= talk /\ placesThen <= places
    BY <1>7, <1>8, <1>12, <1>15, <2>1
  <2> QED
    BY <1>13, <1>14, <2>1, <2>2 DEF PassesOn, talk, talkThen, places, placesThen
<1>19. CASE HearsRegistered(k, r.client, h, r.frames)
  <2>1. /\ SameClient(k, r.client) /\ r.client.conversation = k.conversation
        /\ r.client.signing = k.signing /\ r.frames = <<>> /\ h \in Registered
        /\ \/ r.client.checks = k.checks + 1 /\ r.client.isRegistered = k.isRegistered
           \/ r.client.checks = k.checks /\ r.client.isRegistered = TRUE
    BY <1>19 DEF HearsRegistered
  <2>2. talkThen <= talk
    BY <1>7, <1>8, <1>9, <1>15, <2>1
  <2>3. checkingThen + holdingThen <= checking + holding + 1
    BY <1>7, <1>10, <1>11, <2>1
  <2>4. placesThen <= places
    BY <1>7, <1>8, <1>15, <2>1, <2>3
  <2> QED
    BY <1>13, <1>14, <2>1, <2>2, <2>4 DEF PassesOn, talk, talkThen, places, placesThen
<1>20. CASE AsksOn(k, r.client, h, r.frames)
  <2>1. /\ SameClient(k, r.client) /\ SameHand(k, r.client) /\ h \in Answers
        /\ r.client.conversation = k.conversation
        /\ \E f \in Asks \ Registers : r.frames = <<f>>
    BY <1>20 DEF AsksOn
  <2>2. talkThen <= talk /\ placesThen <= places
    BY <1>7, <1>8, <1>12, <1>16, <2>1
  <2> QED
    BY <1>13, <1>14, <2>1, <2>2 DEF PassesOn, talk, talkThen, places, placesThen
<1>21. CASE SignsNext(k, r.client, h, r.frames)
  <2>1. /\ SameClient(k, r.client) /\ r.client.conversation = k.conversation
        /\ r.frames = <<>> /\ h \in Answers
        /\ r.client.checks = k.checks /\ r.client.isRegistered = k.isRegistered
    BY <1>21 DEF SignsNext
  <2>2. signingThen <= signing + 1
    <3>1. PICK v \in Challenge : r.client.signing = k.signing \cup {v}
      BY <1>21 DEF SignsNext
    <3>2. IsFiniteSet(k.signing)
      BY <1>1, TurnTyped, TurnParts DEF k
    <3>3. \/ Cardinality(k.signing \cup {v}) = Cardinality(k.signing) + 1
          \/ k.signing \cup {v} = k.signing
      BY <3>2, FS_AddElement
    <3>4. signingThen = Cardinality(k.signing \cup {v}) /\ signing = Cardinality(k.signing)
      BY <1>2, <3>1 DEF Signing, signing, signingThen, k
    <3>5. signingThen = signing + 1 \/ signingThen = signing
      BY <3>3, <3>4
    <3> QED
      BY <1>7, <3>5
  <2>3. talkThen <= talk /\ placesThen <= places
    BY <1>7, <1>8, <1>10, <1>11, <1>15, <2>1, <2>2
  <2> QED
    BY <1>13, <1>14, <2>1, <2>3 DEF PassesOn, talk, talkThen, places, placesThen
<1>22. CASE OpensConversation(k, r.client, r.frames)
  <2>1. /\ SameClient(k, r.client) /\ SameHand(k, r.client)
        /\ k.conversation = "none" /\ r.client.conversation = "open"
        /\ \E f \in Asks \ Registers : r.frames = <<f>>
    BY <1>22 DEF OpensConversation
  <2>2. /\ askedThen <= asked + 1 /\ placedThen <= placed
        /\ signingThen = signing /\ checkingThen = checking /\ holdingThen = holding
    BY <1>12, <1>16, <2>1
  <2>3. talkThen <= talk + 1 /\ placesThen <= places
    BY <1>7, <1>8, <2>2
  <2> QED
    BY <1>13, <1>14, <2>1, <2>3 DEF Begins, talk, talkThen, places, placesThen
<1>23. CASE EndsConversation(k, r.client, r.frames) /\ h \in Answers
  <2>1. /\ SameClient(k, r.client) /\ SameHand(k, r.client) /\ h \in Answers
        /\ k.conversation = "open" /\ r.client.conversation = "settled"
        /\ r.frames = <<>> \/ \E f \in Registers \ Asks : r.frames = <<f>>
    BY <1>23 DEF EndsConversation
  <2>2. askedThen <= asked /\ placedThen <= placed + 1
    BY <1>7, <1>15, <1>17, <2>1
  <2>3. talkThen + 1 <= talk /\ placesThen <= places + 1
    BY <1>7, <1>8, <1>12, <2>1, <2>2
  <2> QED
    BY <1>13, <1>14, <2>1, <2>3 DEF Settles, talk, talkThen, places, placesThen
<1>24. CASE ~k.hasKeyPair
  BY <1>1, <1>24 DEF k
<1> QED
  BY <1>3, <1>18, <1>19, <1>20, <1>21, <1>22, <1>23, <1>24 DEF TurnOf

\* A signature made, or not to be had, ends the signing.
LEMMA SigningEnds ==
  ASSUME Typed, NEW c \in Connection, NEW v \in client[c].signing,
         client'[c].signing = client[c].signing \ {v}
  PROVE  Signing(c)' = Signing(c) - 1
<1>1. IsFiniteSet(client[c].signing)
  BY TurnTyped, TurnParts
<1>2. Cardinality(client[c].signing \ {v}) = Cardinality(client[c].signing) - 1
  BY <1>1, FS_RemoveElement
<1> QED
  BY <1>2 DEF Signing

\* Every other step of a client that converses passes its turn on, settles or closes.
LEMMA ConversingStepTurn ==
  ASSUME Typed, Typed', NEW c \in Connection, ClientStep(c), Converses(c),
         UNCHANGED <<pending, device>>
  PROVE  PassesOn(c) \/ Begins(c) \/ Settles(c) \/ Closes(c)
<1> DEFINE k == client[c]
           asked == Asked(c)
           askedThen == Asked(c)'
           told == Told(c)
           toldThen == Told(c)'
           signing == Signing(c)
           signingThen == Signing(c)'
           placed == Placed(c)
           placedThen == Placed(c)'
           confirmed == Confirmed(c)
           confirmedThen == Confirmed(c)'
           checking == Checking(c)
           checkingThen == Checking(c)'
           holding == Holding(c)
           holdingThen == Holding(c)'
           talk == Talk(c)
           talkThen == Talk(c)'
           places == Places(c)
           placesThen == Places(c)'
<1>1. /\ client \in [Connection -> ClientRecord] /\ k \in ClientRecord
      /\ k.role \in {"worker", "consumer"} /\ RunsConversation(c)
      /\ AccountOf[c] \in Account /\ k.signing \subseteq Challenge
  BY TurnTyped, GatewayAccountsAssumption
     DEF Typed, ClientTyped, Converses, RunsConversation, ClientRecord
<1>2. /\ asked \in Nat /\ told \in Nat /\ signing \in Nat
      /\ askedThen \in Nat /\ toldThen \in Nat /\ signingThen \in Nat
      /\ placed \in Nat /\ confirmed \in Nat /\ checking \in Nat /\ holding \in {0, 1}
      /\ placedThen \in Nat /\ confirmedThen \in Nat /\ checkingThen \in Nat /\ holdingThen \in {0, 1}
      /\ Len(pending[c]) \in Nat
      /\ talk = asked + Len(pending[c]) + told + signing
      /\ talkThen = askedThen + Len(pending[c]) + toldThen + signingThen
      /\ places = placed + confirmed + checking + holding
      /\ placesThen = placedThen + confirmedThen + checkingThen + holdingThen
  BY TurnSums
<1>3. toClient' = toClient => toldThen = told /\ confirmedThen = confirmed
  BY DEF Told, Confirmed
<1>4. toGateway' = toGateway => askedThen = asked /\ placedThen = placed
  BY DEF Asked, Placed
<1>5. client'[c] = k => signingThen = signing /\ checkingThen = checking /\ holdingThen = holding
  BY DEF Signing, Checking, Holding
<1>6. \A f \in Asks \ Registers : ClientSends(c, <<f>>) => askedThen <= asked + 1 /\ placedThen <= placed
  <2>1. Asks \subseteq ClientFrame
    BY DEF Asks
  <2> QED
    BY <2>1, SendsToTurn
<1>7. \A f \in Registers \ Asks : ClientSends(c, <<f>>) => askedThen <= asked /\ placedThen <= placed + 1
  <2>1. Registers \subseteq ClientFrame
    BY DEF Registers
  <2> QED
    BY <2>1, SendsToTurn
<1>8. \A f \in ClientFrame \ (Asks \cup Registers) :
        ClientSends(c, <<f>>) => askedThen <= asked /\ placedThen <= placed
  BY SendsToTurn
<1>9. ClientSends(c, <<>>) => askedThen <= asked /\ placedThen <= placed
  BY SendsToTurn
<1> HIDE DEF k, asked, askedThen, told, toldThen, signing, signingThen, placed, placedThen,
             confirmed, confirmedThen, checking, checkingThen, holding, holdingThen,
             talk, talkThen, places, placesThen
<1>10. talkThen <= talk /\ placesThen <= places
         /\ client'[c].isOpen = k.isOpen /\ client'[c].conversation = k.conversation => PassesOn(c)
  BY DEF PassesOn, k, talk, talkThen, places, placesThen
<1>11. CASE ReceiveFrame(c)
  BY <1>11, ReceiveTurn
<1>12. CASE OfferStages(c)
  <2> DEFINE z == [k EXCEPT !.checks = k.checks - 1]
  <2>1. client' = [client EXCEPT ![c] = z] /\ toClient' = toClient
    BY <1>12 DEF OfferStages, k
  <2>2. z.signing = k.signing /\ z.checks = k.checks - 1 /\ z.isRegistered = k.isRegistered
        /\ z.isOpen = k.isOpen /\ z.conversation = k.conversation
    BY <1>1 DEF ClientRecord
  <2> HIDE DEF z
  <2>3. client'[c] = z
    BY <1>1, <2>1
  <2>4. signingThen = signing /\ checkingThen = checking - 1 /\ holdingThen = holding
    BY <2>2, <2>3 DEF Signing, Checking, Holding, signing, signingThen, checking, checkingThen,
                      holding, holdingThen, k
  <2>5. Registration(c) \in Registers \ Asks
    <3>1. Registration(c) \in ClientFrame
      BY <1>1 DEF Registration, ClientFrame, k
    <3>2. Registration(c).type = "deviceRegister" /\ Registration(c).areStagesDefined = TRUE
      BY DEF Registration
    <3> QED
      BY <3>1, <3>2 DEF Registers, Asks
  <2>6. ClientSends(c, <<Registration(c)>>) \/ toGateway' = toGateway
    BY <1>12 DEF OfferStages
  <2>7. askedThen <= asked /\ placedThen <= placed + 1
    BY <1>2, <1>4, <1>7, <2>5, <2>6
  <2>8. talkThen <= talk /\ placesThen <= places
    BY <1>2, <1>3, <2>1, <2>4, <2>7
  <2> QED
    BY <1>10, <2>2, <2>3, <2>8
<1>13. CASE RenewSession(c)
  <2> DEFINE z == [k EXCEPT !.isRenewing = FALSE]
  <2>1. client' = [client EXCEPT ![c] = z] /\ toClient' = toClient /\ ClientSends(c, <<Authenticate>>)
    BY <1>13 DEF RenewSession, k
  <2>2. z.signing = k.signing /\ z.checks = k.checks /\ z.isRegistered = k.isRegistered
        /\ z.isOpen = k.isOpen /\ z.conversation = k.conversation
    BY <1>1 DEF ClientRecord
  <2> HIDE DEF z
  <2>3. client'[c] = z
    BY <1>1, <2>1
  <2>4. signingThen = signing /\ checkingThen = checking /\ holdingThen = holding
    BY <2>2, <2>3 DEF Signing, Checking, Holding, signing, signingThen, checking, checkingThen,
                      holding, holdingThen, k
  <2>5. Authenticate \in ClientFrame \ (Asks \cup Registers)
    BY DEF Authenticate, ClientFrame, Asks, Registers
  <2>6. askedThen <= asked /\ placedThen <= placed
    BY <1>8, <2>1, <2>5
  <2>7. talkThen <= talk /\ placesThen <= places
    BY <1>2, <1>3, <2>1, <2>4, <2>6
  <2> QED
    BY <1>10, <2>2, <2>3, <2>7
<1>14. CASE DoWork(c)
  <2>1. client' = client /\ toClient' = toClient /\ ClientSends(c, <<Type("work")>>)
    BY <1>14 DEF DoWork
  <2>2. Type("work") \in ClientFrame \ (Asks \cup Registers)
    BY DEF Type, ClientFrame, Asks, Registers
  <2>3. askedThen <= asked /\ placedThen <= placed
    BY <1>8, <2>1, <2>2
  <2>4. client'[c] = k
    BY <2>1 DEF k
  <2>5. talkThen <= talk /\ placesThen <= places
    BY <1>2, <1>3, <1>5, <2>1, <2>3, <2>4
  <2> QED
    BY <1>10, <2>4, <2>5
<1>15. ASSUME NEW v \in client[c].signing, Sign(c, v)
       PROVE  PassesOn(c)
  <2> DEFINE z == [k EXCEPT !.signing = k.signing \ {v}]
             f == [type |-> "account.authenticate", account |-> AccountOf[c], signature |-> SignedBy(c, v)]
  <2>1. client' = [client EXCEPT ![c] = z] /\ toClient' = toClient /\ ClientSends(c, <<f>>)
    BY <1>15 DEF Sign, k
  <2>2. z.signing = k.signing \ {v} /\ z.checks = k.checks /\ z.isRegistered = k.isRegistered
        /\ z.isOpen = k.isOpen /\ z.conversation = k.conversation
    BY <1>1 DEF ClientRecord
  <2>3. f \in Asks \ Registers
    BY <1>1, <1>15, SignedByIsASignature DEF ClientFrame, Asks, Registers, k
  <2> HIDE DEF z, f
  <2>4. client'[c] = z
    BY <1>1, <2>1
  <2>5. checkingThen = checking /\ holdingThen = holding
    BY <2>2, <2>4 DEF Checking, Holding, checking, checkingThen, holding, holdingThen, k
  <2>6. signingThen = signing - 1
    BY <1>15, <2>2, <2>4, SigningEnds DEF signing, signingThen, k
  <2>7. askedThen <= asked + 1 /\ placedThen <= placed
    BY <1>6, <2>1, <2>3
  <2>8. talkThen <= talk /\ placesThen <= places
    BY <1>2, <1>3, <2>1, <2>5, <2>6, <2>7
  <2> QED
    BY <1>10, <2>2, <2>4, <2>8
<1>16. ASSUME NEW v \in client[c].signing, SignFails(c, v)
       PROVE  PassesOn(c) \/ Settles(c)
  <2> DEFINE e == Settle(c).client
             frames == Settle(c).frames
             z == [e EXCEPT !.signing = e.signing \ {v}]
  <2>1. client' = [client EXCEPT ![c] = z] /\ toClient' = toClient /\ ClientSends(c, frames)
    BY <1>16 DEF SignFails
  <2>2. e \in ClientRecord
    BY <1>1, SettleReaction
  <2>3. \/ k.conversation # "open" /\ e = k /\ frames = <<>>
        \/ EndsConversation(k, e, frames)
    BY <1>1, SettleTurn DEF k
  <2> HIDE DEF e, frames
  <2>4. z.signing = e.signing \ {v} /\ z.checks = e.checks /\ z.isRegistered = e.isRegistered
        /\ z.isOpen = e.isOpen /\ z.conversation = e.conversation
    BY <2>2 DEF ClientRecord
  <2>5. SameHand(k, e) /\ e.isOpen = k.isOpen
    BY <2>3 DEF EndsConversation, SameHand, SameClient
  <2> HIDE DEF z
  <2>6. client'[c] = z
    BY <1>1, <2>1
  <2>7. checkingThen = checking /\ holdingThen = holding
    BY <2>4, <2>5, <2>6 DEF SameHand, Checking, Holding, checking, checkingThen, holding, holdingThen, k
  <2>8. signingThen = signing - 1
    BY <1>16, <2>4, <2>5, <2>6, SigningEnds DEF SameHand, signing, signingThen, k
  <2>9. CASE e = k /\ frames = <<>>
    <3>1. askedThen <= asked /\ placedThen <= placed
      BY <1>9, <2>1, <2>9
    <3>2. talkThen <= talk /\ placesThen <= places
      BY <1>2, <1>3, <2>1, <2>7, <2>8, <3>1
    <3> QED
      BY <1>10, <2>4, <2>5, <2>6, <2>9, <3>2
  <2>10. CASE EndsConversation(k, e, frames)
    <3>1. /\ k.conversation = "open" /\ e.conversation = "settled"
          /\ frames = <<>> \/ \E f \in Registers \ Asks : frames = <<f>>
      BY <2>10 DEF EndsConversation
    <3>2. askedThen <= asked /\ placedThen <= placed + 1
      <4>1. CASE frames = <<>>
        <5>1. askedThen <= asked /\ placedThen <= placed
          BY <1>9, <2>1, <4>1
        <5> QED
          BY <1>2, <5>1
      <4>2. ASSUME NEW f \in Registers \ Asks, frames = <<f>>
            PROVE  askedThen <= asked /\ placedThen <= placed + 1
        <5>1. ClientSends(c, <<f>>)
          BY <2>1, <4>2
        <5> QED
          BY <1>7, <5>1
      <4> QED
        BY <3>1, <4>1, <4>2
    <3>3. talkThen + 1 <= talk /\ placesThen <= places + 1
      BY <1>2, <1>3, <2>1, <2>7, <2>8, <3>2
    <3> QED
      BY <2>4, <2>5, <2>6, <3>1, <3>3 DEF Settles, talk, talkThen, places, placesThen, k
  <2> QED
    BY <2>3, <2>9, <2>10
<1>17. CASE OtherSends(c) \/ OtherReceives(c)
  BY <1>1, <1>17 DEF OtherSends, OtherReceives, k
<1>18. CASE LinkFails(c)
  <2>1. client' = client /\ toClient' = toClient /\ toGateway' = toGateway
    BY <1>18 DEF LinkFails, gatewayVars
  <2>2. client'[c] = k
    BY <2>1 DEF k
  <2>3. talkThen <= talk /\ placesThen <= places
    BY <1>2, <1>3, <1>4, <1>5, <2>1, <2>2
  <2> QED
    BY <1>10, <2>2, <2>3
<1>19. CASE ClientCloses(c)
  <2> DEFINE z == [k EXCEPT !.isOpen = FALSE, !.conversation = "none", !.isRegistered = FALSE,
                            !.isRenewing = FALSE, !.signing = {}, !.checks = 0]
  <2>1. /\ client' = [client EXCEPT ![c] = z] /\ toGateway' = toGateway
        /\ toClient' = [toClient EXCEPT ![c] = <<>>]
    BY <1>19 DEF ClientCloses, k
  <2>2. z.signing = {} /\ z.checks = 0 /\ z.isRegistered = FALSE
        /\ z.isOpen = FALSE /\ z.conversation = "none"
    BY <1>1 DEF ClientRecord
  <2> HIDE DEF z
  <2>3. client'[c] = z
    BY <1>1, <2>1
  <2>4. signingThen = 0 /\ checkingThen = 0 /\ holdingThen = 0
    BY <2>2, <2>3, FS_EmptySet DEF Signing, Checking, Holding, signingThen, checkingThen, holdingThen
  <2>5. toClient'[c] = <<>>
    BY <2>1 DEF Typed, GatewayTypeOK
  <2>6. toldThen = 0 /\ confirmedThen = 0
    BY <2>5, NumberOfNone DEF Told, Confirmed, toldThen, confirmedThen
  <2>7. talkThen <= talk /\ placesThen <= places
    BY <1>2, <1>4, <2>1, <2>4, <2>6
  <2> QED
    BY <2>2, <2>3, <2>7 DEF Closes, talk, talkThen, places, placesThen
<1> QED
  BY <1>11, <1>12, <1>13, <1>14, <1>15, <1>16, <1>17, <1>18, <1>19 DEF ClientStep

\* At first every client has a token on its way, and no turn.
LEMMA InitTurns ==
  ASSUME Init
  PROVE  TurnInv
<1>1. PICK cast \in Casts :
        /\ pending = [c \in Connection |-> <<>>]
        /\ device = [c \in Connection |-> None]
        /\ toClient = [c \in Connection |-> <<>>]
        /\ \E keyPair \in [Connection -> BOOLEAN] :
             client = [c \in Connection |->
                        [role |-> cast[c].role, hasKeyPair |-> keyPair[c],
                         isOpen |-> cast[c].role # "absent", conversation |-> "none",
                         isRegistered |-> FALSE, isRenewing |-> FALSE, signing |-> {}, checks |-> 0]]
        /\ toGateway = [c \in Connection |-> IF cast[c].role # "absent" THEN <<Authenticate>> ELSE <<>>]
  <2> DEFINE Clients(cast, keyPair) ==
               [c \in Connection |->
                  [role |-> cast[c].role, hasKeyPair |-> keyPair[c],
                   isOpen |-> cast[c].role # "absent", conversation |-> "none",
                   isRegistered |-> FALSE, isRenewing |-> FALSE, signing |-> {}, checks |-> 0]]
  <2>1. PICK cast \in Casts :
          /\ GatewayInit
          /\ isOpen = [c \in Connection |-> cast[c].role # "absent"]
          /\ \E keyPair \in [Connection -> BOOLEAN] :
               /\ \A c \in Connection : cast[c].role \in {"worker", "consumer"} \/ keyPair[c]
               /\ client = Clients(cast, keyPair)
          /\ toGateway = [c \in Connection |-> IF cast[c].role # "absent" THEN <<Authenticate>> ELSE <<>>]
          /\ link = [c \in Connection |-> IF cast[c].role # "absent" THEN "up" ELSE "down"]
          /\ sent = [c \in Connection |-> MaxMessages - cast[c].messages]
          /\ signatures = {}
    BY Zenon DEF Init
  <2>2. PICK keyPair \in [Connection -> BOOLEAN] : client = Clients(cast, keyPair)
    BY <2>1
  <2>3. /\ pending = [c \in Connection |-> <<>>] /\ device = [c \in Connection |-> None]
        /\ toClient = [c \in Connection |-> <<>>]
    BY <2>1 DEF GatewayInit
  <2> QED
    BY <2>1, <2>2, <2>3
<1> SUFFICES ASSUME NEW c \in Connection
             PROVE  InTurn(c)
  BY DEF TurnInv
<1>2. /\ pending[c] = <<>> /\ device[c] = None /\ toClient[c] = <<>>
      /\ client[c].conversation = "none" /\ client[c].isRegistered = FALSE
      /\ client[c].signing = {} /\ client[c].checks = 0
      /\ toGateway[c] = <<>> \/ toGateway[c] = <<Authenticate>>
  BY <1>1
<1>3. ASSUME NEW kind, Authenticate \notin kind
      PROVE  Number(toGateway[c], kind) = 0
  <2>1. \A i \in DOMAIN toGateway[c] : toGateway[c][i] = Authenticate
    BY <1>2
  <2>2. {i \in DOMAIN toGateway[c] : toGateway[c][i] \in kind} = {}
    BY <1>3, <2>1
  <2> QED
    BY <2>2, FS_EmptySet DEF Number
<1>4. Authenticate \notin Asks /\ Authenticate \notin Registers
  BY DEF Authenticate, Asks, Registers
<1>5. Number(toGateway[c], Asks) = 0 /\ Number(toGateway[c], Registers) = 0
  BY <1>3, <1>4
<1>6. Number(toClient[c], Answers) = 0 /\ Number(toClient[c], Registered) = 0
  BY <1>2, NumberOfNone
<1>7. Cardinality(client[c].signing) = 0 /\ Len(pending[c]) = 0
  BY <1>2, FS_EmptySet
<1>8. Talk(c) = 0
  BY <1>5, <1>6, <1>7 DEF Talk
<1>9. Places(c) = 0
  BY <1>2, <1>5, <1>6 DEF Places
<1> QED
  BY <1>2, <1>8, <1>9 DEF InTurn

\* Every step of client or gateway keeps the turns.
LEMMA NextTurns ==
  ASSUME Typed, Typed', TurnInv, [Next]_vars
  PROVE  TurnInv'
<1>1. CASE UNCHANGED vars
  <2>1. /\ toGateway' = toGateway /\ toClient' = toClient /\ pending' = pending
        /\ device' = device /\ client' = client
    BY <1>1 DEF vars, gatewayVars
  <2>2. \A c \in Connection : Talk(c)' = Talk(c) /\ Places(c)' = Places(c)
    BY <2>1 DEF Talk, Places
  <2> QED
    BY <2>1, <2>2 DEF TurnInv, InTurn, Converses, RunsConversation
<1>2. CASE Next
  <2>1. PICK c \in Connection : GatewayStep(c) \/ ClientStep(c)
    BY <1>2 DEF Next
  <2>2. /\ OthersSame(c) /\ (Converses(c)' <=> Converses(c))
        /\ Converses(c) => PassesOn(c) \/ Begins(c) \/ Settles(c) \/ Closes(c)
    <3>1. CASE GatewayStep(c)
      <4>1. UNCHANGED client
        BY <3>1 DEF GatewayStep
      <4>2. OthersSame(c) /\ PassesOn(c)
        BY <3>1, <4>1, GatewayReadsTurn, GatewayAnswersTurn, GatewayTimeTurn DEF GatewayStep
      <4>3. Converses(c)' <=> Converses(c)
        BY <4>1 DEF Converses, RunsConversation
      <4> QED
        BY <4>2, <4>3
    <3>2. CASE ClientStep(c)
      <4>1. /\ OthersSame(c) /\ UNCHANGED <<pending, device>>
            /\ client'[c].role = client[c].role /\ client'[c].hasKeyPair = client[c].hasKeyPair
        BY <3>2, ClientStepOthers
      <4>2. Converses(c)' <=> Converses(c)
        BY <4>1 DEF Converses, RunsConversation
      <4> QED
        BY <3>2, <4>1, <4>2, ConversingStepTurn
    <3> QED
      BY <2>1, <3>1, <3>2
  <2>3. ASSUME NEW d \in Connection, Converses(d)'
        PROVE  InTurn(d)'
    <3>1. CASE d = c
      BY <2>2, <2>3, <3>1, TurnKept DEF TurnInv
    <3>2. CASE d # c
      BY <2>2, <2>3, <3>2, OthersKeep DEF TurnInv
    <3> QED
      BY <3>1, <3>2
  <2> QED
    BY <2>3 DEF TurnInv
<1> QED
  BY <1>1, <1>2

\* What is counted by type is counted by kind.
LEMMA UnderWayIsCounted ==
  ASSUME Typed, NEW c \in Connection
  PROVE  RegistrationsUnderWay(c) =
           Number(toGateway[c], Registers) + Number(toClient[c], Registered) + client[c].checks
<1>1. toGateway[c] \in Seq(ClientFrame) /\ toClient[c] \in Seq(GatewayFrame)
  BY TurnTyped
<1>2. {i \in DOMAIN toGateway[c] : toGateway[c][i].type \in {"pipelines.get", "deviceRegister"}}
        = {i \in DOMAIN toGateway[c] : toGateway[c][i] \in Registers}
  BY <1>1 DEF Registers
<1>3. {i \in DOMAIN toClient[c] : toClient[c][i].type \in {"pipelines", "deviceRegistered"}}
        = {i \in DOMAIN toClient[c] : toClient[c][i] \in Registered}
  BY <1>1 DEF Registered
<1> QED
  BY <1>2, <1>3 DEF RegistrationsUnderWay, Number

\* What the turns say of a client that registers.
LEMMA TurnsOrderRegistration ==
  ASSUME Typed, TurnInv
  PROVE  RegistersAfterConversation
<1> SUFFICES ASSUME NEW c \in Connection, Converses(c)
             PROVE  /\ client[c].isOpen /\ device[c] # None =>
                         client[c].conversation = "settled" /\ pending[c] = <<>>
                    /\ RegistrationsUnderWay(c) <= 1
                    /\ client[c].isRegistered => RegistrationsUnderWay(c) = 0
  BY DEF RegistersAfterConversation, Converses
<1> DEFINE talk == Talk(c)
           places == Places(c)
           underWay == RegistrationsUnderWay(c)
           held == Len(pending[c])
           rest == Number(toGateway[c], Asks) + Number(toClient[c], Answers) + Cardinality(client[c].signing)
           one == IF client[c].isRegistered THEN 1 ELSE 0
<1>1. /\ talk + places <= 1
      /\ client[c].isOpen /\ client[c].conversation = "settled" => talk = 0
      /\ client[c].isOpen /\ device[c] # None => client[c].conversation = "settled"
  BY DEF TurnInv, InTurn
<1>2. /\ toGateway[c] \in Seq(ClientFrame) /\ toClient[c] \in Seq(GatewayFrame)
      /\ pending[c] \in Seq(PendingAnswer) /\ client[c] \in ClientRecord
  BY TurnTyped
<1>3. /\ Number(toGateway[c], Asks) \in Nat /\ Number(toGateway[c], Registers) \in Nat
      /\ Number(toClient[c], Answers) \in Nat /\ Number(toClient[c], Registered) \in Nat
      /\ held \in Nat /\ Cardinality(client[c].signing) \in Nat /\ client[c].checks \in Nat
  BY <1>2, TurnParts
<1>4. rest \in Nat /\ talk = rest + held
  BY <1>3, SMTT(20) DEF Talk
<1>5. underWay \in Nat /\ places = underWay + one
  BY <1>3, UnderWayIsCounted DEF Places
<1>6. held = 0 => pending[c] = <<>>
  BY <1>2
<1>7. one = IF client[c].isRegistered THEN 1 ELSE 0
  OBVIOUS
<1> HIDE DEF talk, places, underWay, held, rest, one
<1>8. one \in {0, 1} /\ (client[c].isRegistered => one = 1)
  BY <1>7
<1>9. held \in Nat
  BY <1>3
<1>10. underWay <= 1 /\ (client[c].isRegistered => underWay = 0)
  BY <1>1, <1>4, <1>5, <1>8, <1>9
<1>11. client[c].isOpen /\ device[c] # None => held = 0
  BY <1>1, <1>4, <1>9
<1> QED
  BY <1>1, <1>6, <1>10, <1>11 DEF underWay

\* A client's conversation and its registration are one thing at a time, in that order.
THEOREM TurnsInductive == Spec => []TurnInv
<1>1. Init => TurnInv
  BY InitTurns
<1>2. ConnectionInv /\ ConnectionInv' /\ TurnInv /\ [Next]_vars => TurnInv'
  BY NextTurns DEF ConnectionInv
<1> QED
  BY <1>1, <1>2, ConnectionInductive, PTL DEF Spec

\* onSettled and registerOfferedStages: a client with a key pair registers once its
\* conversation is over, one registration at a time, and none once it is registered.
THEOREM RegistersInTurn == Spec => []RegistersAfterConversation
<1>1. ConnectionInv /\ TurnInv => RegistersAfterConversation
  BY TurnsOrderRegistration DEF ConnectionInv
<1> QED
  BY <1>1, ConnectionInductive, TurnsInductive, PTL

-----------------------------------------------------------------------------
(* Whose key it was                                                        *)

WasHanded(c, v) == v \in DOMAIN issued /\ issued[v] = c
IsHandedThen(c, v) == v \in DOMAIN issued' /\ issued'[v] = c

\* Challenges travel to the connection they were issued to, a client of the conversation signs
\* those only, and hence whoever signed what another was handed is a client of role "other".
HoldersInv ==
  /\ \A c \in Connection : \A i \in DOMAIN toClient[c] :
       toClient[c][i].type = "account.challenge" => WasHanded(c, toClient[c][i].value)
  /\ \A c \in Connection : RunsConversation(c) => \A v \in client[c].signing : WasHanded(c, v)
  /\ \A s \in signatures :
       s.value \in DOMAIN issued /\ (s.key = AccountOf[issued[s.value]] \/ SignsForOthers(s.key))

\* The gateway says one thing at a time, and a challenge only when it hands one out.
LEMMA GatewaySpeaks ==
  ASSUME Typed, NEW c \in Connection, GatewayStep(c)
  PROVE  /\ \/ toClient' = toClient
            \/ \E f \in GatewayFrame :
                 /\ toClient' = [toClient EXCEPT ![c] = Append(@, f)]
                 /\ f.type = "account.challenge" => IsHandedThen(c, f.value)
         /\ \A v \in DOMAIN issued : v \in DOMAIN issued' /\ issued'[v] = issued[v]
<1>1. issued \in Seq(Connection)
  BY DEF Typed, GatewayTypeOK
<1> DEFINE Quiet == toClient' = toClient
           Tells == \E f \in GatewayFrame : f.type # "account.challenge" /\ Send(c, f)
           Plainly == issued' = issued /\ (Quiet \/ Tells)
<1>2. CASE ChallengeRequest(c)
  <2> DEFINE n == Len(issued) + 1
             f == [type |-> "account.challenge", value |-> n]
  <2>1. Send(c, f) /\ n \in Challenge
    BY <1>1, <1>2, GatewayAccountsAssumption DEF ChallengeRequest, Challenge
  <2>2. issued' = Append(issued, c)
    BY <1>2 DEF ChallengeRequest
  <2>3. n \in DOMAIN issued' /\ issued'[n] = c
    BY <1>1, <2>2
  <2>4. \A v \in DOMAIN issued : v \in DOMAIN issued' /\ issued'[v] = issued[v]
    BY <1>1, <2>2
  <2> HIDE DEF n
  <2>5. f \in GatewayFrame /\ f.value = n
    BY <2>1 DEF GatewayFrame
  <2>6. IsHandedThen(c, f.value)
    BY <2>3, <2>5 DEF IsHandedThen
  <2> HIDE DEF f
  <2>7. toClient' = toClient \/ toClient' = [toClient EXCEPT ![c] = Append(@, f)]
    BY <2>1 DEF Send
  <2> QED
    BY <2>4, <2>5, <2>6, <2>7
<1>3. ASSUME Plainly
      PROVE  /\ \/ toClient' = toClient
                \/ \E f \in GatewayFrame :
                     /\ toClient' = [toClient EXCEPT ![c] = Append(@, f)]
                     /\ f.type = "account.challenge" => IsHandedThen(c, f.value)
             /\ \A v \in DOMAIN issued : v \in DOMAIN issued' /\ issued'[v] = issued[v]
  BY <1>3 DEF Send
<1>4. /\ \A code \in {"AUTHENTICATION_REQUIRED", "NOT_REGISTERED", "VALIDATION", "ACCOUNT_NOT_FOUND",
                      "ACCOUNT_CHALLENGE_INVALID", "ACCOUNT_SIGNATURE_REJECTED", "UNSUPPORTED"} :
           ErrorFrame(code) \in GatewayFrame /\ ErrorFrame(code).type # "account.challenge"
      /\ \A type \in {"deviceAuthenticated", "account.registered", "pipelines", "deviceRegistered"} :
           [type |-> type] \in GatewayFrame
      /\ \A account \in Account :
           [type |-> "account.authenticated", account |-> account] \in GatewayFrame
  BY ErrorIsAFrame DEF ErrorFrame, GatewayFrame
<1>5. (\E code \in {"AUTHENTICATION_REQUIRED", "NOT_REGISTERED", "VALIDATION", "ACCOUNT_NOT_FOUND",
                    "ACCOUNT_CHALLENGE_INVALID", "ACCOUNT_SIGNATURE_REJECTED", "UNSUPPORTED"} :
         Send(c, ErrorFrame(code))) => Tells
  BY <1>4
<1>6. ASSUME NEW type \in {"deviceAuthenticated", "account.registered", "pipelines", "deviceRegistered"},
             Send(c, [type |-> type])
      PROVE  Tells
  BY <1>4, <1>6
<1>7. ASSUME NEW account \in Account, Send(c, [type |-> "account.authenticated", account |-> account])
      PROVE  Tells
  BY <1>4, <1>7
<1>8. \A i \in DOMAIN pending[c] : pending[c][i].step = "verify" => pending[c][i].account \in Account
  <2>1. pending[c] \in Seq(PendingAnswer)
    BY DEF Typed, GatewayTypeOK, PendingAnswer
  <2> QED
    BY <2>1, PendingAnswerFields
<1> HIDE DEF Tells
<1>9. ASSUME RefuseOutsideSession(c)
      PROVE  Plainly
  BY <1>5, <1>9 DEF RefuseOutsideSession
<1>10. ASSUME DeviceAuthenticate(c)
       PROVE  Plainly
  BY <1>5, <1>6, <1>10 DEF DeviceAuthenticate
<1>11. ASSUME PipelinesGet(c)
       PROVE  Plainly
  BY <1>6, <1>11 DEF PipelinesGet
<1>12. ASSUME DeviceRegister(c)
       PROVE  Plainly
  BY <1>5, <1>6, <1>12 DEF DeviceRegister
<1>13. ASSUME Work(c)
       PROVE  Plainly
  BY <1>5, <1>13 DEF Work
<1>14. ASSUME AccountRegister(c)
       PROVE  Plainly
  BY <1>14 DEF AccountRegister
<1>15. ASSUME AccountAuthenticate(c)
       PROVE  Plainly
  BY <1>5, <1>15 DEF AccountAuthenticate
<1>16. ASSUME NEW i \in DOMAIN pending[c], RegisterAccount(c, i)
       PROVE  Plainly
  BY <1>5, <1>6, <1>16 DEF RegisterAccount
<1>17. ASSUME NEW i \in DOMAIN pending[c], VerifySignature(c, i)
       PROVE  Plainly
  BY <1>5, <1>7, <1>8, <1>17 DEF VerifySignature
<1>18. ASSUME NEW i \in DOMAIN pending[c], VerificationThrows(c, i)
       PROVE  Plainly
  BY <1>5, <1>18 DEF VerificationThrows
<1>19. ASSUME SessionLapses(c) \/ ChallengeLapses(c) \/ CloseConnection(c)
       PROVE  Plainly
  BY <1>19 DEF SessionLapses, ChallengeLapses, CloseConnection
<1>20. ChallengeRequest(c) \/ Plainly
  <2> HIDE DEF Plainly
  <2>1. CASE GatewayReads(c)
    BY <1>9, <1>10, <1>11, <1>12, <1>13, <1>14, <1>15, <2>1 DEF GatewayReads
  <2>2. CASE GatewayAnswers(c)
    BY <1>16, <1>17, <1>18, <2>2 DEF GatewayAnswers
  <2> QED
    BY <1>19, <2>1, <2>2 DEF GatewayStep
<1> QED
  BY <1>2, <1>3, <1>20

\* What a client of the conversation is to sign is what it was to sign, or what it just received.
LEMMA ReactionSigns ==
  ASSUME Typed, NEW c \in Connection, NEW frame \in GatewayFrame
  PROVE  \A v \in Reaction(c, frame).client.signing :
           v \in client[c].signing \/ (frame.type = "account.challenge" /\ v = frame.value)
<1> DEFINE Ok(r) == \A v \in r.client.signing :
                      v \in client[c].signing \/ (frame.type = "account.challenge" /\ v = frame.value)
           settled  == [client[c] EXCEPT !.conversation = "settled"]
           renewing == [client[c] EXCEPT !.isRenewing = TRUE]
           opening  == [renewing EXCEPT !.conversation = "open"]
           placed   == [client[c] EXCEPT !.isRegistered = TRUE]
           checking == [client[c] EXCEPT !.checks = @ + 1]
           signing  == [client[c] EXCEPT !.signing = @ \cup {frame.value}]
<1>1. client[c] \in ClientRecord
  BY DEF Typed, ClientTyped
<1>2. /\ settled.signing = client[c].signing /\ renewing.signing = client[c].signing
      /\ opening.signing = client[c].signing /\ placed.signing = client[c].signing
      /\ checking.signing = client[c].signing
      /\ signing.signing = client[c].signing \cup {frame.value}
  BY <1>1 DEF ClientRecord
<1>3. ASSUME NEW z, NEW frames, z.signing = client[c].signing
      PROVE  Ok([client |-> z, frames |-> frames])
  BY <1>3
<1>4. frame.type = "account.challenge" => Ok([client |-> signing, frames |-> <<>>])
  <2> HIDE DEF signing
  <2> QED
    BY <1>2
<1> HIDE DEF Ok, settled, renewing, opening, placed, checking, signing
<1>5. Ok(Nothing(c)) /\ Ok(Settle(c))
  BY <1>2, <1>3 DEF Nothing, Settle, settled
<1>6. Ok(OnDeviceAuthenticated(c))
  BY <1>2, <1>3 DEF OnDeviceAuthenticated, renewing, opening
<1>7. /\ Ok([client |-> placed, frames |-> <<>>]) /\ Ok([client |-> checking, frames |-> <<>>])
      /\ Ok([client |-> client[c], frames |-> <<Type("account.challenge.request")>>])
  BY <1>2, <1>3
<1>8. frame.type = "error" => Ok(OnError(c, frame.code))
  BY <1>5 DEF OnError
<1>9. frame.type \in {"deviceAuthenticated", "account.registered", "pipelines",
                      "deviceRegistered", "account.challenge", "account.authenticated", "error"}
  BY DEF GatewayFrame
<1>10. frame.type \in {"account.registered", "account.challenge", "account.authenticated", "error"} =>
         Ok(InConversation(c, frame))
  BY <1>4, <1>5, <1>7, <1>8 DEF InConversation, signing
<1>11. Ok(Reaction(c, frame))
  BY <1>5, <1>6, <1>7, <1>9, <1>10 DEF Reaction, placed, checking
<1> QED
  BY <1>11 DEF Ok

\* A step of the gateway keeps the holders.
LEMMA GatewayKeepsHolders ==
  ASSUME Typed, HoldersInv, NEW c \in Connection, GatewayStep(c)
  PROVE  HoldersInv'
<1>1. client' = client /\ signatures' = signatures
  BY DEF GatewayStep
<1>2. \A v \in DOMAIN issued : v \in DOMAIN issued' /\ issued'[v] = issued[v]
  BY GatewaySpeaks
<1>3. \A d \in Connection : \A v : WasHanded(d, v) => IsHandedThen(d, v)
  BY <1>2 DEF WasHanded, IsHandedThen
<1>4. ASSUME NEW d \in Connection, NEW i \in DOMAIN toClient'[d],
             toClient'[d][i].type = "account.challenge"
      PROVE  IsHandedThen(d, toClient'[d][i].value)
  <2>1. toClient \in [Connection -> Seq(GatewayFrame)] /\ toClient[c] \in Seq(GatewayFrame)
    BY DEF Typed, GatewayTypeOK
  <2>2. CASE i \in DOMAIN toClient[d] /\ toClient'[d][i] = toClient[d][i]
    BY <1>3, <1>4, <2>2 DEF HoldersInv
  <2>3. CASE ~(i \in DOMAIN toClient[d] /\ toClient'[d][i] = toClient[d][i])
    <3>1. PICK f \in GatewayFrame :
            /\ toClient' = [toClient EXCEPT ![c] = Append(@, f)]
            /\ f.type = "account.challenge" => IsHandedThen(c, f.value)
      BY <2>3, GatewaySpeaks
    <3>2. d = c /\ toClient'[c] = Append(toClient[c], f)
      BY <2>1, <2>3, <3>1
    <3>3. toClient'[d][i] = f
      BY <2>1, <2>3, <3>2, AppendedIs
    <3> QED
      BY <1>4, <3>1, <3>2, <3>3
  <2> QED
    BY <2>2, <2>3
<1>5. \A d \in Connection : RunsConversation(d)' => \A v \in client'[d].signing : IsHandedThen(d, v)
  BY <1>1, <1>3 DEF HoldersInv, RunsConversation
<1>6. \A s \in signatures' : s.value \in DOMAIN issued'
        /\ (s.key = AccountOf[issued'[s.value]] \/ SignsForOthers(s.key)')
  BY <1>1, <1>2 DEF HoldersInv, SignsForOthers
<1> QED
  BY <1>4, <1>5, <1>6 DEF HoldersInv, WasHanded, IsHandedThen

\* A step of a client hears what it was sent, of a queue that is not extended.
LEMMA ClientHears ==
  ASSUME Typed, NEW c \in Connection, ClientStep(c)
  PROVE  /\ issued' = issued
         /\ \/ toClient' = toClient
            \/ toClient[c] # <<>> /\ toClient' = [toClient EXCEPT ![c] = Tail(@)]
            \/ toClient' = [toClient EXCEPT ![c] = <<>>]
BY DEF ClientStep, ReceiveFrame, OfferStages, RenewSession, DoWork, Sign, SignFails, OtherSends,
       OtherReceives, LinkFails, ClientCloses, OnlyClient, gatewayVars

\* What a client of the conversation has to sign, it was handed.
LEMMA ClientSignsItsOwn ==
  ASSUME Typed, HoldersInv, NEW c \in Connection, ClientStep(c), RunsConversation(c)
  PROVE  \A v \in client'[c].signing : WasHanded(c, v)
<1> DEFINE k == client[c]
<1>1. /\ client \in [Connection -> ClientRecord] /\ k \in ClientRecord
      /\ toClient[c] \in Seq(GatewayFrame)
  BY DEF Typed, ClientTyped, GatewayTypeOK
<1>2. \A v \in k.signing : WasHanded(c, v)
  BY DEF HoldersInv
<1>3. CASE ReceiveFrame(c)
  <2> DEFINE f == Head(toClient[c])
             z == Reaction(c, f).client
  <2>1. client' = [client EXCEPT ![c] = z] /\ toClient[c] # <<>>
    BY <1>3 DEF ReceiveFrame
  <2>2. f \in GatewayFrame /\ 1 \in DOMAIN toClient[c] /\ f = toClient[c][1]
    BY <1>1, <2>1
  <2>3. f.type = "account.challenge" => WasHanded(c, f.value)
    BY <2>2 DEF HoldersInv
  <2>4. \A v \in z.signing : v \in k.signing \/ (f.type = "account.challenge" /\ v = f.value)
    BY <2>2, ReactionSigns
  <2> HIDE DEF z, f
  <2>5. client'[c] = z
    BY <1>1, <2>1
  <2> QED
    BY <1>2, <2>3, <2>4, <2>5
<1>4. CASE OfferStages(c) \/ RenewSession(c)
  <2>1. client' = [client EXCEPT ![c] = [k EXCEPT !.checks = k.checks - 1]]
          \/ client' = [client EXCEPT ![c] = [k EXCEPT !.isRenewing = FALSE]]
    BY <1>4 DEF OfferStages, RenewSession
  <2>2. /\ [k EXCEPT !.checks = k.checks - 1].signing = k.signing
        /\ [k EXCEPT !.isRenewing = FALSE].signing = k.signing
    BY <1>1 DEF ClientRecord
  <2>3. client'[c].signing = k.signing
    BY <1>1, <2>1, <2>2
  <2> QED
    BY <1>2, <2>3
<1>5. ASSUME NEW v \in k.signing, Sign(c, v)
      PROVE  \A w \in client'[c].signing : WasHanded(c, w)
  <2> DEFINE z == [k EXCEPT !.signing = k.signing \ {v}]
  <2>1. client' = [client EXCEPT ![c] = z]
    BY <1>5 DEF Sign
  <2>2. z.signing = k.signing \ {v}
    BY <1>1 DEF ClientRecord
  <2> HIDE DEF z
  <2>3. client'[c] = z
    BY <1>1, <2>1
  <2> QED
    BY <1>2, <2>2, <2>3
<1>6. ASSUME NEW v \in k.signing, SignFails(c, v)
      PROVE  \A w \in client'[c].signing : WasHanded(c, w)
  <2> DEFINE e == Settle(c).client
             z == [e EXCEPT !.signing = e.signing \ {v}]
  <2>1. client' = [client EXCEPT ![c] = z]
    BY <1>6 DEF SignFails
  <2>2. e \in ClientRecord
    BY <1>1, SettleReaction
  <2>3. e.signing = k.signing
    BY <1>1 DEF Settle, Nothing, ClientRecord
  <2> HIDE DEF e
  <2>4. z.signing = k.signing \ {v}
    BY <2>2, <2>3 DEF ClientRecord
  <2> HIDE DEF z
  <2>5. client'[c] = z
    BY <1>1, <2>1
  <2> QED
    BY <1>2, <2>4, <2>5
<1>7. CASE DoWork(c) \/ OtherSends(c) \/ OtherReceives(c) \/ LinkFails(c)
  <2>1. client' = client
    BY <1>7 DEF DoWork, OtherSends, OtherReceives, LinkFails
  <2> QED
    BY <1>2, <2>1
<1>8. CASE ClientCloses(c)
  <2> DEFINE z == [k EXCEPT !.isOpen = FALSE, !.conversation = "none", !.isRegistered = FALSE,
                            !.isRenewing = FALSE, !.signing = {}, !.checks = 0]
  <2>1. client' = [client EXCEPT ![c] = z]
    BY <1>8 DEF ClientCloses
  <2>2. z.signing = {}
    BY <1>1 DEF ClientRecord
  <2> HIDE DEF z
  <2>3. client'[c] = z
    BY <1>1, <2>1
  <2> QED
    BY <2>2, <2>3
<1> HIDE DEF k
<1> QED
  BY <1>3, <1>4, <1>5, <1>6, <1>7, <1>8 DEF ClientStep, k

\* A signature that a client adds is over a challenge it was handed, or of a client of
\* role "other".
LEMMA ClientAddsSignature ==
  ASSUME Typed, HoldersInv, NEW c \in Connection, ClientStep(c),
         NEW s \in signatures', s \notin signatures
  PROVE  s.value \in DOMAIN issued /\ (s.key = AccountOf[issued[s.value]] \/ SignsForOthers(s.key))
<1>1. CASE \E v \in client[c].signing : RunsConversation(c) /\ Sign(c, v)
  <2>1. PICK v \in client[c].signing : RunsConversation(c) /\ Sign(c, v)
    BY <1>1
  <2>2. s = SignedBy(c, v)
    BY <2>1 DEF Sign
  <2>3. WasHanded(c, v)
    BY <2>1 DEF HoldersInv
  <2> QED
    BY <2>2, <2>3 DEF SignedBy, WasHanded
<1>2. CASE OtherSends(c)
  <2>1. PICK frame \in OtherFrames(c) :
          frame.type = "account.authenticate" /\ frame.signature # NoSignature /\ s = frame.signature
    BY <1>2 DEF OtherSends
  <2>2. PICK v \in DOMAIN issued : s = SignedBy(c, v)
    BY <2>1, OtherFramesTyped
  <2>3. SignsForOthers(s.key)
    BY <1>2, <2>2 DEF OtherSends, SignsForOthers, SignedBy
  <2> QED
    BY <2>2, <2>3 DEF SignedBy
<1>3. signatures' = signatures \/ OtherSends(c) \/ \E v \in client[c].signing : RunsConversation(c) /\ Sign(c, v)
  BY DEF ClientStep, ReceiveFrame, OfferStages, RenewSession, DoWork, SignFails,
         OtherReceives, LinkFails, ClientCloses, OnlyClient
<1> QED
  BY <1>1, <1>2, <1>3

\* A step of a client keeps the holders.
LEMMA ClientKeepsHolders ==
  ASSUME Typed, HoldersInv, NEW c \in Connection, ClientStep(c)
  PROVE  HoldersInv'
<1>1. issued' = issued /\ \A d \in Connection : \A v : IsHandedThen(d, v) <=> WasHanded(d, v)
  BY ClientHears DEF WasHanded, IsHandedThen
<1>2. \A d \in Connection : client'[d].role = client[d].role /\ (d # c => client'[d] = client[d])
  BY ClientStepOthers DEF OthersSame
<1>3. \A account : SignsForOthers(account)' <=> SignsForOthers(account)
  BY <1>2 DEF SignsForOthers
<1>4. ASSUME NEW d \in Connection, NEW i \in DOMAIN toClient'[d]
      PROVE  \E j \in DOMAIN toClient[d] : toClient'[d][i] = toClient[d][j]
  <2>1. toClient \in [Connection -> Seq(GatewayFrame)] /\ toClient[c] \in Seq(GatewayFrame)
    BY DEF Typed, GatewayTypeOK
  <2>2. CASE toClient'[d] = toClient[d]
    BY <1>4, <2>2
  <2>3. CASE toClient[c] # <<>> /\ d = c /\ toClient'[d] = Tail(toClient[c])
    <3>1. i \in 1..(Len(toClient[c]) - 1) /\ toClient'[d][i] = toClient[c][i + 1]
      BY <1>4, <2>1, <2>3
    <3> QED
      BY <2>1, <2>3, <3>1
  <2>4. CASE toClient'[d] = <<>>
    BY <1>4, <2>4
  <2> QED
    BY <2>1, <2>2, <2>3, <2>4, ClientHears
<1>5. \A d \in Connection : \A i \in DOMAIN toClient'[d] :
        toClient'[d][i].type = "account.challenge" => IsHandedThen(d, toClient'[d][i].value)
  BY <1>1, <1>4 DEF HoldersInv
<1>6. \A d \in Connection : RunsConversation(d)' => \A v \in client'[d].signing : IsHandedThen(d, v)
  <2>1. ASSUME NEW d \in Connection, RunsConversation(d)'
        PROVE  \A v \in client'[d].signing : WasHanded(d, v)
    <3>1. RunsConversation(d)
      BY <1>2, <2>1 DEF RunsConversation
    <3>2. CASE d = c
      BY <3>1, <3>2, ClientSignsItsOwn
    <3>3. CASE d # c
      BY <1>2, <3>1, <3>3 DEF HoldersInv
    <3> QED
      BY <3>2, <3>3
  <2> QED
    BY <1>1, <2>1
<1>7. \A s \in signatures' : s.value \in DOMAIN issued'
        /\ (s.key = AccountOf[issued'[s.value]] \/ SignsForOthers(s.key)')
  <2>1. ASSUME NEW s \in signatures'
        PROVE  s.value \in DOMAIN issued /\ (s.key = AccountOf[issued[s.value]] \/ SignsForOthers(s.key))
    <3>1. CASE s \in signatures
      BY <3>1 DEF HoldersInv
    <3>2. CASE s \notin signatures
      BY <3>2, ClientAddsSignature
    <3> QED
      BY <3>1, <3>2
  <2> QED
    BY <1>1, <1>3, <2>1
<1> QED
  BY <1>5, <1>6, <1>7 DEF HoldersInv, WasHanded, IsHandedThen

\* At first nothing is handed out and nothing is signed.
LEMMA InitHolders ==
  ASSUME Init
  PROVE  HoldersInv
<1>1. /\ toClient = [c \in Connection |-> <<>>] /\ signatures = {}
      /\ \A c \in Connection : client[c].signing = {}
  <2>1. GatewayInit /\ signatures = {}
    BY DEF Init
  <2>2. \A c \in Connection : client[c].signing = {}
    BY DEF Init
  <2> QED
    BY <2>1, <2>2 DEF GatewayInit
<1> QED
  BY <1>1 DEF HoldersInv

\* Who has signed what: a challenge that was handed to a connection is signed with the key
\* of the client there, or with that of a client which signs what others were handed.
THEOREM HoldersInductive == Spec => []HoldersInv
<1>1. ConnectionInv /\ HoldersInv /\ [Next]_vars => HoldersInv'
  <2> SUFFICES ASSUME ConnectionInv, HoldersInv, [Next]_vars
               PROVE  HoldersInv'
    OBVIOUS
  <2>1. CASE UNCHANGED vars
    <3>1. toClient' = toClient /\ issued' = issued /\ client' = client /\ signatures' = signatures
      BY <2>1 DEF vars, gatewayVars
    <3> QED
      BY <3>1 DEF HoldersInv, WasHanded, RunsConversation, SignsForOthers
  <2>2. CASE Next
    BY <2>2, GatewayKeepsHolders, ClientKeepsHolders DEF Next, ConnectionInv
  <2> QED
    BY <2>1, <2>2
<1> QED
  BY <1>1, InitHolders, ConnectionInductive, PTL DEF Spec

\* authenticateAccount: a session gets an account only for a signature made with the key of
\* that account, over a challenge of that very connection; and unless a client of role
\* "other" holds the key, it is the client of the connection that does.
THEOREM AccountsAreProved == Spec => []AccountIsProved
<1>1. ASSUME ConnectionInv, HoldersInv
      PROVE  AccountIsProved
  <2> SUFFICES ASSUME NEW c \in Connection, session[c].account # None
               PROVE  IsSignedFor(c) /\ (AccountOf[c] = session[c].account \/ SignsForOthers(session[c].account))
    BY DEF AccountIsProved
  <2>1. IsSignedFor(c)
    BY <1>1 DEF ConnectionInv, AccountsAreSigned
  <2> DEFINE s(i) == [key |-> session[c].account, value |-> taken[i].value]
  <2>2. PICK i \in DOMAIN taken : taken[i].connection = c /\ s(i) \in signatures
    BY <2>1 DEF IsSignedFor
  <2>3. issued[s(i).value] = c
    BY <1>1, <2>2 DEF ConnectionInv, ChallengeTakenOnce
  <2>4. s(i).key = AccountOf[issued[s(i).value]] \/ SignsForOthers(s(i).key)
    BY <1>1, <2>2 DEF HoldersInv
  <2> QED
    BY <2>1, <2>3, <2>4
<1> QED
  BY <1>1, ConnectionInductive, HoldersInductive, PTL

-----------------------------------------------------------------------------
(* What a client waits for                                                 *)

\* A frame of a kind is in a queue.
Holds(s, kind) == \E i \in DOMAIN s : s[i] \in kind

Sessions == {[type |-> "deviceAuthenticated"]}
Confirmations == {[type |-> "deviceRegistered"]}

\* A registration that will not be refused for its stages.
Offers == Registers \ Asks

\* A token, or the session it opened, is on its way.
Starting(c) == Holds(toGateway[c], {Authenticate}) \/ Holds(toClient[c], Sessions)

\* The conversation has something under way.
Talking(c) == \/ Holds(toGateway[c], Asks) \/ pending[c] # <<>>
              \/ Holds(toClient[c], Answers) \/ client[c].signing # {}

\* The registration has something under way.
Registering(c) == \/ Holds(toGateway[c], Offers) \/ Holds(toClient[c], Registered)
                  \/ client[c].checks > 0

\* A client that is connected, at both ends as far as either knows.
IsUp(c) == RunsConversation(c) /\ link[c] = "up"

\* The next session is on its way, or the timer is armed that asks for it.
RenewalGoesOn == \A c \in Connection : IsUp(c) => client[c].isRenewing \/ Starting(c)

\* A client that is not registered has what it waits for on its way, unless it was refused.
NobodyWaitsForNothing ==
  \A c \in Connection : IsUp(c) /\ c \notin refused =>
    \/ client[c].isRegistered
    \/ client[c].conversation = "none" /\ Starting(c)
    \/ client[c].conversation = "open" /\ Talking(c)
    \/ (client[c].conversation = "settled" \/ ~client[c].hasKeyPair) /\ Registering(c)

\* What there is for one client.  Once the gateway has registered it, it is the confirmation.
Awaits(c) ==
  /\ isOpen[c] /\ client[c].isOpen
  /\ client[c].isRenewing \/ Starting(c)
  /\ device[c] # None => client[c].isRegistered \/ Holds(toClient[c], Confirmations)
  /\ c \notin refused /\ ~client[c].isRegistered /\ device[c] = None =>
       \/ client[c].conversation = "none" /\ Starting(c)
       \/ client[c].conversation = "open" /\ Talking(c)
       \/ (client[c].conversation = "settled" \/ ~client[c].hasKeyPair) /\ Registering(c)

AwaitsInv ==
  /\ link \in [Connection -> {"up", "down"}]
  /\ \A c \in Connection : IsUp(c) => Awaits(c)

\* A queue with a frame more holds what it held, and the frame.
LEMMA HoldsMore ==
  ASSUME NEW S, NEW s \in Seq(S), NEW f \in S
  PROVE  \A kind : Holds(Append(s, f), kind) <=> Holds(s, kind) \/ f \in kind
<1> SUFFICES ASSUME NEW kind
             PROVE  Holds(Append(s, f), kind) <=> Holds(s, kind) \/ f \in kind
  OBVIOUS
<1>1. /\ DOMAIN Append(s, f) = DOMAIN s \cup {Len(s) + 1} /\ Append(s, f)[Len(s) + 1] = f
      /\ \A i \in DOMAIN s : Append(s, f)[i] = s[i]
  OBVIOUS
<1> QED
  BY <1>1 DEF Holds

\* What a queue holds is read next or still there after.
LEMMA HoldsLess ==
  ASSUME NEW S, NEW s \in Seq(S), s # <<>>
  PROVE  \A kind : Holds(s, kind) => Head(s) \in kind \/ Holds(Tail(s), kind)
<1> SUFFICES ASSUME NEW kind, NEW i \in DOMAIN s, s[i] \in kind
             PROVE  Head(s) \in kind \/ Holds(Tail(s), kind)
  BY DEF Holds
<1>1. CASE i = 1
  BY <1>1
<1>2. CASE i # 1
  <2>1. i - 1 \in DOMAIN Tail(s) /\ Tail(s)[i - 1] = s[i]
    BY <1>2
  <2> QED
    BY <2>1 DEF Holds
<1> QED
  BY <1>1, <1>2

-----------------------------------------------------------------------------
(* What the gateway makes of it                                            *)

\* A handler that reads h answers it, computes an answer, or refuses it.
Serves(c, h) ==
  /\ toClient'[c] = toClient[c] \/ \E f \in GatewayFrame : toClient'[c] = Append(toClient[c], f)
  /\ pending'[c] = pending[c] \/ \E a \in PendingAnswer : pending'[c] = Append(pending[c], a)
  /\ h = Authenticate => Holds(toClient'[c], Sessions)
  /\ h \in Asks /\ device'[c] = None =>
       pending'[c] # <<>> \/ Holds(toClient'[c], Answers) \/ c \in refused'
  /\ h \in Offers /\ device'[c] = None => Holds(toClient'[c], Registered) \/ c \in refused'
  /\ device' = device \/ (device'[c] # None /\ Holds(toClient'[c], Confirmations))
  /\ refused \subseteq refused' /\ isOpen' = isOpen

\* Each handler does.
LEMMA ReadsServe ==
  ASSUME Typed, NEW c \in Connection, GatewayReads(c)
  PROVE  Serves(c, Head(toGateway[c]))
<1> DEFINE h == Head(toGateway[c])
<1>1. toClient[c] \in Seq(GatewayFrame) /\ pending[c] \in Seq(PendingAnswer)
  BY TurnTyped
<1>2. isOpen[c]
  BY DEF GatewayReads, RefuseOutsideSession, DeviceAuthenticate, PipelinesGet, DeviceRegister, Work,
         AccountRegister, ChallengeRequest, AccountAuthenticate, ReadsInSession, Reads
<1>3. ASSUME NEW f \in GatewayFrame, Send(c, f)
      PROVE  /\ toClient'[c] = Append(toClient[c], f)
             /\ \A kind : f \in kind => Holds(toClient'[c], kind)
  <2>1. toClient'[c] = Append(toClient[c], f)
    BY <1>2, <1>3 DEF Send, Typed, GatewayTypeOK
  <2> QED
    BY <1>1, <2>1, HoldsMore
<1>4. ASSUME NEW a \in PendingAnswer, pending' = [pending EXCEPT ![c] = Append(@, a)]
      PROVE  pending'[c] = Append(pending[c], a) /\ pending'[c] # <<>>
  <2>1. pending'[c] = Append(pending[c], a)
    BY <1>4 DEF Typed, GatewayTypeOK
  <2> QED
    BY <1>1, <2>1
<1>5. \A code \in {"AUTHENTICATION_REQUIRED", "NOT_REGISTERED", "VALIDATION", "ACCOUNT_NOT_FOUND",
                   "ACCOUNT_CHALLENGE_INVALID", "ACCOUNT_SIGNATURE_REJECTED", "UNSUPPORTED"} :
        /\ ErrorFrame(code) \in GatewayFrame
        /\ code \notin {"AUTHENTICATION_REQUIRED", "NOT_REGISTERED"} => ErrorFrame(code) \in Answers
  BY ErrorIsAFrame DEF ErrorFrame, Answers, AccountErrorCodes
<1>6. h.type # "deviceAuthenticate" => h # Authenticate
  BY DEF Authenticate
<1>7. /\ h \in Asks => h.type \in {"account.register", "account.challenge.request",
                                   "account.authenticate", "deviceRegister"}
      /\ h \in Offers => h.type \in {"pipelines.get", "deviceRegister"}
  BY DEF Asks, Offers, Registers
<1>8. CASE RefuseOutsideSession(c)
  <2>1. PICK type \in {f.type : f \in ClientFrame} \ {"deviceAuthenticate"} :
          /\ Reads(c, type) /\ Send(c, ErrorFrame("AUTHENTICATION_REQUIRED"))
          /\ refused' = (IF device[c] = None THEN refused \cup {c} ELSE refused)
          /\ pending' = pending /\ device' = device /\ isOpen' = isOpen
    BY <1>8 DEF RefuseOutsideSession
  <2>2. h # Authenticate
    BY <1>6, <2>1, ReadsTakes
  <2> HIDE DEF h
  <2> QED
    BY <1>3, <1>5, <2>1, <2>2 DEF Serves, h
<1>9. CASE DeviceAuthenticate(c)
  <2>1. /\ Reads(c, "deviceAuthenticate") /\ pending' = pending /\ device' = device
        /\ refused' = refused /\ isOpen' = isOpen
        /\ IF h.isRightToken THEN Send(c, [type |-> "deviceAuthenticated"])
           ELSE Send(c, ErrorFrame("AUTHENTICATION_REQUIRED"))
    BY <1>9 DEF DeviceAuthenticate
  <2>2. h.type = "deviceAuthenticate"
    BY <2>1, ReadsTakes
  <2>3. h = Authenticate => h.isRightToken
    BY DEF Authenticate
  <2>4. [type |-> "deviceAuthenticated"] \in GatewayFrame /\ [type |-> "deviceAuthenticated"] \in Sessions
    BY DEF GatewayFrame, Sessions
  <2>5. h \notin Asks /\ h \notin Offers
    BY <1>7, <2>2
  <2> HIDE DEF h
  <2>6. CASE h.isRightToken
    BY <1>3, <2>1, <2>4, <2>5, <2>6 DEF Serves, h
  <2>7. CASE ~h.isRightToken
    BY <1>3, <1>5, <2>1, <2>3, <2>5, <2>7 DEF Serves, h
  <2> QED
    BY <2>6, <2>7
<1>10. CASE PipelinesGet(c)
  <2>1. /\ Reads(c, "pipelines.get") /\ Send(c, [type |-> "pipelines"]) /\ pending' = pending
        /\ device' = device /\ refused' = refused /\ isOpen' = isOpen
    BY <1>10 DEF PipelinesGet, ReadsInSession
  <2>2. h.type = "pipelines.get"
    BY <2>1, ReadsTakes
  <2>3. [type |-> "pipelines"] \in GatewayFrame /\ [type |-> "pipelines"] \in Registered
    BY DEF GatewayFrame, Registered
  <2>4. h \notin Asks /\ h # Authenticate
    BY <1>6, <1>7, <2>2
  <2> HIDE DEF h
  <2> QED
    BY <1>3, <2>1, <2>3, <2>4 DEF Serves, h
<1>11. CASE DeviceRegister(c)
  <2>1. /\ Reads(c, "deviceRegister") /\ pending' = pending /\ refused' = refused /\ isOpen' = isOpen
        /\ \/ ~h.areStagesDefined /\ device' = device /\ Send(c, ErrorFrame("VALIDATION"))
           \/ device' = [device EXCEPT ![c] = h.role] /\ Send(c, [type |-> "deviceRegistered"])
    BY <1>11 DEF DeviceRegister, ReadsInSession
  <2>2. h \in ClientFrame /\ h.type = "deviceRegister"
    BY <2>1, ReadsTakes
  <2>3. /\ [type |-> "deviceRegistered"] \in GatewayFrame /\ [type |-> "deviceRegistered"] \in Registered
        /\ [type |-> "deviceRegistered"] \in Confirmations
    BY DEF GatewayFrame, Registered, Confirmations
  <2>4. (h \in Asks <=> ~h.areStagesDefined) /\ (h \in Offers => h \notin Asks) /\ h # Authenticate
    BY <1>6, <2>2 DEF Asks, Offers
  <2>5. CASE ~h.areStagesDefined /\ device' = device /\ Send(c, ErrorFrame("VALIDATION"))
    <3>1. ErrorFrame("VALIDATION") \in GatewayFrame /\ ErrorFrame("VALIDATION") \in Answers
      BY <1>5
    <3> HIDE DEF h
    <3> QED
      BY <1>3, <2>1, <2>4, <2>5, <3>1 DEF Serves, h
  <2>6. CASE device' = [device EXCEPT ![c] = h.role] /\ Send(c, [type |-> "deviceRegistered"])
    <3>1. h.role \in {"worker", "consumer"}
      BY <2>2, FrameFields
    <3>2. device'[c] # None
      BY <2>6, <3>1, GatewayAccountsAssumption DEF Typed, GatewayTypeOK
    <3> HIDE DEF h
    <3> QED
      BY <1>3, <2>1, <2>3, <2>4, <2>6, <3>2 DEF Serves, h
  <2> QED
    BY <2>1, <2>5, <2>6
<1>12. CASE Work(c)
  <2>1. /\ Reads(c, "work") /\ pending' = pending /\ device' = device /\ refused' = refused
        /\ isOpen' = isOpen /\ (toClient' = toClient \/ Send(c, ErrorFrame("NOT_REGISTERED")))
    BY <1>12 DEF Work, ReadsInSession
  <2>2. h.type = "work"
    BY <2>1, ReadsTakes
  <2>3. h \notin Asks /\ h \notin Offers /\ h # Authenticate
    BY <1>6, <1>7, <2>2
  <2> HIDE DEF h
  <2> QED
    BY <1>3, <1>5, <2>1, <2>3 DEF Serves, h
<1>13. CASE AccountRegister(c)
  <2> DEFINE answer == [step |-> "register", account |-> h.account]
  <2>1. /\ Reads(c, "account.register") /\ device' = device /\ toClient' = toClient
        /\ refused' = refused /\ isOpen' = isOpen /\ pending' = [pending EXCEPT ![c] = Append(@, answer)]
    BY <1>13 DEF AccountRegister, ReadsInSession
  <2>2. h \in ClientFrame /\ h.type = "account.register"
    BY <2>1, ReadsTakes
  <2>3. h.account \in Account
    BY <2>2, FrameFields
  <2>4. answer \in PendingAnswer
    BY <2>3 DEF PendingAnswer
  <2>5. h \notin Offers /\ h # Authenticate
    BY <1>6, <1>7, <2>2
  <2> HIDE DEF h, answer
  <2> QED
    BY <1>4, <2>1, <2>4, <2>5 DEF Serves, h
<1>14. CASE ChallengeRequest(c)
  <2> DEFINE reply == [type |-> "account.challenge", value |-> Len(issued) + 1]
  <2>1. /\ Reads(c, "account.challenge.request") /\ pending' = pending /\ device' = device
        /\ refused' = refused /\ isOpen' = isOpen /\ Send(c, reply) /\ Len(issued) < MaxChallenges
    BY <1>14 DEF ChallengeRequest, ReadsInSession
  <2>2. h.type = "account.challenge.request"
    BY <2>1, ReadsTakes
  <2>3. Len(issued) + 1 \in Challenge
    BY <2>1, GatewayAccountsAssumption DEF Typed, GatewayTypeOK, Challenge
  <2>4. reply \in GatewayFrame /\ reply \in Answers
    BY <2>3 DEF GatewayFrame, Answers
  <2>5. h \notin Offers /\ h # Authenticate
    BY <1>6, <1>7, <2>2
  <2> HIDE DEF h, reply
  <2> QED
    BY <1>3, <2>1, <2>4, <2>5 DEF Serves, h
<1>15. CASE AccountAuthenticate(c)
  <2> DEFINE answer == [step |-> "verify", account |-> h.account, value |-> challenge[c].value,
                        signature |-> h.signature]
  <2>1. /\ Reads(c, "account.authenticate") /\ device' = device /\ refused' = refused /\ isOpen' = isOpen
        /\ \/ pending' = pending /\ \/ Send(c, ErrorFrame("ACCOUNT_NOT_FOUND"))
                                    \/ Send(c, ErrorFrame("ACCOUNT_CHALLENGE_INVALID"))
           \/ /\ challenge[c] # None /\ toClient' = toClient
              /\ pending' = [pending EXCEPT ![c] = Append(@, answer)]
    BY <1>15 DEF AccountAuthenticate, ReadsInSession
  <2>2. h \in ClientFrame /\ h.type = "account.authenticate"
    BY <2>1, ReadsTakes
  <2>3. h.account \in Account /\ h.signature \in Signature
    BY <2>2, FrameFields
  <2>4. challenge[c] # None => challenge[c].value \in Challenge
    BY DEF Typed, GatewayTypeOK
  <2>5. challenge[c] # None => answer \in PendingAnswer
    BY <2>3, <2>4 DEF PendingAnswer
  <2>6. h \notin Offers /\ h # Authenticate
    BY <1>6, <1>7, <2>2
  <2> HIDE DEF h, answer
  <2> QED
    BY <1>3, <1>4, <1>5, <2>1, <2>5, <2>6 DEF Serves, h
<1> QED
  BY <1>8, <1>9, <1>10, <1>11, <1>12, <1>13, <1>14, <1>15 DEF GatewayReads

\* Reading a frame keeps a client from waiting for nothing.
LEMMA ReadsAwaited ==
  ASSUME Typed, NEW c \in Connection, GatewayReads(c), UNCHANGED <<client, link>>, Awaits(c)
  PROVE  Awaits(c)'
<1> DEFINE h == Head(toGateway[c])
<1>1. /\ toGateway[c] \in Seq(ClientFrame) /\ toClient[c] \in Seq(GatewayFrame)
      /\ pending[c] \in Seq(PendingAnswer)
  BY TurnTyped
<1>2. PICK type : Reads(c, type)
  BY DEF GatewayReads, RefuseOutsideSession, DeviceAuthenticate, PipelinesGet, DeviceRegister, Work,
         AccountRegister, ChallengeRequest, AccountAuthenticate, ReadsInSession
<1>3. toGateway[c] # <<>> /\ toGateway'[c] = Tail(toGateway[c])
  BY <1>2 DEF Reads, Typed, GatewayTypeOK
<1>4. \A kind : Holds(toGateway[c], kind) => h \in kind \/ Holds(toGateway'[c], kind)
  BY <1>1, <1>3, HoldsLess
<1>5. Serves(c, h)
  BY ReadsServe
<1> HIDE DEF h
<1>6. \A kind : Holds(toClient[c], kind) => Holds(toClient'[c], kind)
  <2>1. CASE toClient'[c] = toClient[c]
    BY <2>1
  <2>2. ASSUME NEW f \in GatewayFrame, toClient'[c] = Append(toClient[c], f)
        PROVE  \A kind : Holds(toClient[c], kind) => Holds(toClient'[c], kind)
    BY <1>1, <2>2, HoldsMore
  <2> QED
    BY <1>5, <2>1, <2>2 DEF Serves
<1>7. pending[c] # <<>> => pending'[c] # <<>>
  BY <1>1, <1>5 DEF Serves
<1>8. client'[c] = client[c] /\ isOpen' = isOpen /\ refused \subseteq refused'
  BY <1>5 DEF Serves
<1>9. Starting(c) => Starting(c)'
  BY <1>4, <1>5, <1>6 DEF Starting, Serves
<1>10. device' = device \/ (device'[c] # None /\ Holds(toClient'[c], Confirmations))
  BY <1>5 DEF Serves
<1>11. device'[c] = None /\ Talking(c) => Talking(c)' \/ c \in refused'
  BY <1>4, <1>5, <1>6, <1>7, <1>8 DEF Talking, Serves
<1>12. device'[c] = None /\ Registering(c) => Registering(c)' \/ c \in refused'
  BY <1>4, <1>5, <1>6, <1>8 DEF Registering, Serves
<1>13. device[c] # None => client[c].isRegistered \/ Holds(toClient'[c], Confirmations)
  BY <1>6 DEF Awaits
<1>14. (device'[c] # None => client'[c].isRegistered \/ Holds(toClient'[c], Confirmations))
  BY <1>8, <1>10, <1>13
<1>15. ASSUME c \notin refused', ~client[c].isRegistered, device'[c] = None
       PROVE  \/ client[c].conversation = "none" /\ Starting(c)'
              \/ client[c].conversation = "open" /\ Talking(c)'
              \/ (client[c].conversation = "settled" \/ ~client[c].hasKeyPair) /\ Registering(c)'
  <2>1. device[c] = None
    BY <1>10, <1>15
  <2> QED
    BY <1>8, <1>9, <1>11, <1>12, <1>15, <2>1 DEF Awaits
<1> QED
  BY <1>8, <1>9, <1>14, <1>15 DEF Awaits

\* So does an answer that was being computed: a frame is sent for it, or the client refused.
LEMMA AnswersAwaited ==
  ASSUME Typed, NEW c \in Connection, GatewayAnswers(c), UNCHANGED <<client, link>>, Awaits(c)
  PROVE  Awaits(c)'
<1>1. PICK i \in DOMAIN pending[c] :
        RegisterAccount(c, i) \/ VerifySignature(c, i) \/ VerificationThrows(c, i)
  BY DEF GatewayAnswers
<1>2. /\ toClient[c] \in Seq(GatewayFrame) /\ pending[c] \in Seq(PendingAnswer)
      /\ pending[c][i].account \in Account /\ isOpen[c]
  <2>1. toClient[c] \in Seq(GatewayFrame) /\ pending[c] \in Seq(PendingAnswer)
    BY TurnTyped
  <2>2. pending[c][i] \in PendingAnswer
    BY <2>1
  <2> QED
    BY <2>1, <2>2, PendingAnswerFields DEF Awaits
<1>3. ASSUME NEW f \in GatewayFrame, Send(c, f)
      PROVE  /\ \A kind : Holds(toClient[c], kind) => Holds(toClient'[c], kind)
             /\ f \in Answers => Holds(toClient'[c], Answers)
  <2>1. toClient'[c] = Append(toClient[c], f)
    BY <1>2, <1>3 DEF Send, Typed, GatewayTypeOK
  <2> QED
    BY <1>2, <2>1, HoldsMore
<1>4. \A code \in {"AUTHENTICATION_REQUIRED", "NOT_REGISTERED", "VALIDATION", "ACCOUNT_NOT_FOUND",
                   "ACCOUNT_CHALLENGE_INVALID", "ACCOUNT_SIGNATURE_REJECTED", "UNSUPPORTED"} :
        /\ ErrorFrame(code) \in GatewayFrame
        /\ code \notin {"AUTHENTICATION_REQUIRED", "NOT_REGISTERED"} => ErrorFrame(code) \in Answers
  BY ErrorIsAFrame DEF ErrorFrame, Answers, AccountErrorCodes
<1>5. /\ toGateway' = toGateway /\ device' = device /\ isOpen' = isOpen /\ refused \subseteq refused'
      /\ client' = client
  BY <1>1 DEF RegisterAccount, VerifySignature, VerificationThrows
<1>6. PICK f \in GatewayFrame : Send(c, f) /\ (f \in Answers \/ c \in refused')
  <2>1. CASE RegisterAccount(c, i)
    <3>1. Send(c, [type |-> "account.registered"]) \/ Send(c, ErrorFrame("UNSUPPORTED"))
      BY <2>1 DEF RegisterAccount
    <3>2. [type |-> "account.registered"] \in GatewayFrame /\ [type |-> "account.registered"] \in Answers
      BY DEF GatewayFrame, Answers
    <3> QED
      BY <1>4, <3>1, <3>2
  <2>2. CASE VerifySignature(c, i)
    <3> DEFINE reply == [type |-> "account.authenticated", account |-> pending[c][i].account]
    <3>1. \/ Send(c, ErrorFrame("ACCOUNT_SIGNATURE_REJECTED"))
          \/ Send(c, ErrorFrame("AUTHENTICATION_REQUIRED")) /\ c \in refused'
          \/ Send(c, reply)
      BY <2>2 DEF VerifySignature
    <3>2. reply \in GatewayFrame /\ reply \in Answers
      BY <1>2 DEF GatewayFrame, Answers
    <3> HIDE DEF reply
    <3> QED
      BY <1>4, <3>1, <3>2
  <2>3. CASE VerificationThrows(c, i)
    <3>1. Send(c, ErrorFrame("UNSUPPORTED"))
      BY <2>3 DEF VerificationThrows
    <3> QED
      BY <1>4, <3>1
  <2> QED
    BY <1>1, <2>1, <2>2, <2>3
<1>7. /\ \A kind : Holds(toClient[c], kind) => Holds(toClient'[c], kind)
      /\ Holds(toClient'[c], Answers) \/ c \in refused'
  BY <1>3, <1>6
<1>8. (Starting(c) => Starting(c)') /\ (Registering(c) => Registering(c)')
  BY <1>5, <1>7 DEF Starting, Registering
<1>9. Talking(c)' \/ c \in refused'
  BY <1>7 DEF Talking
<1> QED
  BY <1>5, <1>7, <1>8, <1>9 DEF Awaits

-----------------------------------------------------------------------------
(* What the client makes of it                                             *)

\* What a client that is connected sends is on its way.
LEMMA SentIsHeld ==
  ASSUME Typed, NEW c \in Connection, isOpen[c], client[c].isOpen, NEW frames, ClientSends(c, frames),
         frames = <<>> \/ \E f \in ClientFrame : frames = <<f>>
  PROVE  /\ \A kind : Holds(toGateway[c], kind) => Holds(toGateway'[c], kind)
         /\ \A f \in ClientFrame : frames = <<f>> =>
              \A kind : f \in kind => Holds(toGateway'[c], kind)
<1>1. toGateway[c] \in Seq(ClientFrame) /\ toGateway'[c] = toGateway[c] \o frames
  BY TurnTyped DEF ClientSends, Typed, GatewayTypeOK
<1>2. CASE frames = <<>>
  <2>1. toGateway'[c] = toGateway[c]
    BY <1>1, <1>2
  <2>2. \A f \in ClientFrame : frames # <<f>>
    BY <1>2
  <2> QED
    BY <2>1, <2>2
<1>3. ASSUME NEW f \in ClientFrame, frames = <<f>>
      PROVE  /\ \A kind : Holds(toGateway[c], kind) => Holds(toGateway'[c], kind)
             /\ \A g \in ClientFrame : frames = <<g>> =>
                  \A kind : g \in kind => Holds(toGateway'[c], kind)
  <2>1. toGateway'[c] = Append(toGateway[c], f)
    BY <1>1, <1>3
  <2>2. \A g \in ClientFrame : frames = <<g>> => g = f
    BY <1>3
  <2> QED
    BY <1>1, <2>1, <2>2, HoldsMore
<1> QED
  BY <1>2, <1>3

\* What settling a conversation sends registers the client, unless it is registered.
LEMMA SettledRegisters ==
  ASSUME NEW c \in Connection, RunsConversation(c)
  PROVE  /\ client[c].isRegistered => OnSettled(c) = <<>>
         /\ ~client[c].isRegistered => \E f \in ClientFrame : f \in Offers /\ OnSettled(c) = <<f>>
<1>1. client[c].role \in {"worker", "consumer"}
  BY DEF RunsConversation
<1>2. Registration(c) \in ClientFrame /\ Registration(c) \in Offers
  <2>1. Registration(c) \in ClientFrame
    BY <1>1 DEF Registration, ClientFrame
  <2>2. Registration(c).type = "deviceRegister" /\ Registration(c).areStagesDefined = TRUE
    BY DEF Registration
  <2> QED
    BY <2>1, <2>2 DEF Offers, Registers, Asks
<1>3. Type("pipelines.get") \in ClientFrame /\ Type("pipelines.get") \in Offers
  BY DEF Type, ClientFrame, Offers, Registers, Asks
<1> QED
  BY <1>2, <1>3 DEF OnSettled

\* A frame of the gateway that is read leaves a client something to wait for.
LEMMA ReceiveAwaited ==
  ASSUME Typed, NEW c \in Connection, ReceiveFrame(c), Awaits(c)
  PROVE  Awaits(c)'
<1> DEFINE h == Head(toClient[c])
           r == Reaction(c, h)
           k == client[c]
<1>1. /\ client \in [Connection -> ClientRecord] /\ k \in ClientRecord
      /\ toClient[c] \in Seq(GatewayFrame) /\ toClient[c] # <<>> /\ h \in GatewayFrame
      /\ k.isOpen /\ isOpen[c] /\ RunsConversation(c)
  BY TurnTyped DEF Typed, ClientTyped, ReceiveFrame, Awaits
<1>2. /\ client'[c] = r.client /\ ClientSends(c, r.frames) /\ toClient'[c] = Tail(toClient[c])
      /\ isOpen' = isOpen /\ pending' = pending /\ device' = device /\ refused' = refused
  BY <1>1 DEF ReceiveFrame, OnlyClient, Typed, GatewayTypeOK
<1>3. \A kind : Holds(toClient[c], kind) => h \in kind \/ Holds(toClient'[c], kind)
  BY <1>1, <1>2, HoldsLess
<1>4. /\ h.type # "deviceAuthenticated" => h \notin Sessions
      /\ h.type \notin {"pipelines", "deviceRegistered"} => h \notin Registered
      /\ h.type # "deviceRegistered" => h \notin Confirmations
      /\ h.type \in {"deviceAuthenticated", "pipelines", "deviceRegistered"} => h \notin Answers
      /\ h.type = "error" /\ h.code \notin AccountErrorCodes => h \notin Answers
  BY DEF Sessions, Registered, Confirmations, Answers
<1>5. h.type \in {"deviceAuthenticated", "account.registered", "pipelines",
                  "deviceRegistered", "account.challenge", "account.authenticated", "error"}
  BY <1>1 DEF GatewayFrame
<1> DEFINE register == [type |-> "account.register", account |-> AccountOf[c]]
           ask == Type("account.challenge.request")
<1>6. /\ register \in ClientFrame /\ register \in Asks /\ ask \in ClientFrame /\ ask \in Asks
  BY GatewayAccountsAssumption DEF ClientFrame, Asks, Type
<1>7. /\ k.isRegistered => OnSettled(c) = <<>>
      /\ ~k.isRegistered => \E f \in ClientFrame : f \in Offers /\ OnSettled(c) = <<f>>
  BY <1>1, SettledRegisters
<1> HIDE DEF h, r, k, register, ask
<1>8. ASSUME r.frames = <<>> \/ \E f \in ClientFrame : r.frames = <<f>>
      PROVE  /\ \A kind : Holds(toGateway[c], kind) => Holds(toGateway'[c], kind)
             /\ \A f \in ClientFrame : r.frames = <<f>> =>
                  \A kind : f \in kind => Holds(toGateway'[c], kind)
  <2>1. ClientSends(c, r.frames) /\ isOpen[c] /\ client[c].isOpen
    BY <1>1, <1>2 DEF k
  <2> QED
    BY <1>8, <2>1, SentIsHeld
<1>9. /\ \A kind : Holds(toGateway[c], kind) => Holds(toGateway'[c], kind)
      /\ \A f \in ClientFrame : r.frames = <<f>> => \A kind : f \in kind => Holds(toGateway'[c], kind)
      /\ r.frames = <<>> \/ \E f \in ClientFrame : r.frames = <<f>>
  <2>1. r.frames = <<>> \/ \E f \in ClientFrame : r.frames = <<f>>
    <3>2. r \in {OnDeviceAuthenticated(c), Nothing(c), Settle(c)} \/ r.frames \in {<<>>, <<ask>>}
      BY <1>5 DEF r, Reaction, InConversation, OnError, ask
    <3>3. OnSettled(c) = <<>> \/ \E f \in ClientFrame : OnSettled(c) = <<f>>
      BY <1>7
    <3>4. OnDeviceAuthenticated(c).frames \in {<<>>, <<register>>, OnSettled(c)}
      BY DEF OnDeviceAuthenticated, register
    <3>5. Settle(c).frames \in {<<>>, OnSettled(c)} /\ Nothing(c).frames = <<>>
      BY DEF Settle, Nothing
    <3> QED
      BY <1>6, <3>2, <3>3, <3>4, <3>5
  <2> QED
    BY <1>8, <2>1
<1>10. (h \notin Sessions /\ Starting(c) => Starting(c)')
  BY <1>3, <1>9 DEF Starting
<1>11. h \notin Answers /\ Talking(c) /\ r.client.signing = k.signing => Talking(c)'
  BY <1>2, <1>3, <1>9 DEF Talking, k
<1>12. h \notin Registered /\ Registering(c) /\ r.client.checks = k.checks => Registering(c)'
  BY <1>2, <1>3, <1>9 DEF Registering, k
<1>13. h \notin Confirmations /\ Holds(toClient[c], Confirmations) => Holds(toClient'[c], Confirmations)
  BY <1>3
<1>14. CASE h.type = "deviceAuthenticated"
  <2> DEFINE renewing == [client[c] EXCEPT !.isRenewing = TRUE]
             opening == [renewing EXCEPT !.conversation = "open"]
             z == client'[c]
  <2>1. r = OnDeviceAuthenticated(c)
    BY <1>14 DEF r, Reaction
  <2>2. /\ renewing.isOpen = k.isOpen /\ renewing.isRenewing /\ renewing.conversation = k.conversation
        /\ renewing.isRegistered = k.isRegistered /\ renewing.hasKeyPair = k.hasKeyPair
        /\ renewing.signing = k.signing /\ renewing.checks = k.checks
    BY <1>1 DEF ClientRecord, k
  <2>3. /\ opening.isOpen = k.isOpen /\ opening.isRenewing /\ opening.conversation = "open"
        /\ opening.isRegistered = k.isRegistered
    BY <1>1 DEF ClientRecord, k
  <2>4. \/ z = renewing /\ (k.isRegistered \/ k.conversation # "none")
        \/ z = opening /\ r.frames = <<register>>
        \/ /\ z = renewing /\ r.frames = OnSettled(c) /\ ~k.hasKeyPair
           /\ ~k.isRegistered /\ k.conversation = "none"
    BY <1>2, <2>1 DEF OnDeviceAuthenticated, register, k
  <2>5. h \notin Answers /\ h \notin Registered /\ h \notin Confirmations
    BY <1>4, <1>14
  <2> HIDE DEF renewing, opening, z
  <2>6. z.isOpen /\ z.isRenewing /\ z.isRegistered = k.isRegistered
    BY <1>1, <2>2, <2>3, <2>4
  <2>7. CASE z = renewing /\ (k.isRegistered \/ k.conversation # "none")
    <3>1. /\ k.conversation = "open" /\ Talking(c) => z.conversation = "open" /\ Talking(c)'
          /\ Registering(c) => Registering(c)'
          /\ z.conversation = k.conversation /\ z.hasKeyPair = k.hasKeyPair
      BY <1>2, <1>11, <1>12, <2>2, <2>5, <2>7 DEF z
    <3> QED
      BY <1>1, <1>2, <1>13, <2>5, <2>6, <2>7, <3>1 DEF Awaits, z, k
  <2>8. CASE z = opening /\ r.frames = <<register>>
    <3>1. z.conversation = "open" /\ Talking(c)'
      BY <1>6, <1>9, <2>3, <2>8 DEF Talking
    <3> QED
      BY <1>1, <1>2, <1>13, <2>5, <2>6, <3>1 DEF Awaits, z, k
  <2>9. CASE z = renewing /\ r.frames = OnSettled(c) /\ ~k.hasKeyPair /\ ~k.isRegistered
    <3>1. ~z.hasKeyPair /\ Registering(c)'
      BY <1>7, <1>9, <2>2, <2>9 DEF Registering
    <3> QED
      BY <1>1, <1>2, <1>13, <2>5, <2>6, <3>1 DEF Awaits, z, k
  <2> QED
    BY <2>4, <2>7, <2>8, <2>9
<1>15. CASE h.type = "deviceRegistered"
  <2> DEFINE z == [client[c] EXCEPT !.isRegistered = TRUE]
  <2>1. client'[c] = z
    BY <1>2, <1>15 DEF r, Reaction
  <2>2. z.isOpen = k.isOpen /\ z.isRenewing = k.isRenewing /\ z.isRegistered
    BY <1>1 DEF ClientRecord, k
  <2> HIDE DEF z
  <2>3. h \notin Sessions
    BY <1>4, <1>15
  <2> QED
    BY <1>1, <1>2, <1>10, <2>1, <2>2, <2>3 DEF Awaits, k
<1>16. CASE h.type = "pipelines"
  <2> DEFINE z == [client[c] EXCEPT !.checks = @ + 1]
  <2>1. client'[c] = z
    BY <1>2, <1>16 DEF r, Reaction
  <2>2. /\ z.isOpen = k.isOpen /\ z.isRenewing = k.isRenewing /\ z.isRegistered = k.isRegistered
        /\ z.hasKeyPair = k.hasKeyPair /\ z.conversation = k.conversation /\ z.signing = k.signing
        /\ z.checks = k.checks + 1
    BY <1>1 DEF ClientRecord, k
  <2> HIDE DEF z
  <2>3. h \notin Sessions /\ h \notin Answers /\ h \notin Confirmations
    BY <1>4, <1>16
  <2>4. k.checks \in Nat
    BY <1>1 DEF ClientRecord
  <2>5. Registering(c)' /\ (Talking(c) => Talking(c)')
    BY <1>2, <1>11, <2>1, <2>2, <2>3, <2>4 DEF Registering
  <2> QED
    BY <1>1, <1>2, <1>10, <1>13, <2>1, <2>2, <2>3, <2>5 DEF Awaits, k
<1>17. ASSUME h \notin Sessions, h \notin Registered, h \notin Confirmations,
              client'[c].isOpen = k.isOpen, client'[c].isRenewing = k.isRenewing,
              client'[c].isRegistered = k.isRegistered, client'[c].hasKeyPair = k.hasKeyPair,
              client'[c].checks = k.checks,
              \/ client'[c].conversation = k.conversation /\ (k.conversation = "open" => Talking(c)')
              \/ client'[c].conversation = "settled" /\ (k.isRegistered \/ Registering(c)')
       PROVE  Awaits(c)'
  <2>1. (Starting(c) => Starting(c)') /\ (Registering(c) => Registering(c)')
    BY <1>2, <1>10, <1>12, <1>17
  <2>2. Holds(toClient[c], Confirmations) => Holds(toClient'[c], Confirmations)
    BY <1>13, <1>17
  <2> QED
    BY <1>1, <1>2, <1>17, <2>1, <2>2 DEF Awaits, k
<1>18. ASSUME r = Nothing(c), k.conversation = "open" => h \notin Answers,
              h \notin Sessions, h \notin Registered, h \notin Confirmations
       PROVE  Awaits(c)'
  <2>1. client'[c] = k
    BY <1>2, <1>18 DEF Nothing, k
  <2>2. ASSUME k.conversation = "open", ~Talking(c)
        PROVE  Awaits(c)'
    <3>1. Holds(toClient[c], Confirmations) => Holds(toClient'[c], Confirmations)
      BY <1>13, <1>18
    <3>2. (Starting(c) => Starting(c)') /\ (Registering(c) => Registering(c)')
      BY <1>2, <1>10, <1>12, <1>18, <2>1
    <3> QED
      BY <1>1, <1>2, <2>1, <2>2, <3>1, <3>2 DEF Awaits, k
  <2>3. Talking(c) /\ k.conversation = "open" => Talking(c)'
    BY <1>2, <1>11, <1>18, <2>1
  <2> QED
    BY <1>17, <1>18, <2>1, <2>2, <2>3
<1>19. ASSUME r = Settle(c), h \notin Sessions, h \notin Registered, h \notin Confirmations,
              k.conversation # "none"
       PROVE  Awaits(c)'
  <2>1. CASE k.conversation # "open"
    BY <1>18, <1>19, <2>1 DEF Settle, k
  <2>2. CASE k.conversation = "open"
    <3> DEFINE z == [client[c] EXCEPT !.conversation = "settled"]
    <3>1. client'[c] = z /\ r.frames = OnSettled(c)
      BY <1>2, <1>19, <2>2 DEF Settle, k
    <3>2. /\ z.isOpen = k.isOpen /\ z.isRenewing = k.isRenewing /\ z.isRegistered = k.isRegistered
          /\ z.hasKeyPair = k.hasKeyPair /\ z.conversation = "settled" /\ z.checks = k.checks
      BY <1>1 DEF ClientRecord, k
    <3> HIDE DEF z
    <3>3. k.isRegistered \/ Registering(c)'
      BY <1>7, <1>9, <3>1 DEF Registering
    <3> QED
      BY <1>17, <1>19, <3>1, <3>2, <3>3
  <2> QED
    BY <2>1, <2>2
<1>20. CASE h.type \in {"account.registered", "account.challenge", "account.authenticated", "error"}
  <2>1. h \notin Sessions /\ h \notin Registered /\ h \notin Confirmations
    BY <1>4, <1>20
  <2>2. CASE k.conversation = "none"
    <3>1. r = Nothing(c)
      BY <1>20, <2>2 DEF r, Reaction, k
    <3> QED
      BY <1>18, <2>1, <2>2, <3>1
  <2>3. CASE k.conversation # "none"
    <3>1. r = InConversation(c, h)
      BY <1>20, <2>3 DEF r, Reaction, k
    <3>2. CASE h.type = "account.registered"
      <4>1. client'[c] = k /\ r.frames = <<ask>>
        BY <1>2, <3>1, <3>2 DEF InConversation, ask, k
      <4>2. Talking(c)'
        BY <1>6, <1>9, <4>1 DEF Talking
      <4> QED
        BY <1>17, <2>1, <4>1, <4>2
    <3>3. CASE h.type = "account.challenge"
      <4> DEFINE z == [client[c] EXCEPT !.signing = @ \cup {h.value}]
      <4>1. client'[c] = z
        BY <1>2, <3>1, <3>3 DEF InConversation
      <4>2. /\ z.isOpen = k.isOpen /\ z.isRenewing = k.isRenewing /\ z.isRegistered = k.isRegistered
            /\ z.hasKeyPair = k.hasKeyPair /\ z.conversation = k.conversation /\ z.checks = k.checks
            /\ z.signing # {}
        BY <1>1 DEF ClientRecord, k
      <4> HIDE DEF z
      <4>3. Talking(c)'
        BY <4>1, <4>2 DEF Talking
      <4> QED
        BY <1>17, <2>1, <4>1, <4>2, <4>3
    <3>4. CASE h.type = "account.authenticated"
      <4>1. r = Settle(c)
        BY <3>1, <3>4 DEF InConversation
      <4> QED
        BY <1>19, <2>1, <2>3, <4>1
    <3>5. CASE h.type = "error"
      <4>1. r = OnError(c, h.code)
        BY <3>1, <3>5 DEF InConversation
      <4>2. CASE k.conversation = "open" /\ h.code \in AccountErrorCodes
        BY <1>19, <2>1, <2>3, <4>1, <4>2 DEF OnError, k
      <4>3. CASE ~(k.conversation = "open" /\ h.code \in AccountErrorCodes)
        <5>1. r = Nothing(c)
          BY <4>1, <4>3 DEF OnError, k
        <5>2. k.conversation = "open" => h \notin Answers
          BY <1>4, <3>5, <4>3
        <5> QED
          BY <1>18, <2>1, <5>1, <5>2
      <4> QED
        BY <4>2, <4>3
    <3> QED
      BY <1>20, <3>2, <3>3, <3>4, <3>5
  <2> QED
    BY <2>2, <2>3
<1> QED
  BY <1>5, <1>14, <1>15, <1>16, <1>20

\* Every other step of a client that stays connected.
LEMMA ClientAwaited ==
  ASSUME Typed, NEW c \in Connection, RunsConversation(c), ClientStep(c), link[c] = "up",
         link'[c] = "up", link \in [Connection -> {"up", "down"}], Awaits(c)
  PROVE  Awaits(c)'
<1> DEFINE k == client[c]
<1>1. /\ client \in [Connection -> ClientRecord] /\ k \in ClientRecord /\ k.isOpen /\ isOpen[c]
      /\ k.role \in {"worker", "consumer"} /\ k.signing \subseteq Challenge /\ k.checks \in Nat
  BY TurnTyped DEF Typed, ClientTyped, Awaits, RunsConversation, ClientRecord
<1>2. ASSUME NEW f \in ClientFrame, ClientSends(c, <<f>>)
      PROVE  /\ \A kind : Holds(toGateway[c], kind) => Holds(toGateway'[c], kind)
             /\ \A kind : f \in kind => Holds(toGateway'[c], kind)
  BY <1>1, <1>2, SentIsHeld
<1>3. ASSUME isOpen' = isOpen, pending' = pending, device' = device, refused' = refused,
             toClient' = toClient,
             \A kind : Holds(toGateway[c], kind) => Holds(toGateway'[c], kind),
             client'[c].isOpen = k.isOpen, client'[c].isRegistered = k.isRegistered,
             client'[c].hasKeyPair = k.hasKeyPair,
             k.isRenewing => client'[c].isRenewing \/ Starting(c)',
             k.checks > 0 => client'[c].checks > 0 \/ Registering(c)',
             \/ client'[c].conversation = k.conversation /\ (Talking(c) /\ k.conversation = "open" => Talking(c)')
             \/ client'[c].conversation = "settled" /\ (k.isRegistered \/ Registering(c)')
      PROVE  Awaits(c)'
  <2>1. (Starting(c) => Starting(c)') /\ (Registering(c) => Registering(c)')
    BY <1>3 DEF Starting, Registering
  <2> QED
    BY <1>1, <1>3, <2>1 DEF Awaits
<1>4. CASE ReceiveFrame(c)
  BY <1>4, ReceiveAwaited
<1>5. CASE OfferStages(c)
  <2> DEFINE z == [client[c] EXCEPT !.checks = @ - 1]
  <2>1. client'[c] = z /\ ClientSends(c, <<Registration(c)>>)
    BY <1>1, <1>5 DEF OfferStages
  <2>2. /\ z.isOpen = k.isOpen /\ z.isRenewing = k.isRenewing /\ z.isRegistered = k.isRegistered
        /\ z.hasKeyPair = k.hasKeyPair /\ z.conversation = k.conversation /\ z.signing = k.signing
    BY <1>1 DEF ClientRecord
  <2> HIDE DEF z
  <2>3. Registration(c) \in ClientFrame /\ Registration(c) \in Offers
    <3>1. Registration(c) \in ClientFrame
      BY <1>1 DEF Registration, ClientFrame
    <3>2. Registration(c).type = "deviceRegister" /\ Registration(c).areStagesDefined = TRUE
      BY DEF Registration
    <3> QED
      BY <3>1, <3>2 DEF Offers, Registers, Asks
  <2>4. /\ \A kind : Holds(toGateway[c], kind) => Holds(toGateway'[c], kind)
        /\ Registering(c)'
    BY <1>2, <2>1, <2>3 DEF Registering
  <2>5. isOpen' = isOpen /\ pending' = pending /\ device' = device /\ refused' = refused
        /\ toClient' = toClient
    BY <1>5 DEF OfferStages
  <2>6. Talking(c) => Talking(c)'
    BY <2>1, <2>2, <2>4, <2>5 DEF Talking
  <2> QED
    BY <1>3, <2>1, <2>2, <2>4, <2>5, <2>6
<1>6. CASE RenewSession(c)
  <2> DEFINE z == [client[c] EXCEPT !.isRenewing = FALSE]
  <2>1. /\ client'[c] = z /\ ClientSends(c, <<Authenticate>>) /\ isOpen' = isOpen /\ pending' = pending
        /\ device' = device /\ refused' = refused /\ toClient' = toClient
    BY <1>1, <1>6 DEF RenewSession, OnlyClient
  <2>2. /\ z.isOpen = k.isOpen /\ z.checks = k.checks /\ z.isRegistered = k.isRegistered
        /\ z.hasKeyPair = k.hasKeyPair /\ z.conversation = k.conversation /\ z.signing = k.signing
    BY <1>1 DEF ClientRecord
  <2> HIDE DEF z
  <2>3. Authenticate \in ClientFrame /\ Authenticate \in {Authenticate}
    BY DEF Authenticate, ClientFrame
  <2>4. /\ \A kind : Holds(toGateway[c], kind) => Holds(toGateway'[c], kind)
        /\ Starting(c)'
    BY <1>2, <2>1, <2>3 DEF Starting
  <2>5. Talking(c) => Talking(c)'
    BY <2>1, <2>2, <2>4 DEF Talking
  <2> QED
    BY <1>3, <2>1, <2>2, <2>4, <2>5
<1>7. CASE DoWork(c)
  <2>1. /\ client' = client /\ ClientSends(c, <<Type("work")>>) /\ isOpen' = isOpen /\ pending' = pending
        /\ device' = device /\ refused' = refused /\ toClient' = toClient
    BY <1>7 DEF DoWork, OnlyClient
  <2>2. Type("work") \in ClientFrame
    BY DEF Type, ClientFrame
  <2>3. \A kind : Holds(toGateway[c], kind) => Holds(toGateway'[c], kind)
    BY <1>2, <2>1, <2>2
  <2>4. Talking(c) => Talking(c)'
    BY <2>1, <2>3 DEF Talking
  <2> QED
    BY <1>3, <2>1, <2>3, <2>4
<1>8. ASSUME NEW v \in client[c].signing, Sign(c, v)
      PROVE  Awaits(c)'
  <2> DEFINE z == [client[c] EXCEPT !.signing = @ \ {v}]
             f == [type |-> "account.authenticate", account |-> AccountOf[c], signature |-> SignedBy(c, v)]
  <2>1. /\ client'[c] = z /\ ClientSends(c, <<f>>) /\ isOpen' = isOpen /\ pending' = pending
        /\ device' = device /\ refused' = refused /\ toClient' = toClient
    BY <1>1, <1>8 DEF Sign
  <2>2. /\ z.isOpen = k.isOpen /\ z.isRenewing = k.isRenewing /\ z.isRegistered = k.isRegistered
        /\ z.hasKeyPair = k.hasKeyPair /\ z.conversation = k.conversation /\ z.checks = k.checks
    BY <1>1 DEF ClientRecord
  <2>3. f \in ClientFrame /\ f \in Asks
    BY <1>1, <1>8, SignedByIsASignature, GatewayAccountsAssumption DEF ClientFrame, Asks
  <2> HIDE DEF z, f
  <2>4. /\ \A kind : Holds(toGateway[c], kind) => Holds(toGateway'[c], kind)
        /\ Talking(c)'
    BY <1>2, <2>1, <2>3 DEF Talking
  <2> QED
    BY <1>3, <2>1, <2>2, <2>4
<1>9. ASSUME NEW v \in client[c].signing, SignFails(c, v)
      PROVE  Awaits(c)'
  <2>1. /\ client' = [client EXCEPT ![c] = [Settle(c).client EXCEPT !.signing = @ \ {v}]]
        /\ ClientSends(c, Settle(c).frames) /\ isOpen' = isOpen /\ pending' = pending
        /\ device' = device /\ refused' = refused /\ toClient' = toClient
    BY <1>9 DEF SignFails, OnlyClient
  <2>2. CASE k.conversation # "open"
    <3> DEFINE z == [client[c] EXCEPT !.signing = @ \ {v}]
    <3>1. client'[c] = z /\ ClientSends(c, <<>>)
      BY <1>1, <2>1, <2>2 DEF Settle, Nothing
    <3>2. /\ z.isOpen = k.isOpen /\ z.isRenewing = k.isRenewing /\ z.isRegistered = k.isRegistered
          /\ z.hasKeyPair = k.hasKeyPair /\ z.conversation = k.conversation /\ z.checks = k.checks
      BY <1>1 DEF ClientRecord
    <3> HIDE DEF z
    <3>3. \A kind : Holds(toGateway[c], kind) => Holds(toGateway'[c], kind)
      BY <1>1, <3>1, SentIsHeld
    <3> QED
      BY <1>3, <2>1, <2>2, <3>1, <3>2, <3>3
  <2>3. CASE k.conversation = "open"
    <3> DEFINE y == [client[c] EXCEPT !.conversation = "settled"]
               z == [y EXCEPT !.signing = @ \ {v}]
    <3>1. client'[c] = z /\ ClientSends(c, OnSettled(c))
      BY <1>1, <2>1, <2>3 DEF Settle
    <3>2. /\ z.isOpen = k.isOpen /\ z.isRenewing = k.isRenewing /\ z.isRegistered = k.isRegistered
          /\ z.hasKeyPair = k.hasKeyPair /\ z.conversation = "settled" /\ z.checks = k.checks
      BY <1>1 DEF ClientRecord
    <3> HIDE DEF z
    <3>3. /\ k.isRegistered => OnSettled(c) = <<>>
          /\ ~k.isRegistered => \E f \in ClientFrame : f \in Offers /\ OnSettled(c) = <<f>>
      BY SettledRegisters
    <3>4. /\ \A kind : Holds(toGateway[c], kind) => Holds(toGateway'[c], kind)
          /\ \A f \in ClientFrame : OnSettled(c) = <<f>> =>
               \A kind : f \in kind => Holds(toGateway'[c], kind)
      BY <1>1, <3>1, <3>3, SentIsHeld
    <3>5. k.isRegistered \/ Registering(c)'
      BY <3>3, <3>4 DEF Registering
    <3> QED
      BY <1>3, <2>1, <3>1, <3>2, <3>4, <3>5
  <2> QED
    BY <2>2, <2>3
<1>10. CASE OtherSends(c) \/ OtherReceives(c)
  BY <1>1, <1>10 DEF OtherSends, OtherReceives
<1>11. CASE LinkFails(c) \/ ClientCloses(c)
  BY <1>1, <1>11 DEF LinkFails, ClientCloses
<1> QED
  BY <1>4, <1>5, <1>6, <1>7, <1>8, <1>9, <1>10, <1>11 DEF ClientStep

\* At first the token of every client is on its way.
LEMMA InitAwaited ==
  ASSUME Init
  PROVE  AwaitsInv
<1> DEFINE isThere(cast, c) == cast[c].role # "absent"
           Clients(cast, keyPair) ==
             [c \in Connection |->
                [role |-> cast[c].role, hasKeyPair |-> keyPair[c], isOpen |-> isThere(cast, c),
                 conversation |-> "none", isRegistered |-> FALSE, isRenewing |-> FALSE,
                 signing |-> {}, checks |-> 0]]
<1>1. PICK cast \in Casts :
        /\ GatewayInit
        /\ isOpen = [c \in Connection |-> isThere(cast, c)]
        /\ \E keyPair \in [Connection -> BOOLEAN] :
             /\ \A c \in Connection : cast[c].role \in {"worker", "consumer"} \/ keyPair[c]
             /\ client = Clients(cast, keyPair)
        /\ toGateway = [c \in Connection |-> IF isThere(cast, c) THEN <<Authenticate>> ELSE <<>>]
        /\ link = [c \in Connection |-> IF isThere(cast, c) THEN "up" ELSE "down"]
        /\ sent = [c \in Connection |-> MaxMessages - cast[c].messages]
        /\ signatures = {}
  BY Zenon DEF Init
<1>2. PICK keyPair \in [Connection -> BOOLEAN] : client = Clients(cast, keyPair)
  BY <1>1
<1>3. link \in [Connection -> {"up", "down"}]
  BY <1>1
<1>4. ASSUME NEW c \in Connection, IsUp(c)
      PROVE  Awaits(c)
  <2>1. /\ isThere(cast, c) /\ isOpen[c] /\ client[c].isOpen /\ client[c].conversation = "none"
        /\ device[c] = None /\ toGateway[c] = <<Authenticate>>
    BY <1>1, <1>2, <1>4 DEF IsUp, GatewayInit
  <2>2. Starting(c)
    <3>1. 1 \in DOMAIN toGateway[c] /\ toGateway[c][1] \in {Authenticate}
      BY <2>1
    <3> QED
      BY <3>1 DEF Starting, Holds
  <2> QED
    BY <2>1, <2>2 DEF Awaits
<1> QED
  BY <1>3, <1>4 DEF AwaitsInv

\* Every step keeps those that are connected from waiting for nothing.
LEMMA NextAwaited ==
  ASSUME Typed, AwaitsInv, [Next]_vars
  PROVE  AwaitsInv'
<1>1. link \in [Connection -> {"up", "down"}]
  BY DEF AwaitsInv
<1>2. CASE UNCHANGED vars
  BY <1>2 DEF vars, gatewayVars, AwaitsInv, IsUp, RunsConversation, Awaits, Starting, Talking, Registering
<1>3. CASE Next
  <2>1. PICK c \in Connection : GatewayStep(c) \/ ClientStep(c)
    BY <1>3 DEF Next
  <2>2. link' = link \/ link' = [link EXCEPT ![c] = "down"]
    BY <2>1 DEF GatewayStep, ClientStep, ReceiveFrame, OfferStages, RenewSession, DoWork, Sign, SignFails,
                OtherSends, OtherReceives, LinkFails, ClientCloses, OnlyClient
  <2>3. link' \in [Connection -> {"up", "down"}] /\ \A d \in Connection : link'[d] = "up" => link[d] = "up"
    BY <1>1, <2>2
  <2>4. /\ OthersSame(c) /\ client'[c].role = client[c].role
    <3>1. CASE GatewayStep(c)
      <4>1. client' = client
        BY <3>1 DEF GatewayStep
      <4> QED
        BY <3>1, <4>1, GatewayReadsTurn, GatewayAnswersTurn, GatewayTimeTurn DEF GatewayStep
    <3>2. CASE ClientStep(c)
      BY <3>2, ClientStepOthers
    <3> QED
      BY <2>1, <3>1, <3>2
  <2>5. \A d \in Connection \ {c} : isOpen'[d] = isOpen[d] /\ (d \in refused => d \in refused')
    BY <2>1 DEF Typed, GatewayTypeOK, GatewayStep, GatewayReads, GatewayAnswers, RefuseOutsideSession,
                DeviceAuthenticate, PipelinesGet, DeviceRegister, Work, AccountRegister, ChallengeRequest,
                AccountAuthenticate, RegisterAccount, VerifySignature, VerificationThrows, SessionLapses,
                ChallengeLapses, CloseConnection, ClientStep, ReceiveFrame, OfferStages, RenewSession,
                DoWork, Sign, SignFails, OtherSends, OtherReceives, LinkFails, ClientCloses, OnlyClient,
                gatewayVars
  <2>6. ASSUME NEW d \in Connection, d # c, IsUp(d)'
        PROVE  Awaits(d)'
    <3>1. /\ toGateway'[d] = toGateway[d] /\ toClient'[d] = toClient[d] /\ pending'[d] = pending[d]
          /\ device'[d] = device[d] /\ client'[d] = client[d]
      BY <2>4, <2>6 DEF OthersSame
    <3>2. Awaits(d)
      BY <2>3, <2>6, <3>1 DEF AwaitsInv, IsUp, RunsConversation
    <3> QED
      BY <2>5, <2>6, <3>1, <3>2 DEF Awaits, Starting, Talking, Registering
  <2>7. ASSUME IsUp(c)'
        PROVE  Awaits(c)'
    <3>1. RunsConversation(c) /\ link[c] = "up" /\ link'[c] = "up" /\ Awaits(c)
      BY <2>3, <2>4, <2>7 DEF AwaitsInv, IsUp, RunsConversation
    <3>2. CASE GatewayStep(c)
      <4>1. UNCHANGED <<client, link>>
        BY <3>2 DEF GatewayStep
      <4>2. CASE SessionLapses(c) \/ ChallengeLapses(c)
        <5>1. UNCHANGED <<isOpen, pending, device, toGateway, toClient, refused, client>>
          BY <4>1, <4>2 DEF SessionLapses, ChallengeLapses
        <5> QED
          BY <3>1, <5>1 DEF Awaits, Starting, Talking, Registering
      <4> QED
        BY <3>1, <3>2, <4>1, <4>2, ReadsAwaited, AnswersAwaited DEF GatewayStep
    <3>3. CASE ClientStep(c)
      BY <1>1, <3>1, <3>3, ClientAwaited
    <3> QED
      BY <2>1, <3>2, <3>3
  <2> QED
    BY <2>3, <2>6, <2>7 DEF AwaitsInv
<1> QED
  BY <1>2, <1>3

LEMMA AwaitsInductive == Spec => []AwaitsInv
<1>1. Init => AwaitsInv
  BY InitAwaited
<1>2. ConnectionInv /\ AwaitsInv /\ [Next]_vars => AwaitsInv'
  BY NextAwaited DEF ConnectionInv
<1> QED
  BY <1>1, <1>2, ConnectionInductive, PTL DEF Spec

\* scheduleSessionRenewal: while a client is connected its next session is
\* on its way or the timer that asks for it is armed, whatever was refused meanwhile.
THEOREM RenewalIsKeptUp == Spec => []RenewalGoesOn
<1>1. AwaitsInv => RenewalGoesOn
  BY DEF AwaitsInv, Awaits, RenewalGoesOn
<1> QED
  BY <1>1, AwaitsInductive, PTL

\* AccountAuthentication and onSettled: a client that is connected, not registered and was
\* refused nothing has the next thing of its conversation, or of its registration, on its
\* way, being computed or in hand.
THEOREM NobodyIsStuck == Spec => []NobodyWaitsForNothing
<1>1. ASSUME AwaitsInv, TurnInv, Typed
      PROVE  NobodyWaitsForNothing
  <2> SUFFICES ASSUME NEW c \in Connection, IsUp(c), c \notin refused
               PROVE  \/ client[c].isRegistered
                      \/ client[c].conversation = "none" /\ Starting(c)
                      \/ client[c].conversation = "open" /\ Talking(c)
                      \/ (client[c].conversation = "settled" \/ ~client[c].hasKeyPair) /\ Registering(c)
    BY DEF NobodyWaitsForNothing
  <2>1. Awaits(c)
    BY <1>1 DEF AwaitsInv
  <2>2. CASE device[c] # None /\ ~client[c].isRegistered
    <3>1. Holds(toClient[c], Confirmations) /\ client[c].isOpen
      BY <2>1, <2>2 DEF Awaits
    <3>2. Confirmations \subseteq Registered
      BY DEF Confirmations, Registered, GatewayFrame
    <3>3. Registering(c)
      BY <3>1, <3>2 DEF Registering, Holds
    <3>4. client[c].hasKeyPair \in BOOLEAN
      BY <1>1, TurnTyped DEF ClientRecord
    <3>5. client[c].hasKeyPair => client[c].conversation = "settled"
      BY <1>1, <2>2, <3>1 DEF TurnInv, InTurn, Converses, IsUp
    <3> QED
      BY <3>3, <3>5
  <2> QED
    BY <2>1, <2>2 DEF Awaits
<1> QED
  BY <1>1, AwaitsInductive, TurnsInductive, ConnectionInductive, PTL DEF ConnectionInv
=============================================================================
