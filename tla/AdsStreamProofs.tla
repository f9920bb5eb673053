--------------------------- MODULE AdsStreamProofs ---------------------------
(***************************************************************************)
(* Theorems about AdsStream, for any clusters, routes, configs, streams    *)
(* and rejections.                                                         *)
(***************************************************************************)
EXTENDS AdsStream, SequenceTheorems, TLAPS

-----------------------------------------------------------------------------
(* The inductive invariant. *)

Versions == Configs \cup {None}
Connection ==
    [open : BOOLEAN, handler : Handlers, scope : Versions,
     CDSWatch : BOOLEAN, LDSWatch : BOOLEAN,
     Clusters : SUBSET Clusters, Routes : SUBSET Routes,
     RouteNonceSent : Nat, RouteVersionInfoSent : Versions]
EnvoyState ==
    [cds : Versions, lds : Versions, clusters : SUBSET Clusters, routes : SUBSET Routes,
     eds : [Clusters -> Versions], rds : [Routes -> Versions],
     wantsLDS : BOOLEAN, edsNonce : {0, 1}, rdsNonce : Nat,
     rdsVersion : Versions, rejected : SUBSET Types]

PilotTypes ==
    /\ version \in Configs
    /\ con \in [Streams -> Connection]
    /\ \A s \in Streams : con[s].handler # "new" => con[s].scope \in Configs
    /\ EdsClients \in [Clusters -> SUBSET Streams]

PushTypes ==
    /\ config \in Configs /\ launched \in SUBSET (0 .. config)
    /\ todo \in [Streams -> SUBSET (0 .. config)]
    /\ due \in [Streams -> (0 .. config) \cup {None}]
    /\ excused \in [Streams -> BOOLEAN]

(* A list of names is a list of the kind that is asked for. *)
RightNames(req) ==
    /\ req.type = "EDS" => req.names \subseteq Clusters
    /\ req.type = "RDS" => req.names \subseteq Routes

NetTypes ==
    /\ stream \in 0 .. MaxStreams /\ opened \in 0 .. MaxStreams
    /\ requests \in Seq(Request) /\ responses \in Seq(Response)
    /\ \A i \in 1..Len(requests) : RightNames(requests[i])

EnvoyTypes == envoy \in EnvoyState /\ rejects \in 0 .. MaxRejects

(* Streams are opened one after the other; only the current one carries    *)
(* anything; a connection whose stream never was is as new.                *)
StreamInv ==
    /\ stream \in {0, opened}
    /\ stream = 0 => requests = <<>> /\ responses = <<>>
    /\ stream # 0 => con[stream].open
    /\ \A s \in Streams : s > opened => ~con[s].open

(* EdsClients and the connections' lists of clusters agree. *)
ClientsInv ==
    \A x \in Clusters :
        EdsClients[x] = {s \in Streams : con[s].open /\ x \in con[s].Clusters}

(* The messages of a type in a sequence, the last one, and that each of    *)
(* one type comes before one of another.                                   *)
Has(q, type) == \E i \in 1..Len(q) : q[i].type = type
Last(q, type, i) ==
    i \in 1..Len(q) /\ q[i].type = type /\ \A j \in 1..Len(q) : j > i => q[j].type # type
Followed(q, type, next) ==
    \A i \in 1..Len(q) : q[i].type = type =>
        \E j \in 1..Len(q) : j > i /\ q[j].type = next

(* The first request of a stream is for clusters. *)
FirstInv ==
    stream # 0 =>
        /\ con[stream].handler = "select" => con[stream].CDSWatch
        /\ con[stream].handler # "select" =>
              /\ ~con[stream].CDSWatch /\ ~con[stream].LDSWatch
              /\ con[stream].Clusters = {} /\ con[stream].Routes = {}
              /\ requests # <<>> /\ requests[1].type = "CDS"
              /\ responses = <<>>

(* Routes are asked for after listeners, and listeners once they are       *)
(* wanted.                                                                 *)
RoutesPreceded(q) ==
    \A i \in 1..Len(q) : q[i].type = "RDS" /\ ~q[i].nack =>
        \E j \in 1..Len(q) : j < i /\ q[j].type = "LDS"

ListenersInv ==
    stream # 0 /\ ~con[stream].LDSWatch =>
        /\ con[stream].Routes = {}
        /\ ~Has(responses, "LDS") /\ ~Has(responses, "RDS")
        /\ envoy.wantsLDS => Has(requests, "LDS")
        /\ RoutesPreceded(requests)

(* Nothing about listeners happens before they are wanted. *)
WantedInv ==
    ~envoy.wantsLDS =>
        /\ envoy.routes = {}
        /\ stream # 0 => ~con[stream].LDSWatch /\ ~Has(requests, "LDS")

(* The requests that count: those that are no rejections and, for routes,  *)
(* have the nonce of the last response.                                    *)
Counts(req, type, nonce) ==
    req.type = type /\ ~req.nack /\ (type = "RDS" => req.nonce = nonce)
Asks(q, type, nonce) == \E i \in 1..Len(q) : Counts(q[i], type, nonce)
LastAsk(q, type, nonce, i) ==
    /\ i \in 1..Len(q) /\ Counts(q[i], type, nonce)
    /\ \A j \in 1..Len(q) : j > i => ~Counts(q[j], type, nonce)

(* The last request that counts says what Envoy wants now; when there is   *)
(* none Pilot watches it, or else there is nothing left to watch.          *)
EndpointsAsked ==
    stream # 0 =>
        /\ \A i : LastAsk(requests, "EDS", 0, i) => requests[i].names = envoy.clusters
        /\ ~Asks(requests, "EDS", 0) =>
              envoy.clusters = {} \/ con[stream].Clusters = envoy.clusters

Settled(type) == stream # 0 /\ ~Has(responses, type) /\ type \notin envoy.rejected

(* An acknowledgement that changes the list carries the nonce and the      *)
(* version of the last response, so that Pilot compares the lists.         *)
RoutesAsked ==
    Settled("RDS") =>
        /\ envoy.rdsNonce = con[stream].RouteNonceSent
        /\ \/ con[stream].RouteNonceSent = 0
           \/ envoy.rdsVersion = con[stream].RouteVersionInfoSent
        /\ \A i : LastAsk(requests, "RDS", con[stream].RouteNonceSent, i) =>
              /\ requests[i].names = envoy.routes
              /\ \/ con[stream].RouteNonceSent = 0
                 \/ requests[i].version = con[stream].RouteVersionInfoSent
        /\ ~Asks(requests, "RDS", con[stream].RouteNonceSent) =>
              con[stream].Routes = envoy.routes

(* The last response of a type is from the connection's scope and for what *)
(* is watched.                                                             *)
Fresh(context) == context = con[stream].scope

ResponsesFresh ==
    stream # 0 =>
        /\ \A i : Last(responses, "CDS", i) => Fresh(responses[i].context)
        /\ \A i : Last(responses, "LDS", i) => Fresh(responses[i].context)

EndpointsSent ==
    stream # 0 => \A i : Last(responses, "EDS", i) =>
        /\ responses[i].names = con[stream].Clusters
        /\ Fresh(responses[i].context) \/ con[stream].Clusters = {}

RoutesSent ==
    stream # 0 => \A i : Last(responses, "RDS", i) =>
        /\ responses[i].names = con[stream].Routes
        /\ responses[i].nonce = con[stream].RouteNonceSent
        /\ responses[i].version = con[stream].RouteVersionInfoSent
        /\ Fresh(responses[i].context) \/ con[stream].Routes = {}

(* Clusters under way are followed by the endpoints of what is watched,    *)
(* listeners by routes.                                                    *)
WarmInv ==
    stream # 0 =>
        /\ con[stream].Clusters # {} => Followed(responses, "CDS", "EDS")
        /\ con[stream].Routes # {} => Followed(responses, "LDS", "RDS")

(* What Envoy has, of types that are not under way and not rejected. *)
EnvoyFresh ==
    /\ Settled("CDS") /\ con[stream].CDSWatch => Fresh(envoy.cds)
    /\ Settled("LDS") /\ con[stream].LDSWatch => Fresh(envoy.lds)
    /\ Settled("EDS") =>
          \A x \in envoy.clusters \cap con[stream].Clusters : Fresh(envoy.eds[x])
    /\ Settled("RDS") =>
          \A x \in envoy.routes \cap con[stream].Routes : Fresh(envoy.rds[x])

(* Only for the stream's connection a push is under way, once it is in     *)
(* adsClients; then the latest config is not published in full yet, or on  *)
(* its way to the connection, or there, or a known cause struck.           *)
Reaches(s) ==
    \/ version # config \/ config \in launched \/ config \in todo[s] \/ due[s] = config
    \/ con[s].scope = config /\ due[s] = None
    \/ excused[s]

PushInv ==
    /\ \A s \in Streams : s # stream \/ ~Tracked(con[s]) => todo[s] = {} /\ due[s] = None
    /\ stream # 0 /\ Tracked(con[stream]) => Reaches(stream)

AdsInv ==
    /\ PilotTypes /\ NetTypes /\ EnvoyTypes
    /\ StreamInv /\ ClientsInv /\ FirstInv
    /\ ListenersInv /\ WantedInv
    /\ EndpointsAsked /\ RoutesAsked
    /\ ResponsesFresh /\ EndpointsSent /\ RoutesSent /\ WarmInv /\ EnvoyFresh
    /\ PushTypes /\ PushInv

-----------------------------------------------------------------------------
(* Sequences of messages. *)

Sends(S, q, m, r) ==
    /\ r \in Seq(S) /\ r # <<>>
    /\ Len(r) = Len(q) + 1 /\ r[Len(q) + 1] = m
    /\ \A i \in 1..Len(q) : i \in 1..Len(r) /\ r[i] = q[i]
    /\ \A i \in 1..Len(r) : i \in 1..Len(q) \/ i = Len(q) + 1
    /\ \A type : Has(r, type) <=> Has(q, type) \/ m.type = type
    /\ \A type, i : Last(r, type, i) <=>
          \/ i = Len(q) + 1 /\ m.type = type
          \/ m.type # type /\ Last(q, type, i)
    /\ \A type, next : Followed(q, type, next) /\ m.type # type => Followed(r, type, next)
    /\ \A type, next : type # next /\ m.type = next => Followed(r, type, next)

(* A message sent. *)
LEMMA SendFacts ==
    ASSUME NEW S, NEW q \in Seq(S), NEW m \in S, NEW r, r = Append(q, m)
    PROVE  Sends(S, q, m, r)
<1>1. /\ r \in Seq(S) /\ r # <<>>
      /\ Len(q) \in Nat /\ Len(r) = Len(q) + 1 /\ r[Len(q) + 1] = m
      /\ \A i \in 1..Len(q) : r[i] = q[i]
  BY AppendProperties
<1>2. /\ \A i \in 1..Len(q) : i \in 1..Len(r) /\ i < Len(q) + 1
      /\ \A i \in 1..Len(r) : i \in 1..Len(q) \/ i = Len(q) + 1
      /\ Len(q) + 1 \in 1..Len(r)
  BY <1>1
<1>3. ASSUME NEW type PROVE Has(r, type) <=> Has(q, type) \/ m.type = type
  BY <1>1, <1>2 DEF Has
<1>4. ASSUME NEW type, NEW i
      PROVE  Last(r, type, i) <=> \/ i = Len(q) + 1 /\ m.type = type
                                  \/ m.type # type /\ Last(q, type, i)
  <2>1. CASE i = Len(q) + 1
    <3>1. i \notin 1..Len(q) /\ \A j \in 1..Len(r) : ~(j > i)
      BY <1>1, <2>1
    <3> QED
      BY <1>1, <1>2, <2>1, <3>1 DEF Last
  <2>2. CASE i \in 1..Len(q)
    <3>1. i # Len(q) + 1 /\ Len(q) + 1 > i /\ r[i] = q[i] /\ i \in 1..Len(r)
      BY <1>1, <1>2, <2>2
    <3>2. (\A j \in 1..Len(r) : j > i => r[j].type # type) <=>
             m.type # type /\ \A j \in 1..Len(q) : j > i => q[j].type # type
      BY <1>1, <1>2, <3>1
    <3> QED
      BY <2>2, <3>1, <3>2 DEF Last
  <2>3. CASE i \notin 1..Len(q) /\ i # Len(q) + 1
    BY <1>2, <2>3 DEF Last
  <2> QED BY <2>1, <2>2, <2>3
<1>5. ASSUME NEW type, NEW next, Followed(q, type, next), m.type # type
      PROVE  Followed(r, type, next)
  <2> SUFFICES ASSUME NEW i \in 1..Len(r), r[i].type = type
               PROVE  \E j \in 1..Len(r) : j > i /\ r[j].type = next
    BY DEF Followed
  <2>1. i \in 1..Len(q) /\ q[i].type = type
    BY <1>1, <1>2, <1>5
  <2>2. PICK j \in 1..Len(q) : j > i /\ q[j].type = next
    BY <1>5, <2>1 DEF Followed
  <2> QED BY <1>1, <1>2, <2>2
<1>6. ASSUME NEW type, NEW next, type # next, m.type = next
      PROVE  Followed(r, type, next)
  <2> SUFFICES ASSUME NEW i \in 1..Len(r), r[i].type = type
               PROVE  \E j \in 1..Len(r) : j > i /\ r[j].type = next
    BY DEF Followed
  <2>1. i \in 1..Len(q)
    BY <1>1, <1>2, <1>6
  <2> QED BY <1>1, <1>2, <1>6, <2>1
<1> QED
  BY <1>1, <1>2, <1>3, <1>4, <1>5, <1>6 DEF Sends

Takes(S, q, r) ==
    /\ r \in Seq(S) /\ Head(q) = q[1] /\ 1 \in 1..Len(q) /\ Head(q) \in S
    /\ \A i \in 1..Len(r) : i + 1 \in 1..Len(q) /\ r[i] = q[i + 1]
    /\ \A type : Has(q, type) <=> Has(r, type) \/ Head(q).type = type
    /\ \A type, i : Last(r, type, i) => Last(q, type, i + 1) /\ r[i] = q[i + 1]
    /\ \A type : Head(q).type = type /\ ~Has(r, type) => Last(q, type, 1)
    /\ \A type, next : Followed(q, type, next) =>
          Followed(r, type, next) /\ (Head(q).type = type => Has(r, next))

(* The first message received. *)
LEMMA TakeFacts ==
    ASSUME NEW S, NEW q \in Seq(S), q # <<>>, NEW r, r = Tail(q)
    PROVE  Takes(S, q, r)
<1>1. /\ r \in Seq(S) /\ Head(q) \in S
      /\ Len(q) \in Nat /\ Len(q) > 0 /\ Len(r) = Len(q) - 1 /\ Head(q) = q[1]
      /\ \A i \in 1..Len(r) : r[i] = q[i + 1]
  BY HeadTailProperties
<1>2. /\ \A i \in 1..Len(r) : i + 1 \in 1..Len(q) /\ i + 1 > 1
      /\ \A i \in 1..Len(q) : i = 1 \/ (i - 1 \in 1..Len(r) /\ (i - 1) + 1 = i /\ r[i - 1] = q[i])
      /\ \A i, j \in 1..Len(r) : j > i <=> j + 1 > i + 1
      /\ 1 \in 1..Len(q)
  BY <1>1
<1>3. ASSUME NEW type PROVE Has(q, type) <=> Has(r, type) \/ Head(q).type = type
  BY <1>1, <1>2 DEF Has
<1>4. ASSUME NEW type, NEW i, Last(r, type, i)
      PROVE  Last(q, type, i + 1) /\ r[i] = q[i + 1]
  <2>1. i \in 1..Len(r) /\ i + 1 \in 1..Len(q) /\ r[i] = q[i + 1] /\ q[i + 1].type = type
    BY <1>1, <1>2, <1>4 DEF Last
  <2>2. ASSUME NEW j \in 1..Len(q), j > i + 1 PROVE q[j].type # type
    <3>1. j - 1 \in 1..Len(r) /\ j - 1 > i /\ r[j - 1] = q[j]
      BY <1>1, <1>2, <2>1, <2>2
    <3>2. \A k \in 1..Len(r) : k > i => r[k].type # type
      BY <1>4 DEF Last
    <3>3. r[j - 1].type # type
      BY <3>1, <3>2
    <3> QED BY <3>1, <3>3
  <2> QED BY <2>1, <2>2 DEF Last
<1>5. ASSUME NEW type, Head(q).type = type, ~Has(r, type) PROVE Last(q, type, 1)
  <2>1. ASSUME NEW j \in 1..Len(q), j > 1 PROVE q[j].type # type
    <3>1. j - 1 \in 1..Len(r) /\ r[j - 1] = q[j]
      BY <1>2, <2>1
    <3>2. \A k \in 1..Len(r) : r[k].type # type
      BY <1>5 DEF Has
    <3>3. r[j - 1].type # type
      BY <3>1, <3>2
    <3> QED BY <3>1, <3>3
  <2> QED BY <1>1, <1>2, <1>5, <2>1 DEF Last
<1>6. ASSUME NEW type, NEW next, Followed(q, type, next)
      PROVE  Followed(r, type, next) /\ (Head(q).type = type => Has(r, next))
  <2>1. ASSUME NEW i \in 1..Len(r), r[i].type = type
        PROVE  \E j \in 1..Len(r) : j > i /\ r[j].type = next
    <3>1. i + 1 \in 1..Len(q) /\ q[i + 1].type = type
      BY <1>1, <1>2, <2>1
    <3>2. PICK j \in 1..Len(q) : j > i + 1 /\ q[j].type = next
      BY <1>6, <3>1 DEF Followed
    <3>3. j - 1 \in 1..Len(r) /\ j - 1 > i /\ r[j - 1] = q[j]
      BY <1>1, <1>2, <3>2
    <3> QED BY <3>2, <3>3
  <2>2. ASSUME Head(q).type = type PROVE Has(r, next)
    <3>1. PICK j \in 1..Len(q) : j > 1 /\ q[j].type = next
      BY <1>1, <1>2, <1>6, <2>2 DEF Followed
    <3>2. j - 1 \in 1..Len(r) /\ r[j - 1] = q[j]
      BY <1>1, <1>2, <3>1
    <3> QED BY <3>1, <3>2 DEF Has
  <2> QED BY <2>1, <2>2 DEF Followed
<1> QED
  BY <1>1, <1>2, <1>3, <1>4, <1>5, <1>6 DEF Takes

(* The same about the requests that count. *)
LEMMA AskFacts ==
    ASSUME NEW S, NEW q \in Seq(S), NEW m \in S, NEW r, r = Append(q, m),
           NEW type, NEW nonce
    PROVE  /\ Asks(r, type, nonce) <=> Asks(q, type, nonce) \/ Counts(m, type, nonce)
           /\ \A i : LastAsk(r, type, nonce, i) =>
                 \/ r[i] = m /\ Counts(m, type, nonce)
                 \/ ~Counts(m, type, nonce) /\ LastAsk(q, type, nonce, i) /\ r[i] = q[i]
<1>1. /\ Len(q) \in Nat /\ Len(r) = Len(q) + 1 /\ r[Len(q) + 1] = m
      /\ \A i \in 1..Len(q) : r[i] = q[i]
  BY AppendProperties
<1>2. /\ \A i \in 1..Len(q) : i \in 1..Len(r) /\ i < Len(q) + 1
      /\ \A i \in 1..Len(r) : i \in 1..Len(q) \/ i = Len(q) + 1
      /\ Len(q) + 1 \in 1..Len(r)
  BY <1>1
<1>3. Asks(r, type, nonce) <=> Asks(q, type, nonce) \/ Counts(m, type, nonce)
  BY <1>1, <1>2 DEF Asks
<1>4. ASSUME NEW i, LastAsk(r, type, nonce, i)
      PROVE  \/ r[i] = m /\ Counts(m, type, nonce)
             \/ ~Counts(m, type, nonce) /\ LastAsk(q, type, nonce, i) /\ r[i] = q[i]
  <2>1. CASE i = Len(q) + 1
    BY <1>1, <1>4, <2>1 DEF LastAsk
  <2>2. CASE i \in 1..Len(q)
    <3>1. Len(q) + 1 > i /\ r[i] = q[i]
      BY <1>1, <1>2, <2>2
    <3>2. ~Counts(m, type, nonce)
      BY <1>1, <1>2, <1>4, <3>1 DEF LastAsk
    <3>3. LastAsk(q, type, nonce, i)
      BY <1>1, <1>2, <1>4, <2>2, <3>1 DEF LastAsk
    <3> QED BY <3>1, <3>2, <3>3
  <2> QED BY <1>2, <1>4, <2>1, <2>2 DEF LastAsk
<1> QED
  BY <1>3, <1>4

(* And when the first of them is received. *)
LEMMA AskedFacts ==
    ASSUME NEW S, NEW q \in Seq(S), q # <<>>, NEW r, r = Tail(q), NEW type, NEW nonce
    PROVE  /\ Asks(q, type, nonce) <=> Asks(r, type, nonce) \/ Counts(Head(q), type, nonce)
           /\ \A i : LastAsk(r, type, nonce, i) => LastAsk(q, type, nonce, i + 1) /\ r[i] = q[i + 1]
           /\ Counts(Head(q), type, nonce) /\ ~Asks(r, type, nonce) => LastAsk(q, type, nonce, 1)
<1>1. /\ Len(q) \in Nat /\ Len(q) > 0 /\ Len(r) = Len(q) - 1 /\ Head(q) = q[1]
      /\ \A i \in 1..Len(r) : r[i] = q[i + 1]
  BY HeadTailProperties
<1>2. /\ \A i \in 1..Len(r) : i + 1 \in 1..Len(q)
      /\ \A i \in 1..Len(q) : i = 1 \/ (i - 1 \in 1..Len(r) /\ r[i - 1] = q[i])
      /\ 1 \in 1..Len(q)
  BY <1>1
<1>3. Asks(q, type, nonce) <=> Asks(r, type, nonce) \/ Counts(Head(q), type, nonce)
  BY <1>1, <1>2 DEF Asks
<1>4. ASSUME NEW i, LastAsk(r, type, nonce, i)
      PROVE  LastAsk(q, type, nonce, i + 1) /\ r[i] = q[i + 1]
  <2>1. i \in 1..Len(r) /\ i + 1 \in 1..Len(q) /\ r[i] = q[i + 1] /\ Counts(q[i + 1], type, nonce)
    BY <1>1, <1>2, <1>4 DEF LastAsk
  <2>2. ASSUME NEW j \in 1..Len(q), j > i + 1 PROVE ~Counts(q[j], type, nonce)
    <3>1. j - 1 \in 1..Len(r) /\ j - 1 > i /\ r[j - 1] = q[j]
      BY <1>1, <1>2, <2>1, <2>2
    <3>2. \A k \in 1..Len(r) : k > i => ~Counts(r[k], type, nonce)
      BY <1>4 DEF LastAsk
    <3>3. ~Counts(r[j - 1], type, nonce)
      BY <3>1, <3>2
    <3> QED BY <3>1, <3>3
  <2> QED BY <2>1, <2>2 DEF LastAsk
<1>5. ASSUME Counts(Head(q), type, nonce), ~Asks(r, type, nonce)
      PROVE  LastAsk(q, type, nonce, 1)
  <2>1. ASSUME NEW j \in 1..Len(q), j > 1 PROVE ~Counts(q[j], type, nonce)
    <3>1. j - 1 \in 1..Len(r) /\ r[j - 1] = q[j]
      BY <1>2, <2>1
    <3>2. \A k \in 1..Len(r) : ~Counts(r[k], type, nonce)
      BY <1>5 DEF Asks
    <3>3. ~Counts(r[j - 1], type, nonce)
      BY <3>1, <3>2
    <3> QED BY <3>1, <3>3
  <2> QED BY <1>1, <1>2, <1>5, <2>1 DEF LastAsk
<1> QED
  BY <1>3, <1>4, <1>5

(* Requests for routes stay behind those for listeners. *)
LEMMA PrecededFacts ==
    ASSUME NEW S, NEW q \in Seq(S), RoutesPreceded(q)
    PROVE  /\ \A m \in S : (m.type = "RDS" /\ ~m.nack => Has(q, "LDS")) =>
                 RoutesPreceded(Append(q, m))
           /\ q # <<>> /\ Head(q).type # "LDS" => RoutesPreceded(Tail(q))
           /\ q # <<>> /\ Head(q).type = "RDS" => Head(q).nack
<1>1. ASSUME NEW m \in S, m.type = "RDS" /\ ~m.nack => Has(q, "LDS")
      PROVE  RoutesPreceded(Append(q, m))
  <2>0. PICK r : r = Append(q, m)
    OBVIOUS
  <2>1. /\ Len(q) \in Nat /\ Len(r) = Len(q) + 1 /\ r[Len(q) + 1] = m
        /\ \A i \in 1..Len(q) : i \in 1..Len(r) /\ i < Len(q) + 1 /\ r[i] = q[i]
        /\ \A i \in 1..Len(r) : i \in 1..Len(q) \/ i = Len(q) + 1
    BY <2>0, AppendProperties
  <2> SUFFICES ASSUME NEW i \in 1..Len(r), r[i].type = "RDS", ~r[i].nack
               PROVE  \E j \in 1..Len(r) : j < i /\ r[j].type = "LDS"
    BY <2>0 DEF RoutesPreceded
  <2>2. CASE i \in 1..Len(q)
    <3>1. PICK j \in 1..Len(q) : j < i /\ q[j].type = "LDS"
      BY <2>1, <2>2 DEF RoutesPreceded
    <3> QED BY <2>1, <3>1
  <2>3. CASE i = Len(q) + 1
    <3>1. PICK j \in 1..Len(q) : q[j].type = "LDS"
      BY <1>1, <2>1, <2>3 DEF Has
    <3> QED BY <2>1, <2>3, <3>1
  <2> QED BY <2>1, <2>2, <2>3
<1>2. ASSUME q # <<>>
      PROVE  /\ Head(q).type # "LDS" => RoutesPreceded(Tail(q))
             /\ Head(q).type = "RDS" => Head(q).nack
  <2>0. PICK r : r = Tail(q)
    OBVIOUS
  <2>1. /\ Len(q) \in Nat /\ Len(q) > 0 /\ Len(r) = Len(q) - 1 /\ Head(q) = q[1]
        /\ \A i \in 1..Len(r) : r[i] = q[i + 1]
    BY <1>2, <2>0, HeadTailProperties
  <2>2. ASSUME Head(q).type # "LDS", NEW i \in 1..Len(r), r[i].type = "RDS", ~r[i].nack
        PROVE  \E j \in 1..Len(r) : j < i /\ r[j].type = "LDS"
    <3>1. i + 1 \in 1..Len(q) /\ q[i + 1] = r[i]
      BY <2>1
    <3>2. PICK j \in 1..Len(q) : j < i + 1 /\ q[j].type = "LDS"
      BY <2>2, <3>1 DEF RoutesPreceded
    <3>3. j # 1
      BY <2>1, <2>2, <3>2
    <3>4. j - 1 \in 1..Len(r) /\ j - 1 < i /\ r[j - 1] = q[j]
      BY <2>1, <3>2, <3>3
    <3> QED BY <3>2, <3>4
  <2>3. ASSUME Head(q).type = "RDS" PROVE Head(q).nack
    <3>1. 1 \in 1..Len(q) /\ \A j \in 1..Len(q) : ~(j < 1)
      BY <2>1
    <3> QED BY <2>1, <2>3, <3>1 DEF RoutesPreceded
  <2> QED BY <2>0, <2>2, <2>3 DEF RoutesPreceded
<1> QED
  BY <1>1, <1>2

-----------------------------------------------------------------------------
(* A request sent and received, a response sent and received. *)

AllRight(q) == \A i \in 1..Len(q) : RightNames(q[i])

RequestSent(q, m, r) ==
    /\ r \in Seq(Request) /\ r # <<>>
    /\ AllRight(q) /\ RightNames(m) => AllRight(r)
    /\ r[1] = IF q = <<>> THEN m ELSE q[1]
    /\ \A type : Has(r, type) <=> Has(q, type) \/ m.type = type
    /\ RoutesPreceded(q) /\ (m.type = "RDS" /\ ~m.nack => Has(q, "LDS")) => RoutesPreceded(r)
    /\ \A type, nonce : Asks(r, type, nonce) <=> Asks(q, type, nonce) \/ Counts(m, type, nonce)
    /\ \A type, nonce, i : LastAsk(r, type, nonce, i) =>
          \/ r[i] = m /\ Counts(m, type, nonce)
          \/ ~Counts(m, type, nonce) /\ LastAsk(q, type, nonce, i) /\ r[i] = q[i]

RequestTaken(q, r) ==
    /\ r \in Seq(Request) /\ Head(q) \in Request /\ Head(q) = q[1]
    /\ AllRight(q) => AllRight(r) /\ RightNames(Head(q))
    /\ \A type : Has(q, type) <=> Has(r, type) \/ Head(q).type = type
    /\ RoutesPreceded(q) =>
          /\ Head(q).type # "LDS" => RoutesPreceded(r)
          /\ Head(q).type = "RDS" => Head(q).nack
    /\ \A type, nonce : Asks(q, type, nonce) <=> Asks(r, type, nonce) \/ Counts(Head(q), type, nonce)
    /\ \A type, nonce, i : LastAsk(r, type, nonce, i) =>
          LastAsk(q, type, nonce, i + 1) /\ r[i] = q[i + 1]
    /\ \A type, nonce : Counts(Head(q), type, nonce) /\ ~Asks(r, type, nonce) =>
          LastAsk(q, type, nonce, 1)

ResponseTaken(q, r) ==
    /\ r \in Seq(Response) /\ Head(q) \in Response /\ Head(q) = q[1]
    /\ \A type : Has(q, type) <=> Has(r, type) \/ Head(q).type = type
    /\ \A type, i : Last(r, type, i) => Last(q, type, i + 1) /\ r[i] = q[i + 1]
    /\ \A type : Head(q).type = type /\ ~Has(r, type) => Last(q, type, 1)
    /\ \A type, next : Followed(q, type, next) =>
          Followed(r, type, next) /\ (Head(q).type = type => Has(r, next))

(* The responses to what is watched: at most one of each type. *)
ResponseSent(q, m, r) ==
    /\ r \in Seq(Response) /\ r # <<>>
    /\ \A type : Has(r, type) <=> Has(q, type) \/ m.type = type
    /\ \A type, i : Last(r, type, i) =>
          \/ r[i] = m /\ m.type = type
          \/ m.type # type /\ Last(q, type, i) /\ r[i] = q[i]
    /\ \A type, next : Followed(q, type, next) /\ m.type # type => Followed(r, type, next)
    /\ \A type, next : type # next /\ m.type = next => Followed(r, type, next)

(* What Append does to the requests under way. *)
LEMMA RequestAppended ==
    ASSUME NEW q \in Seq(Request), NEW m \in Request, NEW r, r = Append(q, m)
    PROVE  RequestSent(q, m, r)
<1>0. Sends(Request, q, m, r)
  BY SendFacts
<1>1. /\ r \in Seq(Request) /\ r # <<>>
      /\ Len(q) \in Nat
      /\ Len(r) = Len(q) + 1 /\ r[Len(q) + 1] = m
      /\ \A i \in 1..Len(q) : i \in 1..Len(r) /\ r[i] = q[i]
      /\ \A i \in 1..Len(r) : i \in 1..Len(q) \/ i = Len(q) + 1
      /\ \A type : Has(r, type) <=> Has(q, type) \/ m.type = type
  BY <1>0, LenProperties DEF Sends
<1>2. AllRight(q) /\ RightNames(m) => AllRight(r)
  BY <1>1 DEF AllRight
<1>3. r[1] = IF q = <<>> THEN m ELSE q[1]
  <2>1. CASE q = <<>>
    BY <1>1, <2>1
  <2>2. CASE q # <<>>
    BY <1>1, <2>2, EmptySeq, 1 \in 1..Len(q)
  <2> QED BY <2>1, <2>2
<1>4. RoutesPreceded(q) /\ (m.type = "RDS" /\ ~m.nack => Has(q, "LDS")) => RoutesPreceded(r)
  BY PrecededFacts
<1>5. \A type, nonce :
        /\ Asks(r, type, nonce) <=> Asks(q, type, nonce) \/ Counts(m, type, nonce)
        /\ \A i : LastAsk(r, type, nonce, i) =>
              \/ r[i] = m /\ Counts(m, type, nonce)
              \/ ~Counts(m, type, nonce) /\ LastAsk(q, type, nonce, i) /\ r[i] = q[i]
  BY AskFacts
<1> QED
  BY <1>1, <1>2, <1>3, <1>4, <1>5 DEF RequestSent

(* What Tail does to the requests under way. *)
LEMMA RequestReceived ==
    ASSUME NEW q \in Seq(Request), q # <<>>, NEW r, r = Tail(q)
    PROVE  RequestTaken(q, r)
<1>0. Takes(Request, q, r)
  BY TakeFacts
<1>1. /\ r \in Seq(Request) /\ Head(q) = q[1] /\ 1 \in 1..Len(q) /\ Head(q) \in Request
      /\ \A i \in 1..Len(r) : i + 1 \in 1..Len(q) /\ r[i] = q[i + 1]
      /\ \A type : Has(q, type) <=> Has(r, type) \/ Head(q).type = type
  BY <1>0 DEF Takes
<1>2. AllRight(q) => AllRight(r) /\ RightNames(Head(q))
  BY <1>1 DEF AllRight
<1>3. RoutesPreceded(q) =>
          /\ Head(q).type # "LDS" => RoutesPreceded(r)
          /\ Head(q).type = "RDS" => Head(q).nack
  BY PrecededFacts
<1>4. \A type, nonce :
        /\ Asks(q, type, nonce) <=> Asks(r, type, nonce) \/ Counts(Head(q), type, nonce)
        /\ \A i : LastAsk(r, type, nonce, i) => LastAsk(q, type, nonce, i + 1) /\ r[i] = q[i + 1]
        /\ Counts(Head(q), type, nonce) /\ ~Asks(r, type, nonce) => LastAsk(q, type, nonce, 1)
  BY AskedFacts
<1> QED
  BY <1>1, <1>2, <1>3, <1>4 DEF RequestTaken

(* What Append does to the responses under way. *)
LEMMA ResponseAppended ==
    ASSUME NEW q \in Seq(Response), NEW m \in Response, NEW r, r = Append(q, m)
    PROVE  ResponseSent(q, m, r)
<1>0. Sends(Response, q, m, r)
  BY SendFacts
<1>1. /\ r \in Seq(Response) /\ r # <<>>
      /\ r[Len(q) + 1] = m
      /\ \A i \in 1..Len(q) : r[i] = q[i]
      /\ \A type : Has(r, type) <=> Has(q, type) \/ m.type = type
      /\ \A type, i : Last(r, type, i) <=>
            \/ i = Len(q) + 1 /\ m.type = type
            \/ m.type # type /\ Last(q, type, i)
      /\ \A type, next : Followed(q, type, next) /\ m.type # type => Followed(r, type, next)
      /\ \A type, next : type # next /\ m.type = next => Followed(r, type, next)
  BY <1>0 DEF Sends
<1>2. \A type, i : Last(q, type, i) => i \in 1..Len(q)
  BY DEF Last
<1> QED
  BY <1>1, <1>2 DEF ResponseSent

(* What Tail does to the responses under way. *)
LEMMA ResponseReceived ==
    ASSUME NEW q \in Seq(Response), q # <<>>, NEW r, r = Tail(q)
    PROVE  ResponseTaken(q, r)
<1>0. Takes(Response, q, r)
  BY TakeFacts
<1> QED
  BY <1>0 DEF Takes, ResponseTaken

-----------------------------------------------------------------------------
(* What each action changes, field by field. *)

Types3 == PilotTypes /\ NetTypes /\ EnvoyTypes

(* A response from a scope. *)
Made(scope, type, names, nonce) ==
    [type |-> type, names |-> names, nonce |-> nonce, context |-> scope, version |-> version]

(* The handler of stream s leaves its connection like this. *)
Handles(s, scope, cds, lds, clusters, routes, nonce, known) ==
    /\ stream = s /\ UNCHANGED <<version, stream, opened, envoy, rejects>>
    /\ con[s].open /\ Tracked(con[s]) /\ scope \in Configs
    /\ con' \in [Streams -> Connection]
    /\ \A t \in Streams \ {s} : con'[t] = con[t]
    /\ con'[s].open /\ con'[s].handler = "select" /\ con'[s].scope = scope
    /\ con'[s].CDSWatch = cds /\ con'[s].LDSWatch = lds
    /\ con'[s].Clusters = clusters /\ con'[s].Routes = routes
    /\ con'[s].RouteNonceSent = nonce /\ con'[s].RouteVersionInfoSent = known

TakesRequest(type) ==
    requests # <<>> /\ requests' = Tail(requests) /\ Head(requests).type = type

RequestIgnored(s) ==
    /\ Handles(s, con[s].scope, con[s].CDSWatch, con[s].LDSWatch, con[s].Clusters,
               con[s].Routes, con[s].RouteNonceSent, con[s].RouteVersionInfoSent)
    /\ UNCHANGED <<EdsClients, responses>>
    /\ \/ TakesRequest("CDS") /\ con[s].CDSWatch
       \/ TakesRequest("LDS") /\ con[s].LDSWatch
       \/ TakesRequest("RDS") /\ RouteIgnored(con[s], Head(requests))
       \/ TakesRequest("EDS") /\ EndpointIgnored(con[s], Head(requests))

ClustersRequested(s) ==
    /\ Handles(s, con[s].scope, TRUE, con[s].LDSWatch, con[s].Clusters,
               con[s].Routes, con[s].RouteNonceSent, con[s].RouteVersionInfoSent)
    /\ UNCHANGED EdsClients /\ responses' = Append(responses, Made(con[s].scope, "CDS", {}, 1))
    /\ TakesRequest("CDS") /\ ~con[s].CDSWatch

ListenersRequested(s) ==
    /\ Handles(s, con[s].scope, con[s].CDSWatch, TRUE, con[s].Clusters,
               con[s].Routes, con[s].RouteNonceSent, con[s].RouteVersionInfoSent)
    /\ UNCHANGED EdsClients /\ responses' = Append(responses, Made(con[s].scope, "LDS", {}, 1))
    /\ TakesRequest("LDS") /\ ~con[s].LDSWatch

RoutesRequested(s) ==
    /\ Handles(s, con[s].scope, con[s].CDSWatch, con[s].LDSWatch, con[s].Clusters,
               Head(requests).names, con[s].RouteNonceSent + 1, version)
    /\ UNCHANGED EdsClients
    /\ responses' = Append(responses,
           Made(con[s].scope, "RDS", Head(requests).names, con[s].RouteNonceSent + 1))
    /\ TakesRequest("RDS") /\ ~RouteIgnored(con[s], Head(requests))

EndpointsRequested(s) ==
    /\ Handles(s, con[s].scope, con[s].CDSWatch, con[s].LDSWatch, Head(requests).names,
               con[s].Routes, con[s].RouteNonceSent, con[s].RouteVersionInfoSent)
    /\ EdsClients' = [c \in Clusters |->
           IF c \in Head(requests).names \ con[s].Clusters THEN EdsClients[c] \cup {s}
           ELSE IF c \in con[s].Clusters \ Head(requests).names THEN EdsClients[c] \ {s}
           ELSE EdsClients[c]]
    /\ responses' = Append(responses, Made(con[s].scope, "EDS", Head(requests).names, 1))
    /\ TakesRequest("EDS") /\ ~EndpointIgnored(con[s], Head(requests))

(* The values the model builds have their types. *)
LEMMA ValueTypes ==
    /\ None \in Nat /\ None \notin Configs /\ Configs \subseteq Nat
    /\ {} \in Names
    /\ \A x : x \in SUBSET Clusters => x \in Names
    /\ \A x : x \in SUBSET Routes => x \in Names
    /\ \A scope \in Configs, type \in Types, names \in Names, nonce \in Nat :
          version \in Configs => Made(scope, type, names, nonce) \in Response
    /\ \A type \in Types, names \in Names, nonce \in Nat, known \in Versions :
          Ask(type, names, nonce, known) \in Request
<1>1. None \in Nat /\ None \notin Configs /\ Configs \subseteq Nat
  BY AdsStreamAssumption DEF None, Configs
<1>2. /\ {} \in Names
      /\ \A x : x \in SUBSET Clusters => x \in Names
      /\ \A x : x \in SUBSET Routes => x \in Names
  BY DEF Names
<1>3. \A scope \in Configs, type \in Types, names \in Names, nonce \in Nat :
          version \in Configs => Made(scope, type, names, nonce) \in Response
  BY DEF Made, Response
<1>4. \A type \in Types, names \in Names, nonce \in Nat, known \in Versions :
          Ask(type, names, nonce, known) \in Request
  BY DEF Ask, Request, Versions
<1> QED
  BY <1>1, <1>2, <1>3, <1>4

(* send changes the nonce and the version of a connection. *)
LEMMA RouteSentFields ==
    ASSUME NEW e \in Connection, version \in Configs, NEW d, d = RouteSent(e)
    PROVE  /\ d \in Connection /\ d.open = e.open /\ d.handler = e.handler
           /\ d.scope = e.scope /\ d.CDSWatch = e.CDSWatch
           /\ d.LDSWatch = e.LDSWatch /\ d.Clusters = e.Clusters
           /\ d.Routes = e.Routes /\ d.RouteNonceSent = e.RouteNonceSent + 1
           /\ d.RouteVersionInfoSent = version
<1>1. e.RouteNonceSent + 1 \in Nat /\ version \in Versions
  BY DEF Connection, Versions
<1>2. PICK b : b = [e EXCEPT !.RouteNonceSent = e.RouteNonceSent + 1]
  OBVIOUS
<1>3. /\ b \in Connection /\ b.open = e.open /\ b.handler = e.handler
      /\ b.scope = e.scope /\ b.CDSWatch = e.CDSWatch
      /\ b.LDSWatch = e.LDSWatch /\ b.Clusters = e.Clusters
      /\ b.Routes = e.Routes /\ b.RouteNonceSent = e.RouteNonceSent + 1
  BY <1>1, <1>2 DEF Connection
<1>4. d = [b EXCEPT !.RouteVersionInfoSent = version]
  BY <1>2 DEF RouteSent
<1> QED
  BY <1>1, <1>3, <1>4 DEF Connection

(* The request that is handled is ignored, or it is a subscription. *)
LEMMA HandleCases ==
    ASSUME Types3, NEW s \in Streams, HandleRequest(s)
    PROVE  \/ RequestIgnored(s) \/ ClustersRequested(s) \/ ListenersRequested(s)
           \/ RoutesRequested(s) \/ EndpointsRequested(s)
<1> PICK req : req = Head(requests)
  OBVIOUS
<1> PICK c : c = [con[s] EXCEPT !.handler = "select"]
  OBVIOUS
<1>1. /\ stream = s /\ con[s].open /\ Tracked(con[s]) /\ requests # <<>> /\ requests' = Tail(requests)
      /\ UNCHANGED <<version, stream, opened, envoy, rejects>>
      /\ CASE req.type = "CDS" -> ClusterRequest(s, c)
           [] req.type = "LDS" -> ListenerRequest(s, c)
           [] req.type = "RDS" -> RouteRequest(s, c, req)
           [] req.type = "EDS" -> EndpointRequest(s, c, req)
  BY DEF HandleRequest, pushVars
<1>2. requests \in Seq(Request) /\ AllRight(requests) /\ con \in [Streams -> Connection]
      /\ responses \in Seq(Response) /\ version \in Configs
  BY DEF Types3, PilotTypes, NetTypes, AllRight
<1>3. req \in Request /\ RightNames(req)
  BY <1>1, <1>2, RequestReceived DEF RequestTaken
<1>4. req.type \in {"CDS", "LDS", "RDS", "EDS"} /\ req.names \in Names
      /\ (req.type = "EDS" => req.names \subseteq Clusters)
      /\ (req.type = "RDS" => req.names \subseteq Routes)
  BY <1>3 DEF Request, Types, RightNames
<1>5. con[s] \in Connection /\ con[s].scope \in Configs
  BY <1>1, <1>2 DEF Tracked, Types3, PilotTypes
<1>6. /\ c \in Connection /\ c.open = con[s].open /\ c.handler = "select"
      /\ c.scope = con[s].scope /\ c.CDSWatch = con[s].CDSWatch
      /\ c.LDSWatch = con[s].LDSWatch /\ c.Clusters = con[s].Clusters
      /\ c.Routes = con[s].Routes /\ c.RouteNonceSent = con[s].RouteNonceSent
      /\ c.RouteVersionInfoSent = con[s].RouteVersionInfoSent
  BY <1>5 DEF Connection, Handlers
<1>7. ASSUME NEW d \in Connection, con' = [con EXCEPT ![s] = d]
      PROVE  /\ con' \in [Streams -> Connection] /\ con'[s] = d
             /\ \A t \in Streams \ {s} : con'[t] = con[t]
  BY <1>2, <1>7
<1>8. ASSUME Reply(s, c, <<>>)
      PROVE  /\ Handles(s, con[s].scope, con[s].CDSWatch, con[s].LDSWatch, con[s].Clusters,
                        con[s].Routes, con[s].RouteNonceSent, con[s].RouteVersionInfoSent)
             /\ responses' = responses
  <2>1. con' = [con EXCEPT ![s] = c] /\ responses' = responses \o <<>>
    BY <1>8 DEF Reply
  <2>2. responses' = responses
    BY <1>2, <2>1, ConcatEmptySeq
  <2> QED BY <1>1, <1>5, <1>6, <1>7, <2>1, <2>2 DEF Handles
<1>9. ASSUME NEW d, NEW m \in Response, Reply(s, d, <<m>>)
      PROVE  con' = [con EXCEPT ![s] = d] /\ responses' = Append(responses, m)
  BY <1>2, <1>9, AppendIsConcat DEF Reply
<1>10. CASE req.type = "CDS"
  <2>1. ClusterRequest(s, c)
    BY <1>1, <1>10
  <2>2. CASE c.CDSWatch
    <3>1. Reply(s, c, <<>>) /\ UNCHANGED EdsClients
      BY <2>1, <2>2 DEF ClusterRequest
    <3> QED BY <1>1, <1>6, <1>8, <1>10, <2>2, <3>1 DEF RequestIgnored, TakesRequest
  <2>3. CASE ~c.CDSWatch
    <3>0. PICK d : d = [c EXCEPT !.CDSWatch = TRUE]
      OBVIOUS
    <3>1. Reply(s, d, <<Made(con[s].scope, "CDS", {}, 1)>>) /\ UNCHANGED EdsClients
      BY <1>6, <2>1, <2>3, <3>0 DEF ClusterRequest, pushCds, Answer, Made
    <3>2. Made(con[s].scope, "CDS", {}, 1) \in Response
      BY <1>2, <1>5, ValueTypes DEF Types
    <3>3. con' = [con EXCEPT ![s] = d] /\ responses' = Append(responses, Made(con[s].scope, "CDS", {}, 1))
      BY <1>9, <3>1, <3>2
    <3>4. /\ d \in Connection /\ d.open = c.open /\ d.handler = c.handler
          /\ d.scope = c.scope /\ d.CDSWatch = TRUE
          /\ d.LDSWatch = c.LDSWatch /\ d.Clusters = c.Clusters
          /\ d.Routes = c.Routes /\ d.RouteNonceSent = c.RouteNonceSent
          /\ d.RouteVersionInfoSent = c.RouteVersionInfoSent
      BY <1>6, <3>0 DEF Connection
    <3>5. Handles(s, con[s].scope, TRUE, con[s].LDSWatch, con[s].Clusters,
               con[s].Routes, con[s].RouteNonceSent, con[s].RouteVersionInfoSent)
      BY <1>1, <1>5, <1>6, <1>7, <3>3, <3>4 DEF Handles
    <3> QED BY <1>1, <1>6, <1>10, <2>3, <3>1, <3>3, <3>5 DEF ClustersRequested, TakesRequest
  <2> QED BY <2>2, <2>3
<1>11. CASE req.type = "LDS"
  <2>1. ListenerRequest(s, c)
    BY <1>1, <1>11
  <2>2. CASE c.LDSWatch
    <3>1. Reply(s, c, <<>>) /\ UNCHANGED EdsClients
      BY <2>1, <2>2 DEF ListenerRequest
    <3> QED BY <1>1, <1>6, <1>8, <1>11, <2>2, <3>1 DEF RequestIgnored, TakesRequest
  <2>3. CASE ~c.LDSWatch
    <3>0. PICK d : d = [c EXCEPT !.LDSWatch = TRUE]
      OBVIOUS
    <3>1. Reply(s, d, <<Made(con[s].scope, "LDS", {}, 1)>>) /\ UNCHANGED EdsClients
      BY <1>6, <2>1, <2>3, <3>0 DEF ListenerRequest, pushLds, Answer, Made
    <3>2. Made(con[s].scope, "LDS", {}, 1) \in Response
      BY <1>2, <1>5, ValueTypes DEF Types
    <3>3. con' = [con EXCEPT ![s] = d] /\ responses' = Append(responses, Made(con[s].scope, "LDS", {}, 1))
      BY <1>9, <3>1, <3>2
    <3>4. /\ d \in Connection /\ d.open = c.open /\ d.handler = c.handler
          /\ d.scope = c.scope /\ d.CDSWatch = c.CDSWatch
          /\ d.LDSWatch = TRUE /\ d.Clusters = c.Clusters
          /\ d.Routes = c.Routes /\ d.RouteNonceSent = c.RouteNonceSent
          /\ d.RouteVersionInfoSent = c.RouteVersionInfoSent
      BY <1>6, <3>0 DEF Connection
    <3>5. Handles(s, con[s].scope, con[s].CDSWatch, TRUE, con[s].Clusters,
               con[s].Routes, con[s].RouteNonceSent, con[s].RouteVersionInfoSent)
      BY <1>1, <1>5, <1>6, <1>7, <3>3, <3>4 DEF Handles
    <3> QED BY <1>1, <1>6, <1>11, <2>3, <3>1, <3>3, <3>5 DEF ListenersRequested, TakesRequest
  <2> QED BY <2>2, <2>3
<1>12. CASE req.type = "RDS"
  <2>1. RouteRequest(s, c, req)
    BY <1>1, <1>12
  <2>0. RouteIgnored(c, req) <=> RouteIgnored(con[s], req)
    BY <1>6 DEF RouteIgnored
  <2>2. CASE RouteIgnored(c, req)
    <3>1. Reply(s, c, <<>>) /\ UNCHANGED EdsClients
      BY <2>1, <2>2 DEF RouteRequest
    <3> QED BY <1>1, <1>8, <1>12, <2>0, <2>2, <3>1 DEF RequestIgnored, TakesRequest
  <2>3. CASE ~RouteIgnored(c, req)
    <3>0. PICK e : e = [c EXCEPT !.Routes = req.names]
      OBVIOUS
    <3>1. Reply(s, RouteSent(e), pushRoute(e)) /\ UNCHANGED EdsClients
      BY <2>1, <2>3, <3>0 DEF RouteRequest
    <3>2. PICK d : d = RouteSent(e)
      OBVIOUS
    <3>3. /\ e \in Connection /\ e.open = c.open /\ e.handler = c.handler
          /\ e.scope = c.scope /\ e.CDSWatch = c.CDSWatch
          /\ e.LDSWatch = c.LDSWatch /\ e.Clusters = c.Clusters
          /\ e.Routes = req.names /\ e.RouteNonceSent = c.RouteNonceSent
          /\ e.RouteVersionInfoSent = c.RouteVersionInfoSent
      BY <1>4, <1>6, <1>12, <3>0 DEF Connection
    <3>4. /\ d \in Connection /\ d.open = e.open /\ d.handler = e.handler
          /\ d.scope = e.scope /\ d.CDSWatch = e.CDSWatch
          /\ d.LDSWatch = e.LDSWatch /\ d.Clusters = e.Clusters
          /\ d.Routes = e.Routes /\ d.RouteNonceSent = e.RouteNonceSent + 1
          /\ d.RouteVersionInfoSent = version
      <4>1. version \in Configs /\ e \in Connection
        BY <1>2, <3>3
      <4> QED BY <3>2, <4>1, RouteSentFields
    <3>5. PICK m : m = Made(con[s].scope, "RDS", req.names, con[s].RouteNonceSent + 1)
      OBVIOUS
    <3>6. m \in Response
      <4>1. con[s].RouteNonceSent + 1 \in Nat
        BY <1>5 DEF Connection
      <4> QED BY <1>2, <1>4, <1>5, <3>5, <4>1, ValueTypes DEF Types
    <3>7. Reply(s, d, <<m>>)
      BY <1>6, <3>1, <3>2, <3>3, <3>5 DEF pushRoute, Answer, Made
    <3>8. con' = [con EXCEPT ![s] = d] /\ responses' = Append(responses, m)
      BY <1>9, <3>6, <3>7
    <3>9. Handles(s, con[s].scope, con[s].CDSWatch, con[s].LDSWatch, con[s].Clusters,
                  req.names, con[s].RouteNonceSent + 1, version)
      <4>1. /\ con' \in [Streams -> Connection] /\ con'[s] = d
            /\ \A t \in Streams \ {s} : con'[t] = con[t]
        BY <1>7, <3>4, <3>8
      <4> QED BY <1>1, <1>5, <1>6, <3>3, <3>4, <4>1 DEF Handles
    <3> QED BY <1>1, <1>12, <2>0, <2>3, <3>1, <3>5, <3>8, <3>9 DEF RoutesRequested, TakesRequest
  <2> QED BY <2>2, <2>3
<1>13. CASE req.type = "EDS"
  <2>1. EndpointRequest(s, c, req)
    BY <1>1, <1>13
  <2>0. EndpointIgnored(c, req) <=> EndpointIgnored(con[s], req)
    BY <1>6 DEF EndpointIgnored
  <2>2. CASE EndpointIgnored(c, req)
    <3>1. Reply(s, c, <<>>) /\ UNCHANGED EdsClients
      BY <2>1, <2>2 DEF EndpointRequest
    <3> QED BY <1>1, <1>8, <1>13, <2>0, <2>2, <3>1 DEF RequestIgnored, TakesRequest
  <2>3. CASE ~EndpointIgnored(c, req)
    <3>0. PICK d : d = [c EXCEPT !.Clusters = req.names]
      OBVIOUS
    <3>1. /\ updateEdsClients(s, req.names \ c.Clusters, c.Clusters \ req.names)
          /\ Reply(s, d, <<Made(con[s].scope, "EDS", req.names, 1)>>)
      <4>1. d.scope = con[s].scope /\ d.Clusters = req.names
        BY <1>4, <1>6, <1>13, <3>0 DEF Connection
      <4> QED BY <2>1, <2>3, <3>0, <4>1 DEF EndpointRequest, pushEds, Answer, Made
    <3>2. Made(con[s].scope, "EDS", req.names, 1) \in Response
      BY <1>2, <1>4, <1>5, ValueTypes DEF Types
    <3>3. con' = [con EXCEPT ![s] = d] /\ responses' = Append(responses, Made(con[s].scope, "EDS", req.names, 1))
      BY <1>9, <3>1, <3>2
    <3>4. /\ d \in Connection /\ d.open = c.open /\ d.handler = c.handler
          /\ d.scope = c.scope /\ d.CDSWatch = c.CDSWatch
          /\ d.LDSWatch = c.LDSWatch /\ d.Clusters = req.names
          /\ d.Routes = c.Routes /\ d.RouteNonceSent = c.RouteNonceSent
          /\ d.RouteVersionInfoSent = c.RouteVersionInfoSent
      BY <1>4, <1>6, <1>13, <3>0 DEF Connection
    <3>5. Handles(s, con[s].scope, con[s].CDSWatch, con[s].LDSWatch, req.names,
               con[s].Routes, con[s].RouteNonceSent, con[s].RouteVersionInfoSent)
      BY <1>1, <1>5, <1>6, <1>7, <3>3, <3>4 DEF Handles
    <3>6. EdsClients' = [x \in Clusters |->
             IF x \in req.names \ con[s].Clusters THEN EdsClients[x] \cup {s}
             ELSE IF x \in con[s].Clusters \ req.names THEN EdsClients[x] \ {s}
             ELSE EdsClients[x]]
      BY <1>6, <3>1 DEF updateEdsClients
    <3> QED BY <1>1, <1>13, <2>0, <2>3, <3>3, <3>5, <3>6 DEF EndpointsRequested, TakesRequest
  <2> QED BY <2>2, <2>3
<1> QED
  BY <1>4, <1>10, <1>11, <1>12, <1>13

(* A push sends a response of each type that is watched. *)
SentLast(scope, watched, type, names, nonce, q, r) ==
    /\ Has(r, type) <=> Has(q, type) \/ watched
    /\ \A i : Last(r, type, i) =>
          \/ watched /\ r[i] = Made(scope, type, names, nonce)
          \/ ~watched /\ Last(q, type, i) /\ r[i] = q[i]

PushSends(c, scope, q, r) ==
    /\ r \in Seq(Response)
    /\ SentLast(scope, c.CDSWatch, "CDS", {}, 1, q, r)
    /\ SentLast(scope, c.Clusters # {}, "EDS", c.Clusters, 1, q, r)
    /\ SentLast(scope, c.LDSWatch, "LDS", {}, 1, q, r)
    /\ SentLast(scope, c.Routes # {}, "RDS", c.Routes, c.RouteNonceSent + 1, q, r)
    /\ c.Clusters # {} => Followed(r, "CDS", "EDS")
    /\ c.Routes # {} => Followed(r, "LDS", "RDS")

PushHandled(s) ==
    /\ con[s].handler = "select"
    /\ \/ /\ con[s].Routes = {}
          /\ Handles(s, due[s], con[s].CDSWatch, con[s].LDSWatch, con[s].Clusters,
                     con[s].Routes, con[s].RouteNonceSent, con[s].RouteVersionInfoSent)
       \/ /\ con[s].Routes # {}
          /\ Handles(s, due[s], con[s].CDSWatch, con[s].LDSWatch, con[s].Clusters,
                     con[s].Routes, con[s].RouteNonceSent + 1, version)
    /\ UNCHANGED <<EdsClients, requests>>
    /\ PushSends(con[s], due[s], responses, responses')

(* The messages of a type are those of before. *)
Kept(type, p, n) ==
    /\ Has(n, type) <=> Has(p, type)
    /\ \A i : Last(n, type, i) => Last(p, type, i) /\ n[i] = p[i]
    /\ \A next : Followed(p, type, next) => Followed(n, type, next)

(* A response of another type keeps them. *)
LEMMA KeptFacts ==
    ASSUME NEW p, NEW m, NEW n, ResponseSent(p, m, n) \/ n = p, NEW type, m.type # type
    PROVE  Kept(type, p, n)
BY DEF ResponseSent, Kept

(* And so do two. *)
LEMMA KeptTwice ==
    ASSUME NEW type, NEW p, NEW n, NEW r, Kept(type, p, n), Kept(type, n, r)
    PROVE  Kept(type, p, r)
BY DEF Kept

(* A response is the last one of its type until another one is sent. *)
LEMMA KeptLast ==
    ASSUME NEW scope, NEW type, NEW names, NEW nonce, NEW watched \in BOOLEAN,
           NEW q, NEW p, NEW n, NEW r, Kept(type, q, p), Kept(type, n, r),
           watched => ResponseSent(p, Made(scope, type, names, nonce), n),
           ~watched => n = p
    PROVE  SentLast(scope, watched, type, names, nonce, q, r)
<1>1. CASE watched
  <2>1. PICK m : m = Made(scope, type, names, nonce)
    OBVIOUS
  <2>2. m.type = type
    BY <2>1 DEF Made
  <2>3. Has(n, type) /\ \A i : Last(n, type, i) => n[i] = m
    BY <1>1, <2>1, <2>2 DEF ResponseSent
  <2> QED BY <1>1, <2>1, <2>3 DEF SentLast, Kept
<1>2. CASE ~watched
  BY <1>2 DEF SentLast, Kept
<1> QED BY <1>1, <1>2

(* The four responses of a push, one after the other. *)
LEMMA PushChain ==
    ASSUME NEW c \in Connection, NEW q, NEW q1, NEW q2, NEW q3, NEW r \in Seq(Response),
           c.CDSWatch => ResponseSent(q, Made(c.scope, "CDS", {}, 1), q1), ~c.CDSWatch => q1 = q,
           c.Clusters # {} => ResponseSent(q1, Made(c.scope, "EDS", c.Clusters, 1), q2),
           c.Clusters = {} => q2 = q1,
           c.LDSWatch => ResponseSent(q2, Made(c.scope, "LDS", {}, 1), q3), ~c.LDSWatch => q3 = q2,
           c.Routes # {} =>
               ResponseSent(q3, Made(c.scope, "RDS", c.Routes, c.RouteNonceSent + 1), r),
           c.Routes = {} => r = q3
    PROVE  PushSends(c, c.scope, q, r)
<1>1. \A type, names, nonce : Made(c.scope, type, names, nonce).type = type
  BY DEF Made
<1>0. /\ ResponseSent(q, Made(c.scope, "CDS", {}, 1), q1) \/ q1 = q
      /\ ResponseSent(q2, Made(c.scope, "LDS", {}, 1), q3) \/ q3 = q2
  BY Zenon
<1>2. ASSUME NEW type, type # "CDS" PROVE Kept(type, q, q1)
  <2>1. PICK m : m = Made(c.scope, "CDS", {}, 1)
    OBVIOUS
  <2>2. m.type # type /\ (ResponseSent(q, m, q1) \/ q1 = q)
    BY <1>0, <1>1, <1>2, <2>1
  <2> QED BY <2>2, KeptFacts
<1>3. \A type : type # "EDS" => Kept(type, q1, q2)
  BY <1>1, KeptFacts
<1>4. ASSUME NEW type, type # "LDS" PROVE Kept(type, q2, q3)
  <2>1. PICK m : m = Made(c.scope, "LDS", {}, 1)
    OBVIOUS
  <2>2. m.type # type /\ (ResponseSent(q2, m, q3) \/ q3 = q2)
    BY <1>0, <1>1, <1>4, <2>1
  <2> QED BY <2>2, KeptFacts
<1>5. \A type : type # "RDS" => Kept(type, q3, r)
  BY <1>1, KeptFacts
<1>6. /\ Kept("CDS", q1, r) /\ Kept("EDS", q2, r)
      /\ Kept("LDS", q, q2) /\ Kept("RDS", q, q3)
      /\ Kept("EDS", q, q1) /\ Kept("LDS", q3, r) /\ Kept("CDS", q2, r)
  <2>1. Kept("EDS", q2, q3) /\ Kept("EDS", q3, r)
    BY <1>4, <1>5
  <2>2. Kept("CDS", q2, q3) /\ Kept("CDS", q3, r) /\ Kept("CDS", q1, q2)
    BY <1>3, <1>4, <1>5
  <2>3. Kept("LDS", q, q1) /\ Kept("LDS", q1, q2) /\ Kept("LDS", q3, r)
    BY <1>2, <1>3, <1>5
  <2>4. Kept("RDS", q, q1) /\ Kept("RDS", q1, q2) /\ Kept("RDS", q2, q3)
    BY <1>2, <1>3, <1>4
  <2>5. Kept("CDS", q2, r) /\ Kept("RDS", q, q2)
    BY <2>2, <2>4, KeptTwice
  <2> QED BY <1>2, <2>1, <2>2, <2>3, <2>4, <2>5, KeptTwice
<1>7. \A type, p : Kept(type, p, p)
  BY DEF Kept
<1>8. c.CDSWatch \in BOOLEAN /\ c.LDSWatch \in BOOLEAN
  BY DEF Connection
<1>12. SentLast(c.scope, c.CDSWatch, "CDS", {}, 1, q, r)
  BY <1>6, <1>7, <1>8, KeptLast
<1>13. SentLast(c.scope, c.Clusters # {}, "EDS", c.Clusters, 1, q, r)
  <2>1. PICK w \in BOOLEAN : w <=> c.Clusters # {}
    OBVIOUS
  <2>2. SentLast(c.scope, w, "EDS", c.Clusters, 1, q, r)
    BY <1>6, <2>1, KeptLast
  <2> QED BY <2>1, <2>2 DEF SentLast
<1>14. SentLast(c.scope, c.LDSWatch, "LDS", {}, 1, q, r)
  BY <1>6, <1>8, KeptLast
<1>15. SentLast(c.scope, c.Routes # {}, "RDS", c.Routes, c.RouteNonceSent + 1, q, r)
  <2>1. PICK w \in BOOLEAN : w <=> c.Routes # {}
    OBVIOUS
  <2>2. SentLast(c.scope, w, "RDS", c.Routes, c.RouteNonceSent + 1, q, r)
    BY <1>6, <1>7, <2>1, KeptLast
  <2> QED BY <2>1, <2>2 DEF SentLast
<1>16. ASSUME c.Clusters # {} PROVE Followed(r, "CDS", "EDS")
  <2>1. Followed(q2, "CDS", "EDS")
    BY <1>1, <1>16 DEF ResponseSent
  <2> QED BY <1>6, <2>1 DEF Kept
<1>17. ASSUME c.Routes # {} PROVE Followed(r, "LDS", "RDS")
  BY <1>1, <1>17 DEF ResponseSent
<1> QED
  BY <1>12, <1>13, <1>14, <1>15, <1>16, <1>17 DEF PushSends

(* Concatenation, piece by piece. *)
Assoc(s, t, u) == (s \o t) \o u = s \o (t \o u)
InARow(q, a1, a2, a3, a4) ==
    (((q \o a1) \o a2) \o a3) \o a4 = q \o (((a1 \o a2) \o a3) \o a4)

(* It is associative. *)
LEMMA Associative ==
    ASSUME NEW S, NEW s \in Seq(S), NEW t \in Seq(S), NEW u \in Seq(S)
    PROVE  Assoc(s, t, u)
BY ConcatAssociative DEF Assoc

(* One piece after another. *)
LEMMA FourInARow ==
    ASSUME NEW S, NEW q \in Seq(S), NEW a1 \in Seq(S), NEW a2 \in Seq(S),
           NEW a3 \in Seq(S), NEW a4 \in Seq(S)
    PROVE  InARow(q, a1, a2, a3, a4)
<1>1. PICK b : b = a1 \o a2
  OBVIOUS
<1>2. PICK d : d = b \o a3
  OBVIOUS
<1>3. b \in Seq(S) /\ d \in Seq(S)
  BY <1>1, <1>2, ConcatProperties
<1>4. Assoc(q, d, a4) /\ Assoc(q, b, a3) /\ Assoc(q, a1, a2)
  BY <1>3, Associative
<1>5. (q \o d) \o a4 = q \o (d \o a4)
  BY <1>4, Zenon DEF Assoc
<1>6. (q \o b) \o a3 = q \o (b \o a3)
  BY <1>4, Zenon DEF Assoc
<1>7. (q \o a1) \o a2 = q \o (a1 \o a2)
  BY <1>4, Zenon DEF Assoc
<1>8. (((q \o a1) \o a2) \o a3) \o a4 = q \o (((a1 \o a2) \o a3) \o a4)
  BY <1>1, <1>2, <1>5, <1>6, <1>7
<1> QED
  BY <1>8, Zenon DEF InARow

(* A response that is sent or not. *)
LEMMA MaySend ==
    ASSUME NEW p \in Seq(Response), NEW m \in Response, NEW watched \in BOOLEAN, NEW a, NEW n,
           a = IF watched THEN <<m>> ELSE <<>>, n = p \o a
    PROVE  /\ n \in Seq(Response)
           /\ watched => ResponseSent(p, m, n)
           /\ ~watched => n = p
<1>1. CASE watched
  <2>1. n = Append(p, m)
    BY <1>1, AppendIsConcat
  <2>2. ResponseSent(p, m, n)
    BY <2>1, ResponseAppended
  <2> QED BY <1>1, <2>2 DEF ResponseSent
<1>2. CASE ~watched
  BY <1>2, ConcatEmptySeq
<1> QED BY <1>1, <1>2

(* What a push sends. *)
LEMMA PushSequence ==
    ASSUME NEW c \in Connection, c.scope \in Configs, NEW q \in Seq(Response),
           version \in Configs, NEW r,
           r = q \o ((IF c.CDSWatch THEN pushCds(c) ELSE <<>>)
                     \o (IF c.Clusters # {} THEN pushEds(c) ELSE <<>>)
                     \o (IF c.LDSWatch THEN pushLds(c) ELSE <<>>)
                     \o (IF c.Routes # {} THEN pushRoute(c) ELSE <<>>))
    PROVE  PushSends(c, c.scope, q, r)
<1>m. PICK m1, m2, m3, m4 :
        /\ m1 = Made(c.scope, "CDS", {}, 1) /\ m2 = Made(c.scope, "EDS", c.Clusters, 1)
        /\ m3 = Made(c.scope, "LDS", {}, 1) /\ m4 = Made(c.scope, "RDS", c.Routes, c.RouteNonceSent + 1)
  OBVIOUS
<1>w. PICK w2 \in BOOLEAN, w4 \in BOOLEAN :
        (w2 <=> c.Clusters # {}) /\ (w4 <=> c.Routes # {})
  OBVIOUS
<1>a. PICK a1, a2, a3, a4 :
        /\ a1 = (IF c.CDSWatch THEN <<m1>> ELSE <<>>)
        /\ a2 = (IF w2 THEN <<m2>> ELSE <<>>)
        /\ a3 = (IF c.LDSWatch THEN <<m3>> ELSE <<>>)
        /\ a4 = (IF w4 THEN <<m4>> ELSE <<>>)
  OBVIOUS
<1>1. /\ m1 \in Response /\ m2 \in Response /\ m3 \in Response /\ m4 \in Response
  <2>1. c.Clusters \in Names /\ c.Routes \in Names /\ c.RouteNonceSent + 1 \in Nat
    BY DEF Connection, Names
  <2> QED BY <1>m, <2>1, ValueTypes DEF Types
<1>2. c.CDSWatch \in BOOLEAN /\ c.LDSWatch \in BOOLEAN
  BY DEF Connection
<1>3. /\ a1 \in Seq(Response) /\ a2 \in Seq(Response)
      /\ a3 \in Seq(Response) /\ a4 \in Seq(Response)
  BY <1>a, <1>1
<1>4. r = q \o (((a1 \o a2) \o a3) \o a4)
  BY <1>m, <1>w, <1>a DEF pushCds, pushEds, pushLds, pushRoute, Answer, Made
<1>q. PICK q1, q2, q3 : q1 = q \o a1 /\ q2 = q1 \o a2 /\ q3 = q2 \o a3
  OBVIOUS
<1>5. r = q3 \o a4
  <2>1. InARow(q, a1, a2, a3, a4)
    BY <1>3, FourInARow, Zenon
  <2>2. (((q \o a1) \o a2) \o a3) \o a4 = q \o (((a1 \o a2) \o a3) \o a4)
    BY <2>1, Zenon DEF InARow
  <2> QED BY <1>4, <1>q, <2>2, Zenon
<1>6. q1 \in Seq(Response) /\ (c.CDSWatch => ResponseSent(q, m1, q1)) /\ (~c.CDSWatch => q1 = q)
  BY <1>a, <1>q, <1>1, <1>2, MaySend
<1>7. q2 \in Seq(Response) /\ (w2 => ResponseSent(q1, m2, q2)) /\ (~w2 => q2 = q1)
  BY <1>a, <1>q, <1>1, <1>6, MaySend
<1>8. q3 \in Seq(Response) /\ (c.LDSWatch => ResponseSent(q2, m3, q3)) /\ (~c.LDSWatch => q3 = q2)
  <2>1. q2 \in Seq(Response)
    BY <1>7
  <2>2. q3 = q2 \o (IF c.LDSWatch THEN <<m3>> ELSE <<>>)
    BY <1>a, <1>q, Zenon
  <2> QED BY <1>1, <1>2, <2>1, <2>2, MaySend
<1>9. r \in Seq(Response) /\ (w4 => ResponseSent(q3, m4, r)) /\ (~w4 => r = q3)
  BY <1>a, <1>5, <1>1, <1>8, MaySend
<1> QED
  BY <1>m, <1>w, <1>6, <1>7, <1>8, <1>9, PushChain

(* What is under way to a push is no newer than the latest config. *)
LEMMA PushBounds ==
    ASSUME PushTypes
    PROVE  /\ config \in Nat /\ 0 .. config \subseteq Configs /\ 0 .. config \subseteq Nat
           /\ \A n \in 0 .. config : n # None /\ (n # config => n < config)
BY AdsStreamAssumption DEF PushTypes, Configs, None

(* A push is answered with what the connection watches. *)
LEMMA PushCases ==
    ASSUME Types3, PushTypes, NEW s \in Streams, HandlePush(s)
    PROVE  PushHandled(s)
<1>c. PICK c : c = [con[s] EXCEPT !.scope = due[s]]
  OBVIOUS
<1>d. PICK d : d = IF c.Routes # {} THEN RouteSent(c) ELSE c
  OBVIOUS
<1>1. /\ stream = s /\ con[s].open /\ con[s].handler = "select" /\ due[s] # None
      /\ UNCHANGED <<version, EdsClients, stream, opened, requests, envoy, rejects>>
      /\ con' = [con EXCEPT ![s] = d]
      /\ responses' = responses \o
                ((IF c.CDSWatch THEN pushCds(c) ELSE <<>>)
                     \o (IF c.Clusters # {} THEN pushEds(c) ELSE <<>>)
                     \o (IF c.LDSWatch THEN pushLds(c) ELSE <<>>)
                     \o (IF c.Routes # {} THEN pushRoute(c) ELSE <<>>))
  BY <1>c, <1>d DEF HandlePush, Reply
<1>2. /\ con \in [Streams -> Connection] /\ responses \in Seq(Response) /\ version \in Configs
      /\ due[s] \in Configs /\ due[s] \in Versions
  <2>1. due[s] \in 0 .. config
    BY <1>1 DEF PushTypes
  <2> QED BY <2>1, PushBounds DEF Types3, PilotTypes, NetTypes, Versions
<1>3. /\ con[s] \in Connection
      /\ c \in Connection /\ c.open = con[s].open /\ c.handler = con[s].handler
      /\ c.scope = due[s] /\ c.CDSWatch = con[s].CDSWatch
      /\ c.LDSWatch = con[s].LDSWatch /\ c.Clusters = con[s].Clusters
      /\ c.Routes = con[s].Routes /\ c.RouteNonceSent = con[s].RouteNonceSent
      /\ c.RouteVersionInfoSent = con[s].RouteVersionInfoSent
  BY <1>2, <1>c DEF Connection
<1>4. PushSends(c, c.scope, responses, responses')
  BY <1>1, <1>2, <1>3, PushSequence
<1>5. PushSends(con[s], due[s], responses, responses')
  BY <1>3, <1>4 DEF PushSends
<1>6. /\ d \in Connection /\ d.open = con[s].open /\ d.handler = con[s].handler
      /\ d.scope = due[s] /\ d.CDSWatch = con[s].CDSWatch
      /\ d.LDSWatch = con[s].LDSWatch /\ d.Clusters = con[s].Clusters
      /\ d.Routes = con[s].Routes
  BY <1>2, <1>3, <1>d, RouteSentFields
<1>7. /\ con[s].Routes = {} => /\ d.RouteNonceSent = con[s].RouteNonceSent
                              /\ d.RouteVersionInfoSent = con[s].RouteVersionInfoSent
      /\ con[s].Routes # {} => /\ d.RouteNonceSent = con[s].RouteNonceSent + 1
                              /\ d.RouteVersionInfoSent = version
  BY <1>2, <1>3, <1>d, RouteSentFields
<1>8. /\ con' \in [Streams -> Connection] /\ con'[s] = d
      /\ \A t \in Streams \ {s} : con'[t] = con[t]
  BY <1>1, <1>2, <1>6
<1>t. Tracked(con[s])
  BY <1>1 DEF Tracked
<1>9. CASE con[s].Routes = {}
  <2>1. Handles(s, due[s], con[s].CDSWatch, con[s].LDSWatch, con[s].Clusters,
                con[s].Routes, con[s].RouteNonceSent, con[s].RouteVersionInfoSent)
    BY <1>1, <1>2, <1>t, <1>6, <1>7, <1>8, <1>9 DEF Handles
  <2> QED BY <1>1, <1>5, <1>9, <2>1 DEF PushHandled
<1>10. CASE con[s].Routes # {}
  <2>1. Handles(s, due[s], con[s].CDSWatch, con[s].LDSWatch, con[s].Clusters,
                con[s].Routes, con[s].RouteNonceSent + 1, version)
    BY <1>1, <1>2, <1>t, <1>6, <1>7, <1>8, <1>10 DEF Handles
  <2> QED BY <1>1, <1>5, <1>10, <2>1 DEF PushHandled
<1> QED BY <1>9, <1>10

Returned(s) ==
    /\ con[s].open /\ stream # s
    /\ con' \in [Streams -> Connection]
    /\ \A t \in Streams \ {s} : con'[t] = con[t]
    /\ ~con'[s].open /\ con'[s].handler = "new"
    /\ EdsClients' = [c \in Clusters |->
           IF c \in con[s].Clusters THEN EdsClients[c] \ {s} ELSE EdsClients[c]]
    /\ UNCHANGED <<version, stream, opened, requests, responses, envoy, rejects>>

(* Other steps of Pilot: on the way to a push, or before the first answer. *)
Advanced ==
    /\ version' \in Configs
    /\ con' \in [Streams -> Connection]
    /\ \A s \in Streams :
          /\ con'[s].open = con[s].open
          /\ con'[s].handler = "select" <=> con[s].handler = "select"
          /\ con[s].handler = "select" => con'[s].scope = con[s].scope
          /\ con'[s].handler # "new" => con'[s].scope \in Configs
          /\ con'[s].CDSWatch = con[s].CDSWatch /\ con'[s].LDSWatch = con[s].LDSWatch
          /\ con'[s].Clusters = con[s].Clusters /\ con'[s].Routes = con[s].Routes
          /\ con'[s].RouteNonceSent = con[s].RouteNonceSent
          /\ con'[s].RouteVersionInfoSent = con[s].RouteVersionInfoSent
    /\ UNCHANGED <<EdsClients, stream, opened, requests, responses, envoy, rejects>>

(* What a stream starts with. *)
Subscriptions(q) ==
    /\ q \in Seq(Request) /\ q # <<>> /\ q[1].type = "CDS" /\ AllRight(q)
    /\ Has(q, "LDS") <=> envoy.wantsLDS
    /\ envoy.routes = {} \/ envoy.wantsLDS => RoutesPreceded(q)
    /\ \A i : LastAsk(q, "EDS", 0, i) => q[i].names = envoy.clusters
    /\ Asks(q, "EDS", 0) \/ envoy.clusters = {}
    /\ \A i : LastAsk(q, "RDS", 0, i) => q[i].names = envoy.routes
    /\ Asks(q, "RDS", 0) \/ envoy.routes = {}

Connected ==
    /\ stream = 0 /\ opened + 1 \in Streams /\ opened' = opened + 1 /\ stream' = opened + 1
    /\ con' \in [Streams -> Connection]
    /\ \A t \in Streams \ {opened + 1} : con'[t] = con[t]
    /\ con'[opened + 1] = NewConnection(TRUE)
    /\ envoy' \in EnvoyState
    /\ envoy'.clusters = envoy.clusters /\ envoy'.routes = envoy.routes
    /\ envoy'.wantsLDS = envoy.wantsLDS /\ envoy'.rdsNonce = 0
    /\ Subscriptions(requests')
    /\ UNCHANGED <<version, EdsClients, responses, rejects>>

(* A handler returns and its connection is gone. *)
LEMMA ReturnCases ==
    ASSUME Types3, NEW s \in Streams, HandlerReturns(s)
    PROVE  Returned(s)
<1>1. /\ NewConnection(FALSE) \in Connection /\ ~NewConnection(FALSE).open
      /\ NewConnection(FALSE).handler = "new"
  BY ValueTypes DEF NewConnection, Connection, Versions, Handlers
<1>2. con \in [Streams -> Connection] /\ con' = [con EXCEPT ![s] = NewConnection(FALSE)]
  BY DEF Types3, PilotTypes, HandlerReturns
<1>3. /\ con' \in [Streams -> Connection] /\ con'[s] = NewConnection(FALSE)
      /\ \A t \in Streams \ {s} : con'[t] = con[t]
  BY <1>1, <1>2
<1> QED
  BY <1>1, <1>3 DEF Returned, HandlerReturns, pushVars, netVars

(* They leave what the connection watches and its scope alone. *)
LEMMA AdvanceCases ==
    ASSUME Types3, PushTypes,
           \/ \E s \in Streams : InitProxy(s) \/ AddCon(s) \/ \E n \in Configs : EnqueueClient(s, n)
           \/ Publish \/ Launch \/ \E n \in Configs : StartPush(n)
    PROVE  Advanced
<1>0. /\ con \in [Streams -> Connection] /\ version \in Configs /\ config \in Configs
      /\ \A s \in Streams : con[s].handler # "new" => con[s].scope \in Configs
      /\ config \in Versions
  BY DEF Types3, PilotTypes, PushTypes, Versions
<1>1. ASSUME NEW s \in Streams, InitProxy(s) PROVE Advanced
  <2>1. PICK b : b = [con[s] EXCEPT !.handler = "register"]
    OBVIOUS
  <2>2. PICK c : c = [b EXCEPT !.scope = config]
    OBVIOUS
  <2>3. /\ b \in Connection /\ b.open = con[s].open /\ b.handler = "register"
        /\ b.CDSWatch = con[s].CDSWatch /\ b.LDSWatch = con[s].LDSWatch
        /\ b.Clusters = con[s].Clusters /\ b.Routes = con[s].Routes
        /\ b.RouteNonceSent = con[s].RouteNonceSent
        /\ b.RouteVersionInfoSent = con[s].RouteVersionInfoSent
    BY <1>0, <2>1 DEF Connection, Handlers
  <2>4. /\ c \in Connection /\ c.open = b.open /\ c.handler = "register" /\ c.scope = config
        /\ c.CDSWatch = b.CDSWatch /\ c.LDSWatch = b.LDSWatch
        /\ c.Clusters = b.Clusters /\ c.Routes = b.Routes
        /\ c.RouteNonceSent = b.RouteNonceSent
        /\ c.RouteVersionInfoSent = b.RouteVersionInfoSent
    BY <1>0, <2>2, <2>3 DEF Connection
  <2>5. con' = [con EXCEPT ![s] = c] /\ con[s].handler = "new"
    BY <1>0, <1>1, <2>1, <2>2 DEF InitProxy
  <2>6. con' \in [Streams -> Connection] /\ con'[s] = c /\ \A t \in Streams \ {s} : con'[t] = con[t]
    BY <1>0, <2>4, <2>5
  <2>7. UNCHANGED <<version, EdsClients, stream, opened, requests, responses, envoy, rejects>>
    BY <1>1 DEF InitProxy, pushVars, netVars
  <2> QED BY <1>0, <2>3, <2>4, <2>5, <2>6, <2>7 DEF Advanced
<1>2. ASSUME NEW s \in Streams, AddCon(s) PROVE Advanced
  <2>1. PICK c : c = [con[s] EXCEPT !.handler = "first"]
    OBVIOUS
  <2>2. /\ c \in Connection /\ c.open = con[s].open /\ c.handler = "first"
        /\ c.scope = con[s].scope
        /\ c.CDSWatch = con[s].CDSWatch /\ c.LDSWatch = con[s].LDSWatch
        /\ c.Clusters = con[s].Clusters /\ c.Routes = con[s].Routes
        /\ c.RouteNonceSent = con[s].RouteNonceSent
        /\ c.RouteVersionInfoSent = con[s].RouteVersionInfoSent
    BY <1>0, <2>1 DEF Connection, Handlers
  <2>3. con' = [con EXCEPT ![s] = c] /\ con[s].handler = "register"
    BY <1>0, <1>2, <2>1 DEF AddCon
  <2>4. con' \in [Streams -> Connection] /\ con'[s] = c /\ \A t \in Streams \ {s} : con'[t] = con[t]
    BY <1>0, <2>2, <2>3
  <2>5. UNCHANGED <<version, EdsClients, stream, opened, requests, responses, envoy, rejects>>
    BY <1>2 DEF AddCon, netVars
  <2> QED BY <1>0, <2>2, <2>3, <2>4, <2>5 DEF Advanced
<1>3. ASSUME UNCHANGED <<con, EdsClients, stream, opened, requests, responses, envoy, rejects>>,
             version' \in Configs
      PROVE  Advanced
  BY <1>0, <1>3 DEF Advanced
<1>4. ASSUME NEW s \in Streams, NEW n \in Configs, EnqueueClient(s, n) PROVE Advanced
  BY <1>0, <1>3, <1>4 DEF EnqueueClient, netVars
<1>5. ASSUME Publish \/ Launch PROVE Advanced
  BY <1>0, <1>3, <1>5 DEF Publish, Launch, netVars
<1>6. ASSUME NEW n \in Configs, StartPush(n) PROVE Advanced
  BY <1>0, <1>3, <1>6 DEF StartPush, netVars
<1> QED
  BY <1>1, <1>2, <1>4, <1>5, <1>6

(* A request that is sent or not. *)
LEMMA MayAsk ==
    ASSUME NEW p \in Seq(Request), NEW m \in Request, NEW w \in BOOLEAN, NEW n,
           n = p \o When(w, m)
    PROVE  /\ n \in Seq(Request)
           /\ w => RequestSent(p, m, n)
           /\ ~w => n = p
<1>1. CASE w
  <2>1. n = Append(p, m)
    BY <1>1, AppendIsConcat DEF When
  <2>2. RequestSent(p, m, n)
    BY <2>1, RequestAppended
  <2> QED BY <1>1, <2>2 DEF RequestSent
<1>2. CASE ~w
  BY <1>2, ConcatEmptySeq DEF When
<1> QED BY <1>1, <1>2

(* A request that does not count changes nothing about those that do. *)
LEMMA AskSkipped ==
    ASSUME NEW q, NEW m, NEW r, RequestSent(q, m, r), NEW type, NEW nonce,
           ~Counts(m, type, nonce), NEW names
    PROVE  /\ Asks(r, type, nonce) <=> Asks(q, type, nonce)
           /\ (\A i : LastAsk(q, type, nonce, i) => q[i].names = names)
                => \A i : LastAsk(r, type, nonce, i) => r[i].names = names
<1>1. /\ Asks(r, type, nonce) <=> Asks(q, type, nonce) \/ Counts(m, type, nonce)
      /\ \A i : LastAsk(r, type, nonce, i) =>
            \/ r[i] = m /\ Counts(m, type, nonce)
            \/ ~Counts(m, type, nonce) /\ LastAsk(q, type, nonce, i) /\ r[i] = q[i]
  BY DEF RequestSent
<1>2. \A i : LastAsk(r, type, nonce, i) => LastAsk(q, type, nonce, i) /\ r[i] = q[i]
  BY <1>1
<1> QED BY <1>1, <1>2

(* A request that counts is the last one. *)
LEMMA AskCounted ==
    ASSUME NEW q, NEW m, NEW r, RequestSent(q, m, r), NEW type, NEW nonce,
           Counts(m, type, nonce)
    PROVE  Asks(r, type, nonce) /\ \A i : LastAsk(r, type, nonce, i) => r[i] = m
<1>1. /\ Asks(r, type, nonce) <=> Asks(q, type, nonce) \/ Counts(m, type, nonce)
      /\ \A i : LastAsk(r, type, nonce, i) =>
            \/ r[i] = m /\ Counts(m, type, nonce)
            \/ ~Counts(m, type, nonce) /\ LastAsk(q, type, nonce, i) /\ r[i] = q[i]
  BY DEF RequestSent
<1> QED BY <1>1

(* The requests of a new stream. *)
LEMMA SubscriptionsSent ==
    ASSUME Types3, NEW q,
           q = <<Ask("CDS", {}, 0, None)>>
                 \o When(envoy.clusters # {}, Ask("EDS", envoy.clusters, 0, None))
                 \o When(envoy.wantsLDS, Ask("LDS", {}, 0, None))
                 \o When(envoy.routes # {}, Ask("RDS", envoy.routes, 0, envoy.rdsVersion))
    PROVE  Subscriptions(q)
<1>m. PICK m1, m2, m3, m4 :
        /\ m1 = Ask("CDS", {}, 0, None) /\ m2 = Ask("EDS", envoy.clusters, 0, None)
        /\ m3 = Ask("LDS", {}, 0, None)
        /\ m4 = Ask("RDS", envoy.routes, 0, envoy.rdsVersion)
  OBVIOUS
<1>w. PICK w2 \in BOOLEAN, w4 \in BOOLEAN :
        (w2 = (envoy.clusters # {})) /\ (w4 = (envoy.routes # {}))
  OBVIOUS
<1>1. /\ m1 \in Request /\ m2 \in Request /\ m3 \in Request /\ m4 \in Request
  <2>1. /\ envoy.clusters \in Names /\ envoy.routes \in Names
        /\ envoy.cds \in Versions /\ envoy.lds \in Versions /\ envoy.rdsVersion \in Versions
        /\ None \in Versions
    BY DEF Types3, EnvoyTypes, EnvoyState, Names, Versions
  <2> QED BY <1>m, <2>1, ValueTypes DEF Types
<1>2. /\ m1.type = "CDS" /\ m2.type = "EDS" /\ m3.type = "LDS" /\ m4.type = "RDS"
      /\ ~m1.nack /\ ~m2.nack /\ ~m3.nack /\ ~m4.nack
      /\ m2.nonce = 0 /\ m4.nonce = 0
      /\ m2.names = envoy.clusters /\ m4.names = envoy.routes
  BY <1>m DEF Ask
<1>3. RightNames(m1) /\ RightNames(m2) /\ RightNames(m3) /\ RightNames(m4)
  BY <1>2 DEF RightNames, Types3, EnvoyTypes, EnvoyState
<1>4. envoy.wantsLDS \in BOOLEAN
  BY DEF Types3, EnvoyTypes, EnvoyState
<1>q. PICK q1, q2, q3 :
        q1 = <<m1>> /\ q2 = q1 \o When(w2, m2) /\ q3 = q2 \o When(envoy.wantsLDS, m3)
  OBVIOUS
<1>5. q = q3 \o When(w4, m4)
  BY <1>m, <1>w, <1>q
<1>6. /\ q1 \in Seq(Request) /\ q1 # <<>> /\ q1[1] = m1 /\ Len(q1) = 1
  BY <1>1, <1>q
<1>7. /\ AllRight(q1) /\ RoutesPreceded(q1)
      /\ \A type : Has(q1, type) => type = "CDS"
      /\ \A type, nonce : Asks(q1, type, nonce) => type = "CDS"
  BY <1>2, <1>3, <1>6 DEF AllRight, RoutesPreceded, Has, Asks, Counts
<1>8. /\ q2 \in Seq(Request) /\ (w2 => RequestSent(q1, m2, q2)) /\ (~w2 => q2 = q1)
  BY <1>1, <1>6, <1>q, MayAsk
<1>9. /\ q3 \in Seq(Request)
      /\ envoy.wantsLDS => RequestSent(q2, m3, q3)
      /\ ~envoy.wantsLDS => q3 = q2
  <2>1. q2 \in Seq(Request)
    BY <1>8
  <2> QED BY <1>1, <1>4, <1>q, <2>1, MayAsk
<1>10. /\ q \in Seq(Request) /\ (w4 => RequestSent(q3, m4, q)) /\ (~w4 => q = q3)
  <2>1. q3 \in Seq(Request)
    BY <1>9
  <2> QED BY <1>1, <1>5, <2>1, MayAsk
<1>c. /\ \A nonce, i, p : LastAsk(p, "EDS", nonce, i) => Asks(p, "EDS", nonce)
      /\ \A nonce, i, p : LastAsk(p, "RDS", nonce, i) => Asks(p, "RDS", nonce)
      /\ Counts(m2, "EDS", 0) /\ ~Counts(m3, "EDS", 0) /\ ~Counts(m4, "EDS", 0)
      /\ ~Counts(m2, "RDS", 0) /\ ~Counts(m3, "RDS", 0) /\ Counts(m4, "RDS", 0)
  BY <1>2 DEF LastAsk, Asks, Counts
<1>11. /\ q2 # <<>> /\ q2[1] = m1 /\ AllRight(q2) /\ RoutesPreceded(q2)
       /\ ~Has(q2, "LDS")
       /\ ~Asks(q2, "RDS", 0)
       /\ \A i : LastAsk(q2, "EDS", 0, i) => q2[i].names = envoy.clusters
       /\ Asks(q2, "EDS", 0) \/ envoy.clusters = {}
  <2>1. CASE w2
    <3>1. RequestSent(q1, m2, q2)
      BY <1>8, <2>1
    <3>2. /\ q2 # <<>> /\ q2[1] = m1 /\ AllRight(q2) /\ RoutesPreceded(q2)
          /\ ~Has(q2, "LDS")
      BY <1>2, <1>3, <1>6, <1>7, <3>1 DEF RequestSent
    <3>3. /\ ~Asks(q2, "RDS", 0) /\ Asks(q2, "EDS", 0)
          /\ \A i : LastAsk(q2, "EDS", 0, i) => q2[i] = m2
      <4>1. ~Asks(q2, "RDS", 0)
        BY <1>7, <1>c, <3>1, AskSkipped
      <4>2. Asks(q2, "EDS", 0) /\ \A i : LastAsk(q2, "EDS", 0, i) => q2[i] = m2
        BY <1>c, <3>1, AskCounted
      <4> QED BY <4>1, <4>2
    <3> QED BY <1>2, <3>2, <3>3
  <2>2. CASE ~w2
    BY <1>6, <1>7, <1>8, <1>c, <1>w, <2>2
  <2> QED BY <2>1, <2>2
<1>12. /\ q3 # <<>> /\ q3[1] = m1 /\ AllRight(q3) /\ RoutesPreceded(q3)
       /\ Has(q3, "LDS") <=> envoy.wantsLDS
       /\ ~Asks(q3, "RDS", 0)
       /\ \A i : LastAsk(q3, "EDS", 0, i) => q3[i].names = envoy.clusters
       /\ Asks(q3, "EDS", 0) \/ envoy.clusters = {}
  <2>1. CASE envoy.wantsLDS
    <3>1. RequestSent(q2, m3, q3)
      BY <1>9, <2>1
    <3>2. /\ q3 # <<>> /\ q3[1] = m1 /\ AllRight(q3) /\ RoutesPreceded(q3)
          /\ Has(q3, "LDS")
      BY <1>2, <1>3, <1>11, <3>1 DEF RequestSent
    <3>3. /\ ~Asks(q3, "RDS", 0) /\ (Asks(q3, "EDS", 0) \/ envoy.clusters = {})
          /\ \A i : LastAsk(q3, "EDS", 0, i) => q3[i].names = envoy.clusters
      <4>1. ~Asks(q3, "RDS", 0) /\ (Asks(q3, "EDS", 0) \/ envoy.clusters = {})
        BY <1>11, <1>c, <3>1, AskSkipped
      <4>2. \A i : LastAsk(q3, "EDS", 0, i) => q3[i].names = envoy.clusters
        BY <1>11, <1>c, <3>1, AskSkipped
      <4> QED BY <4>1, <4>2
    <3> QED BY <2>1, <3>2, <3>3
  <2>2. CASE ~envoy.wantsLDS
    BY <1>9, <1>11, <2>2
  <2> QED BY <2>1, <2>2
<1>13. CASE w4
  <2>1. RequestSent(q3, m4, q)
    BY <1>10, <1>13
  <2>2. /\ q # <<>> /\ q[1] = m1 /\ AllRight(q) /\ (Has(q, "LDS") <=> envoy.wantsLDS)
        /\ envoy.wantsLDS => RoutesPreceded(q)
    BY <1>2, <1>3, <1>12, <2>1 DEF RequestSent
  <2>0. ASSUME NEW n, RequestSent(q3, m4, n)
        PROVE  /\ Asks(n, "EDS", 0) \/ envoy.clusters = {}
               /\ \A i : LastAsk(n, "EDS", 0, i) => n[i].names = envoy.clusters
               /\ Asks(n, "RDS", 0) /\ \A i : LastAsk(n, "RDS", 0, i) => n[i] = m4
    <3>1. Asks(n, "EDS", 0) \/ envoy.clusters = {}
      BY <1>12, <1>c, <2>0, AskSkipped
    <3>2. \A i : LastAsk(n, "EDS", 0, i) => n[i].names = envoy.clusters
      BY <1>12, <1>c, <2>0, AskSkipped
    <3>3. Asks(n, "RDS", 0) /\ \A i : LastAsk(n, "RDS", 0, i) => n[i] = m4
      BY <1>c, <2>0, AskCounted
    <3> QED BY <3>1, <3>2, <3>3
  <2>3. /\ Asks(q, "EDS", 0) \/ envoy.clusters = {}
        /\ \A i : LastAsk(q, "EDS", 0, i) => q[i].names = envoy.clusters
    BY <2>0, <2>1
  <2>4. Asks(q, "RDS", 0) /\ \A i : LastAsk(q, "RDS", 0, i) => q[i] = m4
    BY <2>0, <2>1
  <2> QED BY <1>2, <1>w, <1>10, <1>13, <2>2, <2>3, <2>4 DEF Subscriptions
<1>14. CASE ~w4
  BY <1>2, <1>w, <1>c, <1>10, <1>12, <1>14 DEF Subscriptions
<1> QED BY <1>13, <1>14

(* Envoy opens a stream. *)
LEMMA ConnectCases ==
    ASSUME Types3, Connect
    PROVE  Connected
<1>1. /\ stream = 0 /\ opened + 1 \in Streams /\ opened' = opened + 1 /\ stream' = opened + 1
  BY AdsStreamAssumption DEF Types3, NetTypes, Connect, Streams
<1>2. NewConnection(TRUE) \in Connection
  BY ValueTypes DEF NewConnection, Connection, Versions, Handlers
<1>3. con \in [Streams -> Connection] /\ con' = [con EXCEPT ![opened + 1] = NewConnection(TRUE)]
  BY <1>1 DEF Types3, PilotTypes, Connect
<1>4. /\ con' \in [Streams -> Connection] /\ con'[opened + 1] = NewConnection(TRUE)
      /\ \A t \in Streams \ {opened + 1} : con'[t] = con[t]
  BY <1>1, <1>2, <1>3
<1>5. Subscriptions(requests')
  <2>1. PICK q : q = requests'
    OBVIOUS
  <2>2. Subscriptions(q)
    BY <2>1, SubscriptionsSent DEF Connect
  <2> QED BY <2>1, <2>2
<1>6. /\ envoy' \in EnvoyState
      /\ envoy'.clusters = envoy.clusters /\ envoy'.routes = envoy.routes
      /\ envoy'.wantsLDS = envoy.wantsLDS /\ envoy'.rdsNonce = 0
  <2>1. envoy \in EnvoyState
    BY DEF Types3, EnvoyTypes
  <2>2. PICK a : a = [envoy EXCEPT !.edsNonce = 0]
    OBVIOUS
  <2>3. PICK b : b = [a EXCEPT !.rdsNonce = 0]
    OBVIOUS
  <2>4. envoy' = [b EXCEPT !.rejected = {}]
    BY <2>2, <2>3 DEF Connect
  <2>5. a \in EnvoyState /\ a.clusters = envoy.clusters /\ a.routes = envoy.routes
        /\ a.wantsLDS = envoy.wantsLDS
    BY <2>1, <2>2 DEF EnvoyState
  <2>6. b \in EnvoyState /\ b.clusters = a.clusters /\ b.routes = a.routes
        /\ b.wantsLDS = a.wantsLDS /\ b.rdsNonce = 0
    BY <2>3, <2>5 DEF EnvoyState
  <2> QED BY <2>4, <2>5, <2>6 DEF EnvoyState
<1> QED
  BY <1>1, <1>4, <1>5, <1>6 DEF Connected, Connect, pushVars

(* Envoy takes a response and sends requests. *)
SendsRequest(p, n, type, names, nonce, known) ==
    \E m \in Request :
        /\ m.type = type /\ ~m.nack /\ m.names = names /\ m.nonce = nonce /\ m.version = known
        /\ RightNames(m) /\ RequestSent(p, m, n)

AppliesCDS(r) ==
    /\ r.type = "CDS"
    /\ envoy'.cds = r.context /\ envoy'.clusters = ClustersOf[r.context]
    /\ envoy'.lds = envoy.lds /\ envoy'.routes = envoy.routes /\ envoy'.rds = envoy.rds
    /\ envoy'.rdsNonce = envoy.rdsNonce /\ envoy'.rdsVersion = envoy.rdsVersion
    /\ \E q : /\ SendsRequest(requests, q, "CDS", {}, 1, None)
              /\ \/ envoy'.clusters = envoy.clusters /\ requests' = q
                 \/ SendsRequest(q, requests', "EDS", envoy'.clusters, envoy'.edsNonce, None)

AppliesEDS(r) ==
    /\ r.type = "EDS"
    /\ envoy'.cds = envoy.cds /\ envoy'.clusters = envoy.clusters
    /\ \A x \in Clusters : envoy'.eds[x] =
          IF x \in r.names \cap envoy.clusters THEN r.context ELSE envoy.eds[x]
    /\ envoy'.lds = envoy.lds /\ envoy'.routes = envoy.routes /\ envoy'.rds = envoy.rds
    /\ envoy'.rdsNonce = envoy.rdsNonce /\ envoy'.rdsVersion = envoy.rdsVersion
    /\ SendsRequest(requests, requests', "EDS", envoy'.clusters, 1, None)

AppliesLDS(r) ==
    /\ r.type = "LDS"
    /\ envoy'.lds = r.context /\ envoy'.routes = RoutesOf[r.context]
    /\ envoy'.cds = envoy.cds /\ envoy'.clusters = envoy.clusters /\ envoy'.eds = envoy.eds
    /\ envoy'.rdsNonce = envoy.rdsNonce /\ envoy'.rdsVersion = envoy.rdsVersion
    /\ \E q : /\ SendsRequest(requests, q, "LDS", {}, 1, None)
              /\ \/ envoy'.routes = envoy.routes /\ requests' = q
                 \/ SendsRequest(q, requests', "RDS", envoy'.routes, envoy.rdsNonce,
                                 envoy.rdsVersion)

AppliesRDS(r) ==
    /\ r.type = "RDS"
    /\ envoy'.lds = envoy.lds /\ envoy'.routes = envoy.routes
    /\ envoy'.cds = envoy.cds /\ envoy'.clusters = envoy.clusters /\ envoy'.eds = envoy.eds
    /\ envoy'.rdsNonce = r.nonce /\ envoy'.rdsVersion = r.version
    /\ \A x \in Routes : envoy'.rds[x] =
          IF x \in r.names \cap envoy.routes THEN r.context ELSE envoy.rds[x]
    /\ SendsRequest(requests, requests', "RDS", envoy'.routes, r.nonce, r.version)

Responds(r) ==
    /\ responses # <<>> /\ r = Head(responses) /\ r \in Response
    /\ ResponseTaken(responses, responses')
    /\ envoy' \in EnvoyState /\ envoy'.wantsLDS = envoy.wantsLDS
    /\ UNCHANGED <<version, con, EdsClients, stream, opened>>

Applies(r) ==
    /\ Responds(r) /\ envoy'.rejected = envoy.rejected \ {r.type} /\ rejects' = rejects
    /\ AppliesCDS(r) \/ AppliesEDS(r) \/ AppliesLDS(r) \/ AppliesRDS(r)

Rejects(r) ==
    /\ Responds(r) /\ envoy'.rejected = envoy.rejected \cup {r.type}
    /\ rejects' \in 0 .. MaxRejects
    /\ envoy'.cds = envoy.cds /\ envoy'.clusters = envoy.clusters /\ envoy'.eds = envoy.eds
    /\ envoy'.lds = envoy.lds /\ envoy'.routes = envoy.routes /\ envoy'.rds = envoy.rds
    /\ r.type # "RDS" => envoy'.rdsNonce = envoy.rdsNonce
    /\ envoy'.rdsVersion = envoy.rdsVersion
    /\ \E m \in Request :
          m.type = r.type /\ m.nack /\ RightNames(m) /\ RequestSent(requests, m, requests')

Subscribes ==
    /\ stream # 0 /\ ~envoy.wantsLDS
    /\ envoy' \in EnvoyState /\ envoy'.wantsLDS = TRUE /\ envoy'.rejected = envoy.rejected
    /\ envoy'.cds = envoy.cds /\ envoy'.clusters = envoy.clusters /\ envoy'.eds = envoy.eds
    /\ envoy'.lds = envoy.lds /\ envoy'.routes = envoy.routes /\ envoy'.rds = envoy.rds
    /\ envoy'.rdsNonce = envoy.rdsNonce /\ envoy'.rdsVersion = envoy.rdsVersion
    /\ SendsRequest(requests, requests', "LDS", {}, 0, None)
    /\ UNCHANGED <<version, con, EdsClients, stream, opened, responses, rejects>>

(* A request for names of its kind is sent. *)
LEMMA AskSent ==
    ASSUME NEW p \in Seq(Request), NEW n, NEW type \in Types, NEW names \in Names,
           NEW nonce \in Nat, NEW known \in Versions,
           type = "EDS" => names \subseteq Clusters, type = "RDS" => names \subseteq Routes,
           n = Append(p, Ask(type, names, nonce, known))
    PROVE  n \in Seq(Request) /\ SendsRequest(p, n, type, names, nonce, known)
<1>1. PICK m : m = Ask(type, names, nonce, known)
  OBVIOUS
<1>2. /\ m \in Request /\ m.type = type /\ ~m.nack /\ m.names = names /\ m.nonce = nonce
      /\ m.version = known
  <2>1. m \in Request
    BY <1>1, ValueTypes
  <2> QED BY <1>1, <2>1 DEF Ask
<1>3. RightNames(m)
  BY <1>2 DEF RightNames
<1>4. RequestSent(p, m, n)
  BY <1>1, <1>2, RequestAppended
<1> QED
  BY <1>2, <1>3, <1>4 DEF SendsRequest, RequestSent

AckThenAsk(p, a, m, w, n) ==
    n = IF w THEN Append(Append(p, a), m) ELSE Append(p, a)

(* An acknowledgement and perhaps a subscription. *)
LEMMA AckAndAsk ==
    ASSUME NEW p \in Seq(Request), NEW a \in Request, NEW m \in Request, NEW w \in BOOLEAN, NEW n,
           n = p \o (<<a>> \o When(w, m))
    PROVE  AckThenAsk(p, a, m, w, n)
<1>1. <<a>> \in Seq(Request) /\ When(w, m) \in Seq(Request)
  BY DEF When
<1>2. Assoc(p, <<a>>, When(w, m))
  BY <1>1, Associative
<1>3. n = (p \o <<a>>) \o When(w, m)
  BY <1>2 DEF Assoc
<1>4. p \o <<a>> = Append(p, a) /\ Append(p, a) \in Seq(Request)
  BY AppendIsConcat, AppendProperties
<1>5. PICK b \in Seq(Request) : b = Append(p, a)
  BY <1>4
<1>6. n = b \o When(w, m)
  BY <1>3, <1>4, <1>5
<1>7. CASE w
  <2>1. b \o <<m>> = Append(b, m)
    BY AppendIsConcat
  <2> QED BY <1>5, <1>6, <1>7, <2>1 DEF When, AckThenAsk
<1>8. CASE ~w
  <2>1. b \o <<>> = b
    BY ConcatEmptySeq
  <2> QED BY <1>5, <1>6, <1>8, <2>1 DEF When, AckThenAsk
<1> QED BY <1>7, <1>8

(* Envoy applies a response. *)
LEMMA ApplyCases ==
    ASSUME Types3, ApplyResponse
    PROVE  \E r : Applies(r)
<1>r. PICK r : r = Head(responses)
  OBVIOUS
<1>a. PICK a : a = Applied(r)
  OBVIOUS
<1>e. PICK e : e = [a EXCEPT !.rejected = a.rejected \ {r.type}]
  OBVIOUS
<1>1. /\ responses # <<>> /\ responses' = Tail(responses) /\ envoy' = e
      /\ requests' = requests \o Follows(r, e)
      /\ UNCHANGED <<version, con, EdsClients, stream, opened, rejects>>
  BY <1>r, <1>a, <1>e DEF ApplyResponse, pilotVars, pushVars
<1>2. envoy \in EnvoyState /\ requests \in Seq(Request) /\ responses \in Seq(Response)
  BY DEF Types3, EnvoyTypes, NetTypes
<1>3. ResponseTaken(responses, responses') /\ r \in Response
  <2>1. ResponseTaken(responses, responses')
    BY <1>1, <1>2, ResponseReceived
  <2> QED BY <1>r, <2>1 DEF ResponseTaken
<1>4. /\ r.type \in {"CDS", "EDS", "LDS", "RDS"} /\ r.context \in Configs /\ r.nonce \in Nat
      /\ r.context \in Versions /\ r.version \in Versions /\ r.names \in Names
      /\ ClustersOf[r.context] \in SUBSET Clusters /\ RoutesOf[r.context] \in SUBSET Routes
      /\ None \in Versions /\ {} \in Names
  BY <1>3, AdsStreamAssumption DEF Response, Types, Versions, Names
<1>5. /\ envoy.eds \in [Clusters -> Versions] /\ envoy.rds \in [Routes -> Versions]
      /\ envoy.clusters \in SUBSET Clusters /\ envoy.routes \in SUBSET Routes
      /\ envoy.clusters \in Names /\ envoy.routes \in Names
      /\ envoy.rdsNonce \in Nat /\ envoy.edsNonce \in {0, 1} /\ envoy.rdsVersion \in Versions
  BY <1>2 DEF EnvoyState, Names
<1>6. ASSUME a \in EnvoyState, a.wantsLDS = envoy.wantsLDS, a.rejected = envoy.rejected
      PROVE  /\ Responds(r) /\ envoy'.rejected = envoy.rejected \ {r.type} /\ rejects' = rejects
             /\ envoy' = e
             /\ e.cds = a.cds /\ e.lds = a.lds /\ e.clusters = a.clusters /\ e.routes = a.routes
             /\ e.eds = a.eds /\ e.rds = a.rds /\ e.edsNonce = a.edsNonce
             /\ e.rdsNonce = a.rdsNonce /\ e.rdsVersion = a.rdsVersion
  <2>1. /\ e \in EnvoyState /\ e.rejected = a.rejected \ {r.type} /\ e.wantsLDS = a.wantsLDS
        /\ e.cds = a.cds /\ e.lds = a.lds /\ e.clusters = a.clusters /\ e.routes = a.routes
        /\ e.eds = a.eds /\ e.rds = a.rds /\ e.edsNonce = a.edsNonce
        /\ e.rdsNonce = a.rdsNonce /\ e.rdsVersion = a.rdsVersion
    BY <1>6, <1>e DEF EnvoyState
  <2> QED BY <1>r, <1>1, <1>3, <1>6, <2>1 DEF Responds
<1>7. CASE r.type = "CDS"
  <2>1. PICK f \in [Clusters -> Versions] : f = [c \in Clusters |->
            IF c \in ClustersOf[r.context] THEN envoy.eds[c] ELSE None]
    BY <1>4, <1>5
  <2>2. a = [envoy EXCEPT !.cds = r.context, !.clusters = ClustersOf[r.context], !.eds = f]
    BY <1>a, <1>7, <2>1 DEF Applied
  <2>3. /\ a \in EnvoyState /\ a.wantsLDS = envoy.wantsLDS /\ a.rejected = envoy.rejected
        /\ a.cds = r.context /\ a.clusters = ClustersOf[r.context]
        /\ a.lds = envoy.lds /\ a.routes = envoy.routes /\ a.rds = envoy.rds
        /\ a.rdsNonce = envoy.rdsNonce /\ a.rdsVersion = envoy.rdsVersion
        /\ a.edsNonce = envoy.edsNonce
    BY <1>2, <1>4, <2>1, <2>2 DEF EnvoyState
  <2>w. PICK w \in BOOLEAN : w = (e.clusters # envoy.clusters)
    OBVIOUS
  <2>4. Follows(r, e) = <<Ask("CDS", {}, 1, None)>>
             \o When(w, Ask("EDS", e.clusters, e.edsNonce, None))
    BY <1>7, <2>w DEF Follows
  <2>5. /\ e.clusters \in SUBSET Clusters /\ e.clusters \in Names /\ e.edsNonce \in Nat
        /\ e.clusters = ClustersOf[r.context]
    BY <1>4, <1>5, <1>6, <2>3 DEF Names
  <2>6. PICK m1, m2 : m1 = Ask("CDS", {}, 1, None) /\ m2 = Ask("EDS", e.clusters, e.edsNonce, None)
    OBVIOUS
  <2>7. m1 \in Request /\ m2 \in Request
    BY <1>4, <2>5, <2>6, ValueTypes DEF Types
  <2>8. requests' = IF w THEN Append(Append(requests, m1), m2) ELSE Append(requests, m1)
    <3>1. requests' = requests \o (<<m1>> \o When(w, m2))
      BY <1>1, <2>4, <2>6, Zenon
    <3>2. AckThenAsk(requests, m1, m2, w, requests')
      BY <1>2, <2>7, <3>1, AckAndAsk, Zenon
    <3> QED BY <3>2, Zenon DEF AckThenAsk
  <2>9. PICK q : q = Append(requests, m1)
    OBVIOUS
  <2>10. q \in Seq(Request) /\ SendsRequest(requests, q, "CDS", {}, 1, None)
    BY <1>2, <1>4, <2>6, <2>9, AskSent DEF Types
  <2>11. CASE w
    <3>1. requests' = Append(q, m2)
      BY <2>8, <2>9, <2>11
    <3>2. SendsRequest(q, requests', "EDS", e.clusters, e.edsNonce, None)
      BY <1>4, <2>5, <2>6, <2>10, <3>1, AskSent DEF Types
    <3> QED BY <1>6, <1>7, <2>3, <2>10, <3>2 DEF Applies, AppliesCDS
  <2>12. CASE ~w
    <3>1. requests' = q /\ e.clusters = envoy.clusters
      BY <2>8, <2>9, <2>12, <2>w
    <3> QED BY <1>6, <1>7, <2>3, <2>10, <3>1 DEF Applies, AppliesCDS
  <2> QED BY <2>11, <2>12
<1>8. CASE r.type = "EDS"
  <2>1. PICK f \in [Clusters -> Versions] : f = [c \in Clusters |->
            IF c \in r.names \cap envoy.clusters THEN r.context ELSE envoy.eds[c]]
    BY <1>4, <1>5
  <2>2. a = [envoy EXCEPT !.edsNonce = 1, !.eds = f]
    BY <1>a, <1>8, <2>1 DEF Applied
  <2>3. /\ a \in EnvoyState /\ a.wantsLDS = envoy.wantsLDS /\ a.rejected = envoy.rejected
        /\ a.cds = envoy.cds /\ a.clusters = envoy.clusters /\ a.eds = f
        /\ a.lds = envoy.lds /\ a.routes = envoy.routes /\ a.rds = envoy.rds
        /\ a.rdsNonce = envoy.rdsNonce /\ a.rdsVersion = envoy.rdsVersion
    BY <1>2, <1>4, <2>1, <2>2 DEF EnvoyState
  <2>4. e.clusters = envoy.clusters /\ e.eds = f
    BY <1>6, <2>3
  <2>5. PICK m : m = Ask("EDS", e.clusters, 1, None)
    OBVIOUS
  <2>6. Follows(r, e) = <<m>>
    BY <1>8, <2>5 DEF Follows
  <2>7. m \in Request
    BY <1>4, <1>5, <2>4, <2>5, ValueTypes DEF Types
  <2>8. requests' = Append(requests, m)
    BY <1>1, <1>2, <2>6, <2>7, AppendIsConcat
  <2>9. SendsRequest(requests, requests', "EDS", e.clusters, 1, None)
    BY <1>2, <1>4, <1>5, <2>4, <2>5, <2>8, AskSent DEF Types
  <2>10. \A x \in Clusters : envoy'.eds[x] =
            IF x \in r.names \cap envoy.clusters THEN r.context ELSE envoy.eds[x]
    BY <1>1, <2>1, <2>4
  <2> QED BY <1>6, <1>8, <2>3, <2>9, <2>10 DEF Applies, AppliesEDS
<1>9. CASE r.type = "LDS"
  <2>1. PICK f \in [Routes -> Versions] : f = [x \in Routes |->
            IF x \in RoutesOf[r.context] THEN envoy.rds[x] ELSE None]
    BY <1>4, <1>5
  <2>2. a = [envoy EXCEPT !.lds = r.context, !.routes = RoutesOf[r.context], !.rds = f]
    BY <1>a, <1>9, <2>1 DEF Applied
  <2>3. /\ a \in EnvoyState /\ a.wantsLDS = envoy.wantsLDS /\ a.rejected = envoy.rejected
        /\ a.cds = envoy.cds /\ a.clusters = envoy.clusters /\ a.eds = envoy.eds
        /\ a.lds = r.context /\ a.routes = RoutesOf[r.context]
        /\ a.rdsNonce = envoy.rdsNonce /\ a.rdsVersion = envoy.rdsVersion
    BY <1>2, <1>4, <2>1, <2>2 DEF EnvoyState
  <2>w. PICK w \in BOOLEAN : w = (e.routes # envoy.routes)
    OBVIOUS
  <2>5. /\ e.routes \in SUBSET Routes /\ e.routes \in Names
        /\ e.rdsNonce = envoy.rdsNonce /\ e.rdsVersion = envoy.rdsVersion
    BY <1>4, <1>6, <2>3 DEF Names
  <2>6. PICK m1, m2 : /\ m1 = Ask("LDS", {}, 1, None)
                      /\ m2 = Ask("RDS", e.routes, envoy.rdsNonce, envoy.rdsVersion)
    OBVIOUS
  <2>4. Follows(r, e) = <<m1>> \o When(w, m2)
    BY <1>9, <2>w, <2>5, <2>6 DEF Follows
  <2>7. m1 \in Request /\ m2 \in Request
    BY <1>4, <1>5, <2>5, <2>6, ValueTypes DEF Types
  <2>8. requests' = IF w THEN Append(Append(requests, m1), m2) ELSE Append(requests, m1)
    <3>1. requests' = requests \o (<<m1>> \o When(w, m2))
      BY <1>1, <2>4, Zenon
    <3>2. AckThenAsk(requests, m1, m2, w, requests')
      BY <1>2, <2>7, <3>1, AckAndAsk, Zenon
    <3> QED BY <3>2, Zenon DEF AckThenAsk
  <2>9. PICK q : q = Append(requests, m1)
    OBVIOUS
  <2>10. q \in Seq(Request) /\ SendsRequest(requests, q, "LDS", {}, 1, None)
    BY <1>2, <1>4, <2>6, <2>9, AskSent DEF Types
  <2>11. CASE w
    <3>1. requests' = Append(q, m2)
      BY <2>8, <2>9, <2>11
    <3>2. SendsRequest(q, requests', "RDS", e.routes, envoy.rdsNonce, envoy.rdsVersion)
      BY <1>5, <2>5, <2>6, <2>10, <3>1, AskSent DEF Types
    <3> QED BY <1>6, <1>9, <2>3, <2>10, <3>2 DEF Applies, AppliesLDS
  <2>12. CASE ~w
    <3>1. requests' = q /\ e.routes = envoy.routes
      BY <2>8, <2>9, <2>12, <2>w
    <3> QED BY <1>6, <1>9, <2>3, <2>10, <3>1 DEF Applies, AppliesLDS
  <2> QED BY <2>11, <2>12
<1>10. CASE r.type = "RDS"
  <2>1. PICK f \in [Routes -> Versions] : f = [x \in Routes |->
            IF x \in r.names \cap envoy.routes THEN r.context ELSE envoy.rds[x]]
    BY <1>4, <1>5
  <2>2. a = [envoy EXCEPT !.rdsNonce = r.nonce, !.rdsVersion = r.version, !.rds = f]
    BY <1>a, <1>10, <2>1 DEF Applied
  <2>3. /\ a \in EnvoyState /\ a.wantsLDS = envoy.wantsLDS /\ a.rejected = envoy.rejected
        /\ a.cds = envoy.cds /\ a.clusters = envoy.clusters /\ a.eds = envoy.eds
        /\ a.lds = envoy.lds /\ a.routes = envoy.routes /\ a.rds = f
        /\ a.rdsNonce = r.nonce /\ a.rdsVersion = r.version
    BY <1>2, <1>4, <2>1, <2>2 DEF EnvoyState
  <2>4. e.routes = envoy.routes /\ e.rds = f
    BY <1>6, <2>3
  <2>5. PICK m : m = Ask("RDS", e.routes, r.nonce, r.version)
    OBVIOUS
  <2>6. Follows(r, e) = <<m>>
    BY <1>10, <2>5 DEF Follows
  <2>7. m \in Request
    BY <1>4, <1>5, <2>4, <2>5, ValueTypes DEF Types
  <2>8. requests' = Append(requests, m)
    BY <1>1, <1>2, <2>6, <2>7, AppendIsConcat
  <2>9. SendsRequest(requests, requests', "RDS", e.routes, r.nonce, r.version)
    BY <1>2, <1>4, <1>5, <2>4, <2>5, <2>8, AskSent DEF Types
  <2>10. \A x \in Routes : envoy'.rds[x] =
            IF x \in r.names \cap envoy.routes THEN r.context ELSE envoy.rds[x]
    BY <1>1, <2>1, <2>4
  <2> QED BY <1>6, <1>10, <2>3, <2>9, <2>10 DEF Applies, AppliesRDS
<1> QED BY <1>4, <1>7, <1>8, <1>9, <1>10

(* Envoy rejects a response. *)
LEMMA RejectCases ==
    ASSUME Types3, RejectResponse
    PROVE  \E r : Rejects(r)
<1>r. PICK r : r = Head(responses)
  OBVIOUS
<1>n. PICK n1, n2 : /\ n1 = (IF r.type = "EDS" THEN 1 ELSE envoy.edsNonce)
                    /\ n2 = (IF r.type = "RDS" THEN r.nonce ELSE envoy.rdsNonce)
  OBVIOUS
<1>e. PICK e : e = [envoy EXCEPT !.rejected = envoy.rejected \cup {r.type},
                                 !.edsNonce = n1, !.rdsNonce = n2]
  OBVIOUS
<1>s. PICK names : names = CASE r.type = "EDS" -> e.clusters
                             [] r.type = "RDS" -> e.routes
                             [] OTHER -> {}
  OBVIOUS
<1>m. PICK m : m = [Ask(r.type, names, r.nonce, e.rdsVersion) EXCEPT !.nack = TRUE]
  OBVIOUS
<1>1. /\ responses # <<>> /\ responses' = Tail(responses) /\ envoy' = e
      /\ requests' = Append(requests, m)
      /\ rejects < MaxRejects /\ rejects' = rejects + 1
      /\ UNCHANGED <<version, con, EdsClients, stream, opened>>
  BY <1>r, <1>n, <1>e, <1>s, <1>m DEF RejectResponse, pilotVars, pushVars
<1>2. /\ envoy \in EnvoyState /\ requests \in Seq(Request) /\ responses \in Seq(Response)
      /\ rejects \in 0 .. MaxRejects
  BY DEF Types3, EnvoyTypes, NetTypes
<1>3. ResponseTaken(responses, responses') /\ r \in Response
  <2>1. ResponseTaken(responses, responses')
    BY <1>1, <1>2, ResponseReceived
  <2> QED BY <1>r, <2>1 DEF ResponseTaken
<1>4. r.type \in Types /\ r.nonce \in Nat
  BY <1>3 DEF Response
<1>5. /\ e \in EnvoyState /\ e.rejected = envoy.rejected \cup {r.type}
      /\ e.wantsLDS = envoy.wantsLDS
      /\ e.cds = envoy.cds /\ e.clusters = envoy.clusters /\ e.eds = envoy.eds
      /\ e.lds = envoy.lds /\ e.routes = envoy.routes /\ e.rds = envoy.rds
      /\ r.type # "RDS" => e.rdsNonce = envoy.rdsNonce
      /\ e.rdsVersion = envoy.rdsVersion
  <2>1. n1 \in {0, 1} /\ n2 \in Nat /\ (r.type # "RDS" => n2 = envoy.rdsNonce)
    BY <1>2, <1>4, <1>n DEF EnvoyState
  <2>2. envoy.rejected \cup {r.type} \in SUBSET Types
    BY <1>2, <1>4 DEF EnvoyState
  <2>3. /\ e \in EnvoyState /\ e.rejected = envoy.rejected \cup {r.type}
        /\ e.wantsLDS = envoy.wantsLDS /\ e.rdsNonce = n2
        /\ e.cds = envoy.cds /\ e.clusters = envoy.clusters /\ e.eds = envoy.eds
        /\ e.lds = envoy.lds /\ e.routes = envoy.routes /\ e.rds = envoy.rds
        /\ e.rdsVersion = envoy.rdsVersion
    BY <1>2, <1>e, <2>1, <2>2 DEF EnvoyState
  <2> QED BY <2>1, <2>3
<1>6. m \in Request /\ m.type = r.type /\ m.nack /\ RightNames(m)
  <2>1. /\ names \in Names
        /\ r.type = "EDS" => names \subseteq Clusters
        /\ r.type = "RDS" => names \subseteq Routes
        /\ e.rdsVersion \in Versions
    BY <1>5, <1>s DEF EnvoyState, Names
  <2>2. PICK b : b = Ask(r.type, names, r.nonce, e.rdsVersion)
    OBVIOUS
  <2>3. b \in Request /\ b.type = r.type /\ b.names = names
    <3>1. b \in Request
      BY <1>4, <2>1, <2>2, ValueTypes
    <3> QED BY <2>2, <3>1 DEF Ask
  <2>4. m = [b EXCEPT !.nack = TRUE]
    BY <1>m, <2>2
  <2>5. m \in Request /\ m.type = r.type /\ m.nack /\ m.names = names
    BY <2>3, <2>4 DEF Request
  <2> QED BY <2>1, <2>5 DEF RightNames
<1>7. RequestSent(requests, m, requests')
  BY <1>1, <1>2, <1>6, RequestAppended
<1>8. rejects' \in 0 .. MaxRejects
  BY <1>1, <1>2, AdsStreamAssumption
<1>9. Responds(r)
  BY <1>r, <1>1, <1>3, <1>5 DEF Responds
<1> QED
  BY <1>1, <1>5, <1>6, <1>7, <1>8, <1>9 DEF Rejects

(* Envoy asks for listeners. *)
LEMMA SubscribeCases ==
    ASSUME Types3, SubscribeListeners
    PROVE  Subscribes
<1>1. envoy \in EnvoyState /\ requests \in Seq(Request)
  BY DEF Types3, EnvoyTypes, NetTypes
<1>2. /\ stream # 0 /\ ~envoy.wantsLDS
      /\ envoy' = [envoy EXCEPT !.wantsLDS = TRUE]
      /\ requests' = Append(requests, Ask("LDS", {}, 0, None))
      /\ UNCHANGED <<version, con, EdsClients, stream, opened, responses, rejects>>
  BY DEF SubscribeListeners, ClustersWarm, pilotVars, pushVars
<1>3. /\ envoy' \in EnvoyState /\ envoy'.wantsLDS = TRUE /\ envoy'.rejected = envoy.rejected
      /\ envoy'.cds = envoy.cds /\ envoy'.clusters = envoy.clusters /\ envoy'.eds = envoy.eds
      /\ envoy'.lds = envoy.lds /\ envoy'.routes = envoy.routes /\ envoy'.rds = envoy.rds
      /\ envoy'.rdsNonce = envoy.rdsNonce /\ envoy'.rdsVersion = envoy.rdsVersion
  BY <1>1, <1>2 DEF EnvoyState
<1>4. SendsRequest(requests, requests', "LDS", {}, 0, None)
  <2>1. "LDS" \in Types /\ {} \in Names /\ None \in Versions
    BY DEF Types, Names, Versions
  <2> QED BY <1>1, <1>2, <2>1, AskSent
<1> QED
  BY <1>2, <1>3, <1>4 DEF Subscribes

(* The steps of the system. *)
Handled(s) ==
    \/ RequestIgnored(s) \/ ClustersRequested(s) \/ ListenersRequested(s)
    \/ RoutesRequested(s) \/ EndpointsRequested(s)

Moves ==
    \/ \E s \in Streams : Handled(s) \/ PushHandled(s) \/ Returned(s)
    \/ Advanced \/ Connected \/ Disconnect
    \/ \E r : Applies(r) \/ Rejects(r)
    \/ Subscribes

(* They are all there are. *)
LEMMA StepCases ==
    ASSUME Types3, PushTypes, Next
    PROVE  Moves
<1>1. ASSUME NEW s \in Streams, HandleRequest(s) PROVE Moves
  BY <1>1, HandleCases DEF Moves, Handled
<1>2. ASSUME NEW s \in Streams, HandlePush(s) PROVE Moves
  BY <1>2, PushCases DEF Moves
<1>3. ASSUME NEW s \in Streams, HandlerReturns(s) PROVE Moves
  BY <1>3, ReturnCases DEF Moves
<1>4. CASE \/ \E s \in Streams : InitProxy(s) \/ AddCon(s) \/ \E n \in Configs : EnqueueClient(s, n)
           \/ Publish \/ Launch \/ \E n \in Configs : StartPush(n)
  BY <1>4, AdvanceCases DEF Moves
<1>5. CASE Connect
  BY <1>5, ConnectCases DEF Moves
<1>6. CASE Disconnect
  BY <1>6 DEF Moves
<1>7. CASE ApplyResponse
  BY <1>7, ApplyCases DEF Moves
<1>8. CASE RejectResponse
  BY <1>8, RejectCases DEF Moves
<1>9. CASE SubscribeListeners
  BY <1>9, SubscribeCases DEF Moves
<1> QED
  BY <1>1, <1>2, <1>3, <1>4, <1>5, <1>6, <1>7, <1>8, <1>9 DEF Next

(* A response made from the connection's scope is sent. *)
Replies(type, names, nonce) ==
    \E m \in Response :
        /\ m.type = type /\ m.names = names /\ m.nonce = nonce
        /\ m.context = con[stream].scope /\ m.version = version
        /\ ResponseSent(responses, m, responses')

(* A subscription is taken off the requests and replied to. *)
LEMMA ReplyFacts ==
    ASSUME Types3, NEW s \in Streams, Handled(s)
    PROVE  /\ requests # <<>> /\ RequestTaken(requests, requests')
           /\ Head(requests) \in Request /\ RightNames(Head(requests))
           /\ ClustersRequested(s) => Replies("CDS", {}, 1)
           /\ ListenersRequested(s) => Replies("LDS", {}, 1)
           /\ RoutesRequested(s) =>
                 Replies("RDS", Head(requests).names, con[s].RouteNonceSent + 1)
           /\ EndpointsRequested(s) => Replies("EDS", Head(requests).names, 1)
<1>1. /\ requests \in Seq(Request) /\ AllRight(requests) /\ responses \in Seq(Response)
      /\ version \in Configs /\ con[s].RouteNonceSent \in Nat
  BY DEF Types3, PilotTypes, NetTypes, AllRight, Connection
<1>2. /\ requests # <<>> /\ requests' = Tail(requests)
      /\ stream = s /\ con[s].scope \in Configs
  BY DEF Handled, RequestIgnored, ClustersRequested, ListenersRequested, RoutesRequested,
         EndpointsRequested, TakesRequest, Handles
<1>3. RequestTaken(requests, requests')
  BY <1>1, <1>2, RequestReceived
<1>4. Head(requests) \in Request /\ RightNames(Head(requests))
  BY <1>1, <1>3 DEF RequestTaken
<1>5. Head(requests).names \in Names /\ {} \in Names /\ con[s].RouteNonceSent + 1 \in Nat
  BY <1>1, <1>4 DEF Request, Names
<1>6. ASSUME NEW type \in Types, NEW names \in Names, NEW nonce \in Nat,
             responses' = Append(responses, Made(con[s].scope, type, names, nonce))
      PROVE  Replies(type, names, nonce)
  <2>1. PICK m : m = Made(con[s].scope, type, names, nonce)
    OBVIOUS
  <2>2. m \in Response
    BY <1>1, <1>2, <2>1, ValueTypes
  <2>3. ResponseSent(responses, m, responses')
    BY <1>1, <1>6, <2>1, <2>2, ResponseAppended
  <2>4. /\ m.type = type /\ m.names = names /\ m.nonce = nonce
        /\ m.context = con[stream].scope /\ m.version = version
    BY <1>2, <2>1 DEF Made
  <2> QED BY <2>2, <2>3, <2>4 DEF Replies
<1>7. /\ ClustersRequested(s) => Replies("CDS", {}, 1)
      /\ ListenersRequested(s) => Replies("LDS", {}, 1)
  BY <1>5, <1>6 DEF ClustersRequested, ListenersRequested, Types
<1>8. RoutesRequested(s) => Replies("RDS", Head(requests).names, con[s].RouteNonceSent + 1)
  BY <1>5, <1>6 DEF RoutesRequested, Types
<1>9. EndpointsRequested(s) => Replies("EDS", Head(requests).names, 1)
  BY <1>5, <1>6 DEF EndpointsRequested, Types
<1> QED BY <1>2, <1>3, <1>4, <1>7, <1>8, <1>9

(* What all steps of a handler have in common. *)
LEMMA HandledFacts ==
    ASSUME Types3, NEW s \in Streams, Handled(s) \/ PushHandled(s)
    PROVE  /\ stream = s /\ UNCHANGED <<version, stream, opened, envoy, rejects>>
           /\ con[s].open
           /\ con' \in [Streams -> Connection]
           /\ \A t \in Streams \ {s} : con'[t] = con[t]
           /\ con'[s].open /\ con'[s].handler = "select" /\ Tracked(con[s])
           /\ con'[s].scope \in Configs
           /\ responses' \in Seq(Response)
<1>1. /\ stream = s /\ UNCHANGED <<version, stream, opened, envoy, rejects>>
      /\ con[s].open
      /\ con' \in [Streams -> Connection]
      /\ \A t \in Streams \ {s} : con'[t] = con[t]
      /\ con'[s].open /\ con'[s].handler = "select" /\ Tracked(con[s])
      /\ con'[s].scope \in Configs
  BY DEF Handled, RequestIgnored, ClustersRequested, ListenersRequested, RoutesRequested,
         EndpointsRequested, PushHandled, Handles
<1>2. CASE RequestIgnored(s)
  BY <1>1, <1>2 DEF RequestIgnored, Types3, NetTypes
<1>3. CASE Handled(s) /\ ~RequestIgnored(s)
  BY <1>1, <1>3, ReplyFacts DEF Handled, Replies, ResponseSent
<1>4. CASE PushHandled(s)
  BY <1>1, <1>4 DEF PushHandled, PushSends
<1> QED BY <1>2, <1>3, <1>4

-----------------------------------------------------------------------------
(* The parts of the invariant, one after the other. *)

(* Requests sent have their types. *)
LEMMA SentTypes ==
    ASSUME NEW p \in Seq(Request), AllRight(p), NEW n, NEW type, NEW names, NEW nonce, NEW known,
           SendsRequest(p, n, type, names, nonce, known)
    PROVE  n \in Seq(Request) /\ AllRight(n)
BY DEF SendsRequest, RequestSent

(* Types. *)
LEMMA KeepsTypes ==
    ASSUME Types3, Moves
    PROVE  Types3'
<1>1. ASSUME NEW s \in Streams, Handled(s) PROVE Types3'
  <2>1. PilotTypes'
    <3>1. EdsClients' \in [Clusters -> SUBSET Streams]
      BY <1>1 DEF Handled, RequestIgnored, ClustersRequested, ListenersRequested,
                  RoutesRequested, EndpointsRequested, Types3, PilotTypes
    <3> QED BY <1>1, <3>1, HandledFacts DEF PilotTypes, Types3
  <2>2. NetTypes'
    <3>1. requests' \in Seq(Request) /\ AllRight(requests)'
      BY <1>1, ReplyFacts DEF RequestTaken, Types3, NetTypes, AllRight
    <3> QED BY <1>1, <3>1, HandledFacts DEF NetTypes, Types3, AllRight
  <2> QED BY <1>1, <2>1, <2>2, HandledFacts DEF Types3, EnvoyTypes
<1>2. ASSUME NEW s \in Streams, PushHandled(s) PROVE Types3'
  <2>1. UNCHANGED <<EdsClients, requests>>
    BY <1>2 DEF PushHandled
  <2> QED BY <1>2, <2>1, HandledFacts DEF Types3, PilotTypes, NetTypes, EnvoyTypes
<1>3. ASSUME NEW s \in Streams, Returned(s) PROVE Types3'
  BY <1>3 DEF Returned, Types3, PilotTypes, NetTypes, EnvoyTypes
<1>4. CASE Advanced
  BY <1>4 DEF Advanced, Types3, PilotTypes, NetTypes, EnvoyTypes
<1>5. CASE Connected
  <2>1. requests' \in Seq(Request) /\ AllRight(requests)'
    BY <1>5 DEF Connected, Subscriptions, AllRight
  <2>2. stream' \in 0 .. MaxStreams /\ opened' \in 0 .. MaxStreams
    BY <1>5, AdsStreamAssumption DEF Connected, Streams
  <2> QED BY <1>5, <2>1, <2>2
    DEF Connected, NewConnection, Types3, PilotTypes, NetTypes, EnvoyTypes, AllRight
<1>6. CASE Disconnect
  BY <1>6, AdsStreamAssumption
    DEF Disconnect, Types3, PilotTypes, NetTypes, EnvoyTypes
<1>7. ASSUME NEW r, Applies(r) PROVE Types3'
  <2>1. requests \in Seq(Request) /\ AllRight(requests)
    BY DEF Types3, NetTypes, AllRight
  <2>2. requests' \in Seq(Request) /\ AllRight(requests')
    <3>1. CASE AppliesCDS(r)
      BY <2>1, <3>1, SentTypes DEF AppliesCDS
    <3>2. CASE AppliesEDS(r)
      BY <2>1, <3>2, SentTypes DEF AppliesEDS
    <3>3. CASE AppliesLDS(r)
      BY <2>1, <3>3, SentTypes DEF AppliesLDS
    <3>4. CASE AppliesRDS(r)
      BY <2>1, <3>4, SentTypes DEF AppliesRDS
    <3> QED BY <1>7, <3>1, <3>2, <3>3, <3>4 DEF Applies
  <2> QED BY <1>7, <2>2 DEF Applies, Responds, ResponseTaken, Types3, PilotTypes, NetTypes,
                           EnvoyTypes, AllRight
<1>8. ASSUME NEW r, Rejects(r) PROVE Types3'
  <2>1. requests' \in Seq(Request) /\ AllRight(requests')
    BY <1>8 DEF Rejects, RequestSent, Types3, NetTypes, AllRight
  <2> QED BY <1>8, <2>1 DEF Rejects, Responds, ResponseTaken, Types3, PilotTypes, NetTypes,
                           EnvoyTypes, AllRight
<1>9. CASE Subscribes
  <2>1. requests' \in Seq(Request) /\ AllRight(requests')
    BY <1>9, SentTypes DEF Subscribes, Types3, NetTypes, AllRight
  <2> QED BY <1>9, <2>1 DEF Subscribes, Types3, PilotTypes, NetTypes, EnvoyTypes, AllRight
<1> QED
  BY <1>1, <1>2, <1>3, <1>4, <1>5, <1>6, <1>7, <1>8, <1>9 DEF Moves

(* A stream that is there is one of the streams. *)
LEMMA StreamIn ==
    ASSUME Types3
    PROVE  /\ stream # 0 => stream \in Streams
           /\ \A s \in Streams : s # 0 /\ s \in Nat
           /\ opened \in Nat
BY AdsStreamAssumption DEF Types3, NetTypes, Streams

(* Streams follow each other. *)
LEMMA KeepsStreamInv ==
    ASSUME Types3, StreamInv, Moves
    PROVE  StreamInv'
<1>1. ASSUME NEW s \in Streams, Handled(s) \/ PushHandled(s) PROVE StreamInv'
  <2>1. /\ stream = s /\ stream' = s /\ opened' = opened /\ con'[s].open
        /\ \A t \in Streams \ {s} : con'[t] = con[t]
    BY <1>1, HandledFacts
  <2>2. s # 0 /\ ~(s > s) /\ s \in Nat
    BY StreamIn
  <2> QED BY <2>1, <2>2 DEF StreamInv
<1>3. ASSUME NEW s \in Streams, Returned(s) PROVE StreamInv'
  BY <1>3, StreamIn DEF Returned, StreamInv
<1>4. CASE Advanced
  BY <1>4, StreamIn DEF Advanced, StreamInv
<1>5. CASE Connected
  <2>1. con'[opened + 1].open /\ opened + 1 # 0
    BY <1>5, StreamIn DEF Connected, NewConnection
  <2>2. \A t \in Streams : t > opened + 1 => t > opened /\ t # opened + 1
    BY StreamIn
  <2> QED BY <1>5, <2>1, <2>2 DEF Connected, StreamInv
<1>6. CASE Disconnect
  BY <1>6 DEF Disconnect, StreamInv
<1>7. ASSUME NEW r, Responds(r) PROVE StreamInv'
  BY <1>7 DEF Responds, StreamInv
<1>8. CASE Subscribes
  BY <1>8 DEF Subscribes, StreamInv
<1> QED
  BY <1>1, <1>3, <1>4, <1>5, <1>6, <1>7, <1>8 DEF Moves, Applies, Rejects

(* EdsClients follows the connections' lists. *)
LEMMA KeepsClientsInv ==
    ASSUME Types3, StreamInv, ClientsInv, Moves
    PROVE  ClientsInv'
<1>0. EdsClients \in [Clusters -> SUBSET Streams]
  BY DEF Types3, PilotTypes
<1>1. ASSUME NEW s \in Streams, Handled(s) \/ PushHandled(s), ~EndpointsRequested(s)
      PROVE  ClientsInv'
  <2>1. /\ con[s].open /\ con'[s].open /\ con'[s].Clusters = con[s].Clusters
        /\ EdsClients' = EdsClients
        /\ \A t \in Streams \ {s} : con'[t] = con[t]
    BY <1>1 DEF Handled, RequestIgnored, ClustersRequested, ListenersRequested,
                RoutesRequested, PushHandled, Handles
  <2>2. \A t \in Streams : /\ con'[t].open <=> con[t].open
                           /\ con'[t].Clusters = con[t].Clusters
    BY <2>1
  <2> QED BY <2>1, <2>2 DEF ClientsInv
<1>2. ASSUME NEW s \in Streams, EndpointsRequested(s) PROVE ClientsInv'
  <2> SUFFICES ASSUME NEW x \in Clusters
               PROVE  EdsClients'[x] = {t \in Streams : con'[t].open /\ x \in con'[t].Clusters}
    BY DEF ClientsInv
  <2>1. /\ con[s].open /\ con'[s].open /\ con'[s].Clusters = Head(requests).names
        /\ \A t \in Streams \ {s} : con'[t] = con[t]
        /\ EdsClients'[x] =
             IF x \in Head(requests).names \ con[s].Clusters THEN EdsClients[x] \cup {s}
             ELSE IF x \in con[s].Clusters \ Head(requests).names THEN EdsClients[x] \ {s}
             ELSE EdsClients[x]
    BY <1>2 DEF EndpointsRequested, Handles
  <2>2. EdsClients[x] = {t \in Streams : con[t].open /\ x \in con[t].Clusters}
    BY DEF ClientsInv
  <2> QED BY <2>1, <2>2
<1>3. ASSUME NEW s \in Streams, Returned(s) PROVE ClientsInv'
  <2> SUFFICES ASSUME NEW x \in Clusters
               PROVE  EdsClients'[x] = {t \in Streams : con'[t].open /\ x \in con'[t].Clusters}
    BY DEF ClientsInv
  <2>1. /\ con[s].open /\ ~con'[s].open
        /\ \A t \in Streams \ {s} : con'[t] = con[t]
        /\ EdsClients'[x] = IF x \in con[s].Clusters THEN EdsClients[x] \ {s} ELSE EdsClients[x]
    BY <1>3 DEF Returned
  <2>2. EdsClients[x] = {t \in Streams : con[t].open /\ x \in con[t].Clusters}
    BY DEF ClientsInv
  <2> QED BY <2>1, <2>2
<1>4. CASE Advanced
  BY <1>4 DEF Advanced, ClientsInv
<1>5. CASE Connected
  <2> SUFFICES ASSUME NEW x \in Clusters
               PROVE  EdsClients'[x] = {t \in Streams : con'[t].open /\ x \in con'[t].Clusters}
    BY DEF ClientsInv
  <2>1. /\ EdsClients' = EdsClients /\ opened + 1 \in Streams
        /\ \A t \in Streams \ {opened + 1} : con'[t] = con[t]
        /\ con'[opened + 1].Clusters = {}
    BY <1>5 DEF Connected, NewConnection
  <2>2. ~con[opened + 1].open
    <3>1. opened + 1 > opened
      BY StreamIn
    <3> QED BY <2>1, <3>1 DEF StreamInv
  <2>3. EdsClients[x] = {t \in Streams : con[t].open /\ x \in con[t].Clusters}
    BY DEF ClientsInv
  <2> QED BY <2>1, <2>2, <2>3
<1>6. CASE UNCHANGED <<con, EdsClients>>
  BY <1>6 DEF ClientsInv
<1> QED
  BY <1>1, <1>2, <1>3, <1>4, <1>5, <1>6
    DEF Moves, Handled, Applies, Rejects, Responds, Subscribes, Disconnect

(* A stream starts with a request for clusters. *)
LEMMA KeepsFirstInv ==
    ASSUME Types3, StreamInv, FirstInv, Moves
    PROVE  FirstInv'
<1>1. ASSUME NEW s \in Streams, Handled(s) PROVE FirstInv'
  <2>1. /\ stream = s /\ stream' = s /\ s # 0 /\ con'[s].handler = "select"
    BY <1>1, HandledFacts, StreamIn
  <2>2. con'[s].CDSWatch
    <3>1. CASE con[s].handler = "select"
      BY <1>1, <2>1, <3>1 DEF FirstInv, Handled, RequestIgnored, ClustersRequested,
           ListenersRequested, RoutesRequested, EndpointsRequested, Handles
    <3>2. CASE con[s].handler # "select"
      <4>1. requests[1].type = "CDS" /\ ~con[s].CDSWatch
        BY <2>1, <3>2 DEF FirstInv
      <4>2. Head(requests).type = "CDS"
        BY <1>1, <4>1, ReplyFacts DEF RequestTaken
      <4>3. ClustersRequested(s)
        BY <1>1, <4>1, <4>2 DEF Handled, RequestIgnored, ListenersRequested,
                                RoutesRequested, EndpointsRequested, TakesRequest
      <4> QED BY <4>3 DEF ClustersRequested, Handles
    <3> QED BY <3>1, <3>2
  <2> QED BY <2>1, <2>2 DEF FirstInv
<1>2. ASSUME NEW s \in Streams, PushHandled(s) PROVE FirstInv'
  <2>1. /\ stream = s /\ stream' = s /\ s # 0 /\ con'[s].handler = "select"
    BY <1>2, HandledFacts, StreamIn
  <2>2. con'[s].CDSWatch = con[s].CDSWatch
    BY <1>2 DEF PushHandled, Handles
  <2>3. con[s].CDSWatch
    BY <1>2, <2>1 DEF FirstInv, PushHandled
  <2> QED BY <2>1, <2>2, <2>3 DEF FirstInv
<1>3. ASSUME NEW s \in Streams, Returned(s) PROVE FirstInv'
  <2>1. stream # 0 => con'[stream] = con[stream]
    BY <1>3, StreamIn DEF Returned
  <2> QED BY <1>3, <2>1 DEF Returned, FirstInv
<1>4. CASE Advanced
  BY <1>4, StreamIn DEF Advanced, FirstInv
<1>5. CASE Connected
  <2>1. responses' = <<>>
    BY <1>5 DEF Connected, StreamInv
  <2>2. con'[stream'] = NewConnection(TRUE)
    BY <1>5 DEF Connected
  <2>3. requests' # <<>> /\ requests'[1].type = "CDS"
    BY <1>5 DEF Connected, Subscriptions
  <2> QED BY <2>1, <2>2, <2>3 DEF FirstInv, NewConnection
<1>6. CASE Disconnect
  BY <1>6 DEF Disconnect, FirstInv
<1>7. ASSUME NEW r, Responds(r) PROVE FirstInv'
  <2>1. stream # 0 => con[stream].handler = "select"
    BY <1>7 DEF Responds, FirstInv
  <2> QED BY <1>7, <2>1 DEF Responds, FirstInv
<1>8. CASE Subscribes
  <2>1. PICK m : RequestSent(requests, m, requests')
    BY <1>8 DEF Subscribes, SendsRequest
  <2>2. requests # <<>> => requests' # <<>> /\ requests'[1] = requests[1]
    BY <2>1 DEF RequestSent
  <2> QED BY <1>8, <2>2 DEF Subscribes, FirstInv
<1> QED
  BY <1>1, <1>2, <1>3, <1>4, <1>5, <1>6, <1>7, <1>8 DEF Moves, Applies, Rejects

(* Listeners and routes after a request of another kind. *)
LEMMA SentListeners ==
    ASSUME NEW p, NEW n, NEW type, NEW names, NEW nonce, NEW known,
           SendsRequest(p, n, type, names, nonce, known)
    PROVE  /\ Has(n, "LDS") <=> Has(p, "LDS") \/ type = "LDS"
           /\ RoutesPreceded(p) /\ type # "RDS" => RoutesPreceded(n)
BY DEF SendsRequest, RequestSent

(* Without a watch for listeners only clusters and endpoints are under way. *)
LEMMA OnlyClusters ==
    ASSUME Types3, StreamInv, ListenersInv, NEW r, Responds(r), ~con[stream].LDSWatch
    PROVE  /\ stream # 0 /\ r.type \in {"CDS", "EDS"}
           /\ ~Has(responses', "LDS") /\ ~Has(responses', "RDS")
           /\ con[stream].Routes = {}
           /\ envoy.wantsLDS => Has(requests, "LDS")
           /\ RoutesPreceded(requests)
<1>1. stream # 0
  BY DEF Responds, StreamInv
<1>2. \A type : Has(responses, type) <=> Has(responses', type) \/ r.type = type
  BY DEF Responds, ResponseTaken
<1>3. r.type \in {"CDS", "EDS", "LDS", "RDS"}
  BY DEF Responds, Response, Types
<1> QED
  BY <1>1, <1>2, <1>3 DEF ListenersInv

(* Listeners come before routes. *)
LEMMA KeepsListenersInv ==
    ASSUME Types3, StreamInv, FirstInv, ListenersInv, WantedInv, Moves
    PROVE  ListenersInv'
<1>1. ASSUME NEW s \in Streams, Handled(s) PROVE ListenersInv'
  <2> SUFFICES ASSUME ~con'[s].LDSWatch
               PROVE  /\ con'[s].Routes = {}
                      /\ ~Has(responses', "LDS") /\ ~Has(responses', "RDS")
                      /\ envoy'.wantsLDS => Has(requests', "LDS")
                      /\ RoutesPreceded(requests')
    BY <1>1, HandledFacts DEF ListenersInv
  <2>1. stream = s /\ s # 0 /\ envoy' = envoy
    BY <1>1, HandledFacts, StreamIn
  <2>2. ~ListenersRequested(s) /\ ~con[s].LDSWatch
    BY <1>1 DEF Handled, RequestIgnored, ClustersRequested, ListenersRequested,
                RoutesRequested, EndpointsRequested, Handles
  <2>3. /\ con[s].Routes = {}
        /\ ~Has(responses, "LDS") /\ ~Has(responses, "RDS")
        /\ envoy.wantsLDS => Has(requests, "LDS")
        /\ RoutesPreceded(requests)
    BY <2>1, <2>2 DEF ListenersInv
  <2>4. RequestTaken(requests, requests')
    BY <1>1, ReplyFacts
  <2>5. Head(requests).type # "LDS"
    BY <1>1, <2>2 DEF Handled, RequestIgnored, ClustersRequested,
                      RoutesRequested, EndpointsRequested, TakesRequest
  <2>6. ~RoutesRequested(s)
    BY <2>3, <2>4 DEF RequestTaken, RoutesRequested, TakesRequest, RouteIgnored
  <2>7. con'[s].Routes = con[s].Routes
    BY <1>1, <2>2, <2>6 DEF Handled, RequestIgnored, ClustersRequested,
                            EndpointsRequested, Handles
  <2>8. ~Has(responses', "LDS") /\ ~Has(responses', "RDS")
    <3>1. CASE RequestIgnored(s)
      BY <2>3, <3>1 DEF RequestIgnored
    <3>2. CASE ClustersRequested(s)
      BY <1>1, <2>3, <3>2, ReplyFacts DEF Replies, ResponseSent
    <3>3. CASE EndpointsRequested(s)
      BY <1>1, <2>3, <3>3, ReplyFacts DEF Replies, ResponseSent
    <3> QED BY <1>1, <2>2, <2>6, <3>1, <3>2, <3>3 DEF Handled
  <2>9. /\ envoy.wantsLDS => Has(requests', "LDS")
        /\ RoutesPreceded(requests')
    BY <2>3, <2>4, <2>5 DEF RequestTaken
  <2> QED BY <2>1, <2>3, <2>7, <2>8, <2>9
<1>2. ASSUME NEW s \in Streams, PushHandled(s) PROVE ListenersInv'
  <2>1. /\ stream = s /\ stream' = s /\ s # 0 /\ envoy' = envoy /\ requests' = requests
        /\ con'[s].LDSWatch = con[s].LDSWatch /\ con'[s].Routes = con[s].Routes
    BY <1>2, StreamIn DEF PushHandled, Handles
  <2>2. /\ Has(responses', "LDS") <=> Has(responses, "LDS") \/ con[s].LDSWatch
        /\ Has(responses', "RDS") <=> Has(responses, "RDS") \/ con[s].Routes # {}
    BY <1>2 DEF PushHandled, PushSends, SentLast
  <2> QED BY <2>1, <2>2 DEF ListenersInv
<1>3. ASSUME NEW s \in Streams, Returned(s) PROVE ListenersInv'
  <2>1. stream # 0 => con'[stream] = con[stream]
    BY <1>3, StreamIn DEF Returned
  <2> QED BY <1>3, <2>1 DEF Returned, ListenersInv
<1>4. CASE Advanced
  BY <1>4, StreamIn DEF Advanced, ListenersInv
<1>5. CASE Connected
  <2>1. ~Has(responses', "LDS") /\ ~Has(responses', "RDS")
    BY <1>5 DEF Connected, StreamInv, Has
  <2>2. con'[stream'].Routes = {}
    BY <1>5 DEF Connected, NewConnection
  <2>3. /\ envoy'.wantsLDS => Has(requests', "LDS")
        /\ RoutesPreceded(requests')
    BY <1>5 DEF Connected, Subscriptions, WantedInv
  <2> QED BY <2>1, <2>2, <2>3 DEF ListenersInv
<1>6. CASE Disconnect
  BY <1>6 DEF Disconnect, ListenersInv
<1>7. ASSUME NEW r, Applies(r) PROVE ListenersInv'
  <2> SUFFICES ASSUME ~con[stream].LDSWatch
               PROVE  /\ con[stream].Routes = {}
                      /\ ~Has(responses', "LDS") /\ ~Has(responses', "RDS")
                      /\ envoy'.wantsLDS => Has(requests', "LDS")
                      /\ RoutesPreceded(requests')
    BY <1>7 DEF Applies, Responds, ListenersInv
  <2>1. Responds(r) /\ envoy'.wantsLDS = envoy.wantsLDS
    BY <1>7 DEF Applies, Responds
  <2>2. /\ r.type \in {"CDS", "EDS"} /\ con[stream].Routes = {}
        /\ ~Has(responses', "LDS") /\ ~Has(responses', "RDS")
        /\ envoy.wantsLDS => Has(requests, "LDS")
        /\ RoutesPreceded(requests)
    BY <2>1, OnlyClusters
  <2>3. CASE AppliesCDS(r)
    <3>1. PICK q : /\ SendsRequest(requests, q, "CDS", {}, 1, None)
                   /\ \/ requests' = q
                      \/ SendsRequest(q, requests', "EDS", envoy'.clusters, envoy'.edsNonce, None)
      BY <2>3 DEF AppliesCDS
    <3>2. (Has(q, "LDS") <=> Has(requests, "LDS")) /\ RoutesPreceded(q)
      BY <2>2, <3>1, SentListeners
    <3>3. (Has(requests', "LDS") <=> Has(q, "LDS")) /\ RoutesPreceded(requests')
      BY <3>1, <3>2, SentListeners
    <3> QED BY <2>1, <2>2, <3>2, <3>3
  <2>4. CASE AppliesEDS(r)
    <3>1. SendsRequest(requests, requests', "EDS", envoy'.clusters, 1, None)
      BY <2>4 DEF AppliesEDS
    <3>2. (Has(requests', "LDS") <=> Has(requests, "LDS")) /\ RoutesPreceded(requests')
      BY <2>2, <3>1, SentListeners
    <3> QED BY <2>1, <2>2, <3>2
  <2> QED BY <1>7, <2>2, <2>3, <2>4 DEF Applies, AppliesLDS, AppliesRDS
<1>8. ASSUME NEW r, Rejects(r) PROVE ListenersInv'
  <2> SUFFICES ASSUME ~con[stream].LDSWatch
               PROVE  /\ con[stream].Routes = {}
                      /\ ~Has(responses', "LDS") /\ ~Has(responses', "RDS")
                      /\ envoy'.wantsLDS => Has(requests', "LDS")
                      /\ RoutesPreceded(requests')
    BY <1>8 DEF Rejects, Responds, ListenersInv
  <2>1. Responds(r) /\ envoy'.wantsLDS = envoy.wantsLDS
    BY <1>8 DEF Rejects, Responds
  <2>2. /\ r.type \in {"CDS", "EDS"} /\ con[stream].Routes = {}
        /\ ~Has(responses', "LDS") /\ ~Has(responses', "RDS")
        /\ envoy.wantsLDS => Has(requests, "LDS")
        /\ RoutesPreceded(requests)
    BY <2>1, OnlyClusters
  <2>3. (Has(requests, "LDS") => Has(requests', "LDS")) /\ RoutesPreceded(requests')
    BY <1>8, <2>2 DEF Rejects, RequestSent
  <2> QED BY <2>1, <2>2, <2>3
<1>9. CASE Subscribes
  <2>1. SendsRequest(requests, requests', "LDS", {}, 0, None)
    BY <1>9 DEF Subscribes
  <2>2. Has(requests', "LDS") /\ (RoutesPreceded(requests) => RoutesPreceded(requests'))
    BY <2>1, SentListeners
  <2> QED BY <1>9, <2>2 DEF Subscribes, ListenersInv
<1> QED
  BY <1>1, <1>2, <1>3, <1>4, <1>5, <1>6, <1>7, <1>8, <1>9 DEF Moves

(* Listeners are not asked for before they are wanted. *)
LEMMA KeepsWantedInv ==
    ASSUME Types3, StreamInv, ListenersInv, WantedInv, Moves
    PROVE  WantedInv'
<1>1. ASSUME NEW s \in Streams, Handled(s) PROVE WantedInv'
  <2>1. stream = s /\ s # 0 /\ stream' = s /\ envoy' = envoy
    BY <1>1, HandledFacts, StreamIn
  <2>2. RequestTaken(requests, requests')
    BY <1>1, ReplyFacts
  <2>3. ASSUME ~envoy.wantsLDS
        PROVE  ~con'[s].LDSWatch /\ ~Has(requests', "LDS") /\ envoy.routes = {}
    <3>1. ~con[s].LDSWatch /\ ~Has(requests, "LDS") /\ envoy.routes = {}
      BY <2>1, <2>3 DEF WantedInv
    <3>2. Head(requests).type # "LDS" /\ ~Has(requests', "LDS")
      BY <2>2, <3>1 DEF RequestTaken
    <3>3. ~ListenersRequested(s)
      BY <3>2 DEF ListenersRequested, TakesRequest
    <3>4. con'[s].LDSWatch = con[s].LDSWatch
      BY <1>1, <3>3 DEF Handled, RequestIgnored, ClustersRequested,
                        RoutesRequested, EndpointsRequested, Handles
    <3> QED BY <3>1, <3>2, <3>4
  <2> QED BY <2>1, <2>3 DEF WantedInv
<1>2. ASSUME NEW s \in Streams, PushHandled(s) PROVE WantedInv'
  <2>1. /\ stream = s /\ stream' = s /\ s # 0 /\ envoy' = envoy /\ requests' = requests
        /\ con'[s].LDSWatch = con[s].LDSWatch
    BY <1>2, StreamIn DEF PushHandled, Handles
  <2> QED BY <2>1 DEF WantedInv
<1>3. ASSUME NEW s \in Streams, Returned(s) PROVE WantedInv'
  <2>1. stream # 0 => con'[stream] = con[stream]
    BY <1>3, StreamIn DEF Returned
  <2> QED BY <1>3, <2>1 DEF Returned, WantedInv
<1>4. CASE Advanced
  BY <1>4, StreamIn DEF Advanced, WantedInv
<1>5. CASE Connected
  <2>1. ~con'[stream'].LDSWatch
    BY <1>5 DEF Connected, NewConnection
  <2>2. Has(requests', "LDS") <=> envoy.wantsLDS
    BY <1>5 DEF Connected, Subscriptions
  <2> QED BY <1>5, <2>1, <2>2 DEF Connected, WantedInv
<1>6. CASE Disconnect
  BY <1>6 DEF Disconnect, WantedInv
<1>7. ASSUME NEW r, Applies(r) PROVE WantedInv'
  <2>1. /\ Responds(r) /\ envoy'.wantsLDS = envoy.wantsLDS /\ stream' = stream /\ con' = con
        /\ stream # 0
    BY <1>7 DEF Applies, Responds, StreamInv
  <2>2. ASSUME ~envoy.wantsLDS
        PROVE  ~con[stream].LDSWatch /\ ~Has(requests', "LDS") /\ envoy'.routes = {}
    <3>1. ~con[stream].LDSWatch /\ ~Has(requests, "LDS") /\ envoy.routes = {}
      BY <2>1, <2>2 DEF WantedInv
    <3>2. r.type \in {"CDS", "EDS"}
      BY <2>1, <3>1, OnlyClusters
    <3>3. CASE AppliesCDS(r)
      <4>1. PICK q : /\ SendsRequest(requests, q, "CDS", {}, 1, None)
                     /\ \/ requests' = q
                        \/ SendsRequest(q, requests', "EDS", envoy'.clusters, envoy'.edsNonce, None)
        BY <3>3 DEF AppliesCDS
      <4>2. Has(q, "LDS") <=> Has(requests, "LDS")
        BY <4>1, SentListeners
      <4>3. Has(requests', "LDS") <=> Has(q, "LDS")
        BY <4>1, SentListeners
      <4> QED BY <3>1, <3>3, <4>2, <4>3 DEF AppliesCDS
    <3>4. CASE AppliesEDS(r)
      <4>1. SendsRequest(requests, requests', "EDS", envoy'.clusters, 1, None)
        BY <3>4 DEF AppliesEDS
      <4>2. Has(requests', "LDS") <=> Has(requests, "LDS")
        BY <4>1, SentListeners
      <4> QED BY <3>1, <3>4, <4>2 DEF AppliesEDS
    <3> QED BY <1>7, <3>2, <3>3, <3>4 DEF Applies, AppliesLDS, AppliesRDS
  <2> QED BY <2>1, <2>2 DEF WantedInv
<1>8. ASSUME NEW r, Rejects(r) PROVE WantedInv'
  <2>1. /\ Responds(r) /\ envoy'.wantsLDS = envoy.wantsLDS /\ stream' = stream /\ con' = con
        /\ stream # 0 /\ envoy'.routes = envoy.routes
    BY <1>8 DEF Rejects, Responds, StreamInv
  <2>2. ASSUME ~envoy.wantsLDS
        PROVE  ~con[stream].LDSWatch /\ ~Has(requests', "LDS") /\ envoy.routes = {}
    <3>1. ~con[stream].LDSWatch /\ ~Has(requests, "LDS") /\ envoy.routes = {}
      BY <2>1, <2>2 DEF WantedInv
    <3>2. r.type \in {"CDS", "EDS"}
      BY <2>1, <3>1, OnlyClusters
    <3>3. ~Has(requests', "LDS")
      BY <1>8, <3>1, <3>2 DEF Rejects, RequestSent
    <3> QED BY <3>1, <3>3
  <2> QED BY <2>1, <2>2 DEF WantedInv
<1>9. CASE Subscribes
  BY <1>9 DEF Subscribes, WantedInv
<1> QED
  BY <1>1, <1>2, <1>3, <1>4, <1>5, <1>6, <1>7, <1>8, <1>9 DEF Moves

(* The requests that count are those of before. *)
AsksKept(type, nonce, p, n) ==
    /\ Asks(n, type, nonce) <=> Asks(p, type, nonce)
    /\ \A i : LastAsk(n, type, nonce, i) => LastAsk(p, type, nonce, i) /\ n[i] = p[i]

(* A request of another type keeps them; one of the type is the last. *)
LEMMA SentAsks ==
    ASSUME NEW p, NEW n, NEW type, NEW names, NEW nonce, NEW known,
           SendsRequest(p, n, type, names, nonce, known)
    PROVE  /\ \A t, k : type # t => AsksKept(t, k, p, n)
           /\ type = "EDS" => \A k : /\ Asks(n, "EDS", k)
                                     /\ \A i : LastAsk(n, "EDS", k, i) => n[i].names = names
           /\ type = "RDS" => /\ Asks(n, "RDS", nonce)
                              /\ \A i : LastAsk(n, "RDS", nonce, i) =>
                                    n[i].names = names /\ n[i].version = known
<1>1. PICK m \in Request :
        /\ m.type = type /\ ~m.nack /\ m.names = names /\ m.nonce = nonce /\ m.version = known
        /\ RequestSent(p, m, n)
  BY DEF SendsRequest
<1>2. \A t, k : /\ Asks(n, t, k) <=> Asks(p, t, k) \/ Counts(m, t, k)
                /\ \A i : LastAsk(n, t, k, i) =>
                     \/ n[i] = m /\ Counts(m, t, k)
                     \/ ~Counts(m, t, k) /\ LastAsk(p, t, k, i) /\ n[i] = p[i]
  BY <1>1 DEF RequestSent
<1>3. \A t, k : type # t => AsksKept(t, k, p, n)
  BY <1>1, <1>2 DEF AsksKept, Counts
<1>4. ASSUME type = "EDS", NEW k
      PROVE  Asks(n, "EDS", k) /\ \A i : LastAsk(n, "EDS", k, i) => n[i].names = names
  <2>1. Counts(m, "EDS", k)
    BY <1>1, <1>4 DEF Counts
  <2> QED BY <1>1, <1>2, <2>1
<1>5. ASSUME type = "RDS"
      PROVE  /\ Asks(n, "RDS", nonce)
             /\ \A i : LastAsk(n, "RDS", nonce, i) =>
                   n[i].names = names /\ n[i].version = known
  <2>1. Counts(m, "RDS", nonce)
    BY <1>1, <1>5 DEF Counts
  <2> QED BY <1>1, <1>2, <2>1
<1> QED BY <1>3, <1>4, <1>5

(* A rejection keeps them. *)
LEMMA RejectAsks ==
    ASSUME NEW r, Rejects(r), NEW type, NEW nonce
    PROVE  AsksKept(type, nonce, requests, requests')
<1>1. PICK m \in Request : m.nack /\ RequestSent(requests, m, requests')
  BY DEF Rejects
<1>2. ~Counts(m, type, nonce)
  BY <1>1 DEF Counts
<1> QED BY <1>1, <1>2 DEF RequestSent, AsksKept

(* An application keeps those of types that it does not ask for. *)
LEMMA ApplyAsks ==
    ASSUME NEW r, Applies(r), NEW nonce
    PROVE  /\ r.type \in {"LDS", "RDS"} => AsksKept("EDS", 0, requests, requests')
           /\ r.type \in {"CDS", "EDS"} => AsksKept("RDS", nonce, requests, requests')
<1>1. CASE AppliesCDS(r)
  <2>1. PICK q : /\ SendsRequest(requests, q, "CDS", {}, 1, None)
                 /\ \/ requests' = q
                    \/ SendsRequest(q, requests', "EDS", envoy'.clusters, envoy'.edsNonce, None)
    BY <1>1 DEF AppliesCDS
  <2>2. AsksKept("RDS", nonce, requests, q)
    BY <2>1, SentAsks
  <2>3. requests' = q \/ AsksKept("RDS", nonce, q, requests')
    BY <2>1, SentAsks
  <2>4. AsksKept("RDS", nonce, requests, requests')
    BY <2>2, <2>3 DEF AsksKept
  <2> QED BY <1>1, <2>4 DEF AppliesCDS
<1>2. CASE AppliesEDS(r)
  <2>1. SendsRequest(requests, requests', "EDS", envoy'.clusters, 1, None)
    BY <1>2 DEF AppliesEDS
  <2> QED BY <1>2, <2>1, SentAsks DEF AppliesEDS
<1>3. CASE AppliesLDS(r)
  <2>1. PICK q : /\ SendsRequest(requests, q, "LDS", {}, 1, None)
                 /\ \/ requests' = q
                    \/ SendsRequest(q, requests', "RDS", envoy'.routes, envoy.rdsNonce,
                                    envoy.rdsVersion)
    BY <1>3 DEF AppliesLDS
  <2>2. AsksKept("EDS", 0, requests, q)
    BY <2>1, SentAsks
  <2>3. requests' = q \/ AsksKept("EDS", 0, q, requests')
    BY <2>1, SentAsks
  <2>4. AsksKept("EDS", 0, requests, requests')
    BY <2>2, <2>3 DEF AsksKept
  <2> QED BY <1>3, <2>4 DEF AppliesLDS
<1>4. CASE AppliesRDS(r)
  <2>1. SendsRequest(requests, requests', "RDS", envoy'.routes, r.nonce, r.version)
    BY <1>4 DEF AppliesRDS
  <2> QED BY <1>4, <2>1, SentAsks DEF AppliesRDS
<1> QED BY <1>1, <1>2, <1>3, <1>4 DEF Applies

(* The last request for endpoints says what Envoy wants. *)
LEMMA KeepsEndpointsAsked ==
    ASSUME Types3, StreamInv, EndpointsAsked, Moves
    PROVE  EndpointsAsked'
<1>1. ASSUME NEW s \in Streams, Handled(s) PROVE EndpointsAsked'
  <2>1. stream = s /\ s # 0 /\ stream' = s /\ envoy' = envoy
    BY <1>1, HandledFacts, StreamIn
  <2>2. RequestTaken(requests, requests')
    BY <1>1, ReplyFacts
  <2>3. /\ \A i : LastAsk(requests, "EDS", 0, i) => requests[i].names = envoy.clusters
        /\ ~Asks(requests, "EDS", 0) =>
              envoy.clusters = {} \/ con[s].Clusters = envoy.clusters
    BY <2>1 DEF EndpointsAsked
  <2>4. /\ Asks(requests, "EDS", 0) <=>
              Asks(requests', "EDS", 0) \/ Counts(Head(requests), "EDS", 0)
        /\ \A i : LastAsk(requests', "EDS", 0, i) =>
              LastAsk(requests, "EDS", 0, i + 1) /\ requests'[i] = requests[i + 1]
        /\ Counts(Head(requests), "EDS", 0) /\ ~Asks(requests', "EDS", 0) =>
              LastAsk(requests, "EDS", 0, 1)
        /\ Head(requests) = requests[1]
    BY <2>2 DEF RequestTaken
  <2>5. \A i : LastAsk(requests', "EDS", 0, i) => requests'[i].names = envoy.clusters
    BY <2>3, <2>4
  <2>6. ASSUME ~Asks(requests', "EDS", 0)
        PROVE  envoy.clusters = {} \/ con'[s].Clusters = envoy.clusters
    <3>1. CASE EndpointsRequested(s)
      <4>1. Counts(Head(requests), "EDS", 0)
        BY <3>1 DEF EndpointsRequested, TakesRequest, EndpointIgnored, Counts
      <4>2. Head(requests).names = envoy.clusters
        BY <2>3, <2>4, <2>6, <4>1
      <4> QED BY <3>1, <4>2 DEF EndpointsRequested, Handles
    <3>2. CASE ~EndpointsRequested(s)
      <4>1. con'[s].Clusters = con[s].Clusters
        BY <1>1, <3>2 DEF Handled, RequestIgnored, ClustersRequested, ListenersRequested,
                          RoutesRequested, Handles
      <4>2. CASE Counts(Head(requests), "EDS", 0)
        <5>1. Head(requests).names = envoy.clusters
          BY <2>3, <2>4, <2>6, <4>2
        <5>2. RequestIgnored(s) /\ Head(requests).type = "EDS" /\ ~Head(requests).nack
          BY <1>1, <3>2, <4>2 DEF Handled, ClustersRequested, ListenersRequested,
                                  RoutesRequested, TakesRequest, Counts
        <5>3. EndpointIgnored(con[s], Head(requests))
          BY <5>2 DEF RequestIgnored, TakesRequest
        <5> QED BY <4>1, <5>1, <5>2, <5>3 DEF EndpointIgnored
      <4>3. CASE ~Counts(Head(requests), "EDS", 0)
        BY <2>3, <2>4, <2>6, <4>1, <4>3
      <4> QED BY <4>2, <4>3
    <3> QED BY <3>1, <3>2
  <2> QED BY <2>1, <2>5, <2>6 DEF EndpointsAsked
<1>2. ASSUME NEW s \in Streams, PushHandled(s) PROVE EndpointsAsked'
  <2>1. /\ stream = s /\ stream' = s /\ s # 0 /\ envoy' = envoy /\ requests' = requests
        /\ con'[s].Clusters = con[s].Clusters
    BY <1>2, StreamIn DEF PushHandled, Handles
  <2> QED BY <2>1 DEF EndpointsAsked
<1>3. ASSUME NEW s \in Streams, Returned(s) PROVE EndpointsAsked'
  <2>1. stream # 0 => con'[stream] = con[stream]
    BY <1>3, StreamIn DEF Returned
  <2> QED BY <1>3, <2>1 DEF Returned, EndpointsAsked
<1>4. CASE Advanced
  BY <1>4, StreamIn DEF Advanced, EndpointsAsked
<1>5. CASE Connected
  BY <1>5 DEF Connected, Subscriptions, EndpointsAsked
<1>6. CASE Disconnect
  BY <1>6 DEF Disconnect, EndpointsAsked
<1>7. ASSUME NEW r, Applies(r) PROVE EndpointsAsked'
  <2>1. Responds(r) /\ stream # 0 /\ stream' = stream /\ con' = con
    BY <1>7 DEF Applies, Responds, StreamInv
  <2>2. CASE AppliesCDS(r)
    <3>1. PICK q : /\ SendsRequest(requests, q, "CDS", {}, 1, None)
                   /\ \/ envoy'.clusters = envoy.clusters /\ requests' = q
                      \/ SendsRequest(q, requests', "EDS", envoy'.clusters, envoy'.edsNonce, None)
      BY <2>2 DEF AppliesCDS
    <3>2. AsksKept("EDS", 0, requests, q)
      BY <3>1, SentAsks
    <3>3. CASE envoy'.clusters = envoy.clusters /\ requests' = q
      BY <2>1, <3>2, <3>3 DEF EndpointsAsked, AsksKept
    <3>4. CASE SendsRequest(q, requests', "EDS", envoy'.clusters, envoy'.edsNonce, None)
      <4>1. /\ Asks(requests', "EDS", 0)
            /\ \A i : LastAsk(requests', "EDS", 0, i) => requests'[i].names = envoy'.clusters
        BY <3>4, SentAsks
      <4> QED BY <4>1 DEF EndpointsAsked
    <3> QED BY <3>1, <3>3, <3>4
  <2>3. CASE AppliesEDS(r)
    <3>1. SendsRequest(requests, requests', "EDS", envoy'.clusters, 1, None)
      BY <2>3 DEF AppliesEDS
    <3>2. /\ Asks(requests', "EDS", 0)
          /\ \A i : LastAsk(requests', "EDS", 0, i) => requests'[i].names = envoy'.clusters
      BY <3>1, SentAsks
    <3> QED BY <3>2 DEF EndpointsAsked
  <2>4. CASE AppliesLDS(r) \/ AppliesRDS(r)
    <3>1. r.type \in {"LDS", "RDS"} /\ envoy'.clusters = envoy.clusters
      BY <2>4 DEF AppliesLDS, AppliesRDS
    <3>2. AsksKept("EDS", 0, requests, requests')
      BY <1>7, <3>1, ApplyAsks
    <3> QED BY <2>1, <3>1, <3>2 DEF EndpointsAsked, AsksKept
  <2> QED BY <1>7, <2>2, <2>3, <2>4 DEF Applies
<1>8. ASSUME NEW r, Rejects(r) PROVE EndpointsAsked'
  <2>1. stream # 0 /\ stream' = stream /\ con' = con /\ envoy'.clusters = envoy.clusters
    BY <1>8 DEF Rejects, Responds, StreamInv
  <2>2. AsksKept("EDS", 0, requests, requests')
    BY <1>8, RejectAsks
  <2> QED BY <2>1, <2>2 DEF EndpointsAsked, AsksKept
<1>9. CASE Subscribes
  <2>1. AsksKept("EDS", 0, requests, requests')
    BY <1>9, SentAsks DEF Subscribes
  <2> QED BY <1>9, <2>1 DEF Subscribes, EndpointsAsked, AsksKept
<1> QED
  BY <1>1, <1>2, <1>3, <1>4, <1>5, <1>6, <1>7, <1>8, <1>9 DEF Moves

(* The same for routes, when the last response is not on its way. *)
LEMMA KeepsRoutesAsked ==
    ASSUME Types3, StreamInv, RoutesAsked, RoutesSent, Moves
    PROVE  RoutesAsked'
<1>1. ASSUME NEW s \in Streams, Handled(s) PROVE RoutesAsked'
  <2>1. stream = s /\ s # 0 /\ stream' = s /\ envoy' = envoy
    BY <1>1, HandledFacts, StreamIn
  <2>2. RequestTaken(requests, requests')
    BY <1>1, ReplyFacts
  <2>n. PICK n : n = con[s].RouteNonceSent
    OBVIOUS
  <2> SUFFICES ASSUME Settled("RDS")'
               PROVE  /\ envoy'.rdsNonce = con'[s].RouteNonceSent
                      /\ \/ con'[s].RouteNonceSent = 0
                         \/ envoy'.rdsVersion = con'[s].RouteVersionInfoSent
                      /\ \A i : LastAsk(requests', "RDS", con'[s].RouteNonceSent, i) =>
                            /\ requests'[i].names = envoy'.routes
                            /\ \/ con'[s].RouteNonceSent = 0
                               \/ requests'[i].version = con'[s].RouteVersionInfoSent
                      /\ ~Asks(requests', "RDS", con'[s].RouteNonceSent) =>
                            con'[s].Routes = envoy'.routes
    BY <2>1 DEF RoutesAsked
  <2>3. ~RoutesRequested(s)
    BY <1>1, ReplyFacts DEF Replies, ResponseSent, Settled
  <2>4. Settled("RDS")
    <3>1. Has(responses, "RDS") => Has(responses', "RDS")
      BY <1>1, ReplyFacts DEF Handled, Replies, ResponseSent, RequestIgnored
    <3> QED BY <2>1, <3>1 DEF Settled
  <2>5. /\ con'[s].RouteNonceSent = n /\ con'[s].Routes = con[s].Routes
        /\ con'[s].RouteVersionInfoSent = con[s].RouteVersionInfoSent
    BY <1>1, <2>3, <2>n DEF Handled, RequestIgnored, ClustersRequested, ListenersRequested,
                            EndpointsRequested, Handles
  <2>6. /\ envoy.rdsNonce = n
        /\ n = 0 \/ envoy.rdsVersion = con[s].RouteVersionInfoSent
        /\ \A i : LastAsk(requests, "RDS", n, i) =>
              /\ requests[i].names = envoy.routes
              /\ n = 0 \/ requests[i].version = con[s].RouteVersionInfoSent
        /\ ~Asks(requests, "RDS", n) => con[s].Routes = envoy.routes
    BY <2>1, <2>4, <2>n DEF RoutesAsked
  <2>7. /\ Asks(requests, "RDS", n) <=>
              Asks(requests', "RDS", n) \/ Counts(Head(requests), "RDS", n)
        /\ \A i : LastAsk(requests', "RDS", n, i) =>
              LastAsk(requests, "RDS", n, i + 1) /\ requests'[i] = requests[i + 1]
        /\ Counts(Head(requests), "RDS", n) /\ ~Asks(requests', "RDS", n) =>
              LastAsk(requests, "RDS", n, 1)
        /\ Head(requests) = requests[1]
    BY <2>2 DEF RequestTaken
  <2>8. \A i : LastAsk(requests', "RDS", n, i) =>
              /\ requests'[i].names = envoy.routes
              /\ n = 0 \/ requests'[i].version = con[s].RouteVersionInfoSent
    BY <2>6, <2>7
  <2>9. ASSUME ~Asks(requests', "RDS", n) PROVE con[s].Routes = envoy.routes
    <3>1. CASE Counts(Head(requests), "RDS", n)
      <4>1. /\ Head(requests).names = envoy.routes
            /\ n = 0 \/ Head(requests).version = con[s].RouteVersionInfoSent
        BY <2>6, <2>7, <2>9, <3>1
      <4>2. Head(requests).type = "RDS" /\ ~Head(requests).nack /\ Head(requests).nonce = n
        BY <3>1 DEF Counts
      <4>3. RouteIgnored(con[s], Head(requests))
        BY <1>1, <2>3, <4>2 DEF Handled, RequestIgnored, ClustersRequested,
                                ListenersRequested, EndpointsRequested, TakesRequest
      <4> QED BY <2>n, <4>1, <4>2, <4>3 DEF RouteIgnored
    <3>2. CASE ~Counts(Head(requests), "RDS", n)
      BY <2>6, <2>7, <2>9, <3>2
    <3> QED BY <3>1, <3>2
  <2> QED BY <2>1, <2>5, <2>6, <2>8, <2>9
<1>2. ASSUME NEW s \in Streams, PushHandled(s) PROVE RoutesAsked'
  <2>1. /\ stream = s /\ stream' = s /\ s # 0 /\ envoy' = envoy /\ requests' = requests
    BY <1>2, StreamIn DEF PushHandled, Handles
  <2>2. Has(responses', "RDS") <=> Has(responses, "RDS") \/ con[s].Routes # {}
    BY <1>2 DEF PushHandled, PushSends, SentLast
  <2>3. CASE con[s].Routes = {}
    <3>1. /\ con'[s].Routes = con[s].Routes /\ con'[s].RouteNonceSent = con[s].RouteNonceSent
          /\ con'[s].RouteVersionInfoSent = con[s].RouteVersionInfoSent
      BY <1>2, <2>3 DEF PushHandled, Handles
    <3> QED BY <2>1, <2>2, <2>3, <3>1 DEF RoutesAsked, Settled
  <2>4. CASE con[s].Routes # {}
    BY <2>2, <2>4 DEF RoutesAsked, Settled
  <2> QED BY <2>3, <2>4
<1>3. ASSUME NEW s \in Streams, Returned(s) PROVE RoutesAsked'
  <2>1. stream # 0 => con'[stream] = con[stream]
    BY <1>3, StreamIn DEF Returned
  <2> QED BY <1>3, <2>1 DEF Returned, RoutesAsked, Settled
<1>4. CASE Advanced
  BY <1>4, StreamIn DEF Advanced, RoutesAsked, Settled
<1>5. CASE Connected
  <2>1. con'[stream'].Routes = {} /\ con'[stream'].RouteNonceSent = 0
    BY <1>5 DEF Connected, NewConnection
  <2>2. /\ \A i : LastAsk(requests', "RDS", 0, i) => requests'[i].names = envoy'.routes
        /\ Asks(requests', "RDS", 0) \/ envoy'.routes = {}
        /\ envoy'.rdsNonce = 0
    BY <1>5 DEF Connected, Subscriptions
  <2> QED BY <2>1, <2>2 DEF RoutesAsked
<1>6. CASE Disconnect
  BY <1>6 DEF Disconnect, RoutesAsked, Settled
<1>7. ASSUME NEW r, Applies(r) PROVE RoutesAsked'
  <2>1. Responds(r) /\ stream # 0 /\ stream' = stream /\ con' = con
    BY <1>7 DEF Applies, Responds, StreamInv
  <2>n. PICK n, v : n = con[stream].RouteNonceSent /\ v = con[stream].RouteVersionInfoSent
    OBVIOUS
  <2>2. ASSUME r.type # "RDS", Settled("RDS")'
        PROVE  /\ envoy.rdsNonce = n /\ (n = 0 \/ envoy.rdsVersion = v)
               /\ \A i : LastAsk(requests, "RDS", n, i) =>
                     /\ requests[i].names = envoy.routes
                     /\ n = 0 \/ requests[i].version = v
               /\ ~Asks(requests, "RDS", n) => con[stream].Routes = envoy.routes
    <3>1. Settled("RDS")
      BY <1>7, <2>1, <2>2 DEF Settled, Applies, Responds, ResponseTaken
    <3> QED BY <2>n, <3>1 DEF RoutesAsked
  <2>3. CASE AppliesCDS(r) \/ AppliesEDS(r)
    <3>1. /\ r.type \in {"CDS", "EDS"} /\ envoy'.routes = envoy.routes
          /\ envoy'.rdsNonce = envoy.rdsNonce /\ envoy'.rdsVersion = envoy.rdsVersion
      BY <2>3 DEF AppliesCDS, AppliesEDS
    <3>2. AsksKept("RDS", n, requests, requests')
      BY <1>7, <3>1, ApplyAsks
    <3> QED BY <2>1, <2>n, <2>2, <3>1, <3>2 DEF RoutesAsked, AsksKept
  <2>4. CASE AppliesLDS(r)
    <3>0. /\ r.type = "LDS" /\ envoy'.rdsNonce = envoy.rdsNonce
          /\ envoy'.rdsVersion = envoy.rdsVersion
      BY <2>4 DEF AppliesLDS
    <3>1. PICK q : /\ SendsRequest(requests, q, "LDS", {}, 1, None)
                   /\ \/ envoy'.routes = envoy.routes /\ requests' = q
                      \/ SendsRequest(q, requests', "RDS", envoy'.routes, envoy.rdsNonce,
                                      envoy.rdsVersion)
      BY <2>4 DEF AppliesLDS
    <3>2. AsksKept("RDS", n, requests, q)
      BY <3>1, SentAsks
    <3>3. CASE envoy'.routes = envoy.routes /\ requests' = q
      BY <2>1, <2>n, <2>2, <3>0, <3>2, <3>3 DEF RoutesAsked, AsksKept
    <3>4. CASE SendsRequest(q, requests', "RDS", envoy'.routes, envoy.rdsNonce,
                            envoy.rdsVersion)
      <4>1. /\ Asks(requests', "RDS", envoy.rdsNonce)
            /\ \A i : LastAsk(requests', "RDS", envoy.rdsNonce, i) =>
                  requests'[i].names = envoy'.routes /\ requests'[i].version = envoy.rdsVersion
        BY <3>4, SentAsks
      <4> QED BY <2>1, <2>n, <2>2, <3>0, <4>1 DEF RoutesAsked
    <3> QED BY <3>1, <3>3, <3>4
  <2>5. CASE AppliesRDS(r)
    <3> SUFFICES ASSUME Settled("RDS")' PROVE RoutesAsked'
      BY DEF RoutesAsked
    <3>1. /\ r.type = "RDS" /\ envoy'.rdsNonce = r.nonce /\ envoy'.rdsVersion = r.version
          /\ SendsRequest(requests, requests', "RDS", envoy'.routes, r.nonce, r.version)
      BY <2>5 DEF AppliesRDS
    <3>2. Last(responses, "RDS", 1) /\ r = responses[1]
      BY <2>1, <3>1 DEF Settled, Responds, ResponseTaken
    <3>3. r.nonce = n /\ r.version = v
      BY <2>1, <2>n, <3>2 DEF RoutesSent
    <3>4. /\ Asks(requests', "RDS", n)
          /\ \A i : LastAsk(requests', "RDS", n, i) =>
                requests'[i].names = envoy'.routes /\ requests'[i].version = v
      BY <3>1, <3>3, SentAsks
    <3> QED BY <2>1, <2>n, <3>1, <3>3, <3>4 DEF RoutesAsked
  <2> QED BY <1>7, <2>3, <2>4, <2>5 DEF Applies
<1>8. ASSUME NEW r, Rejects(r) PROVE RoutesAsked'
  <2>1. /\ stream # 0 /\ stream' = stream /\ con' = con /\ envoy'.routes = envoy.routes
        /\ envoy'.rdsVersion = envoy.rdsVersion
        /\ r.type # "RDS" => envoy'.rdsNonce = envoy.rdsNonce
    BY <1>8 DEF Rejects, Responds, StreamInv
  <2>2. AsksKept("RDS", con[stream].RouteNonceSent, requests, requests')
    BY <1>8, RejectAsks
  <2>3. Settled("RDS")' => Settled("RDS") /\ r.type # "RDS"
    BY <1>8, <2>1 DEF Settled, Rejects, Responds, ResponseTaken
  <2> QED BY <2>1, <2>2, <2>3 DEF RoutesAsked, AsksKept
<1>9. CASE Subscribes
  <2>1. AsksKept("RDS", con[stream].RouteNonceSent, requests, requests')
    BY <1>9, SentAsks DEF Subscribes
  <2> QED BY <1>9, <2>1 DEF Subscribes, RoutesAsked, AsksKept, Settled
<1> QED
  BY <1>1, <1>2, <1>3, <1>4, <1>5, <1>6, <1>7, <1>8, <1>9 DEF Moves

(* A reply is made from the connection's scope; other responses stay. *)
LEMMA ReplyLast ==
    ASSUME Types3, NEW s \in Streams, Handled(s)
    PROVE  /\ stream = s /\ s # 0 /\ UNCHANGED <<stream, version, envoy>>
           /\ con'[s].scope = con[s].scope
           /\ \A type : Has(responses, type) => Has(responses', type)
           /\ \A type, i : Last(responses', type, i) =>
                 \/ responses'[i].context = con[s].scope
                 \/ Last(responses, type, i) /\ responses'[i] = responses[i]
           /\ ~EndpointsRequested(s) =>
                 /\ con'[s].Clusters = con[s].Clusters
                 /\ \A i : Last(responses', "EDS", i) =>
                       Last(responses, "EDS", i) /\ responses'[i] = responses[i]
           /\ ~RoutesRequested(s) =>
                 /\ con'[s].Routes = con[s].Routes
                 /\ con'[s].RouteNonceSent = con[s].RouteNonceSent
                 /\ con'[s].RouteVersionInfoSent = con[s].RouteVersionInfoSent
                 /\ \A i : Last(responses', "RDS", i) =>
                       Last(responses, "RDS", i) /\ responses'[i] = responses[i]
<1>1. stream = s /\ s # 0 /\ UNCHANGED <<stream, version, envoy>>
  BY HandledFacts, StreamIn
<1>2. con'[s].scope = con[s].scope
  BY DEF Handled, RequestIgnored, ClustersRequested, ListenersRequested,
         RoutesRequested, EndpointsRequested, Handles
<1>3. /\ ~EndpointsRequested(s) => con'[s].Clusters = con[s].Clusters
      /\ ~RoutesRequested(s) =>
            /\ con'[s].Routes = con[s].Routes
            /\ con'[s].RouteNonceSent = con[s].RouteNonceSent
            /\ con'[s].RouteVersionInfoSent = con[s].RouteVersionInfoSent
  BY DEF Handled, RequestIgnored, ClustersRequested, ListenersRequested,
         RoutesRequested, EndpointsRequested, Handles
<1>4. ASSUME NEW type, NEW names, NEW nonce, Replies(type, names, nonce)
      PROVE  /\ \A t : Has(responses, t) => Has(responses', t)
             /\ \A t, i : Last(responses', t, i) =>
                   \/ responses'[i].context = con[s].scope /\ t = type
                   \/ Last(responses, t, i) /\ responses'[i] = responses[i]
  BY <1>1, <1>4 DEF Replies, ResponseSent
<1>5. CASE RequestIgnored(s)
  <2>1. responses' = responses
    BY <1>5 DEF RequestIgnored
  <2> QED BY <1>1, <1>2, <1>3, <2>1
<1>6. CASE ClustersRequested(s)
  <2>1. Replies("CDS", {}, 1)
    BY <1>6, ReplyFacts
  <2> QED BY <1>1, <1>2, <1>3, <1>4, <2>1
<1>7. CASE ListenersRequested(s)
  <2>1. Replies("LDS", {}, 1)
    BY <1>7, ReplyFacts
  <2> QED BY <1>1, <1>2, <1>3, <1>4, <2>1
<1>8. CASE RoutesRequested(s)
  <2>1. Replies("RDS", Head(requests).names, con[s].RouteNonceSent + 1)
    BY <1>8, ReplyFacts
  <2> QED BY <1>1, <1>2, <1>3, <1>4, <1>8, <2>1
<1>9. CASE EndpointsRequested(s)
  <2>1. Replies("EDS", Head(requests).names, 1)
    BY <1>9, ReplyFacts
  <2> QED BY <1>1, <1>2, <1>3, <1>4, <1>9, <2>1
<1> QED BY <1>5, <1>6, <1>7, <1>8, <1>9 DEF Handled

(* What is under way was sent by a handler that is in its select. *)
LEMMA Selecting ==
    ASSUME FirstInv, stream # 0
    PROVE  /\ \A type, i : Last(responses, type, i) => con[stream].handler = "select"
           /\ con[stream].Clusters # {} \/ con[stream].Routes # {} => con[stream].handler = "select"
           /\ con[stream].CDSWatch \/ con[stream].LDSWatch => con[stream].handler = "select"
<1>1. \A type, i : Last(responses, type, i) => responses # <<>>
  BY DEF Last
<1> QED BY <1>1 DEF FirstInv

(* Other steps leave Envoy, its responses and, after the first answer, the *)
(* scope alone.                                                            *)
LEMMA AfterChange ==
    ASSUME Types3, Advanced, stream # 0
    PROVE  /\ stream' = stream /\ responses' = responses /\ envoy' = envoy
           /\ con[stream].handler = "select" => con'[stream].scope = con[stream].scope
           /\ con'[stream].CDSWatch = con[stream].CDSWatch
           /\ con'[stream].LDSWatch = con[stream].LDSWatch
           /\ con'[stream].Clusters = con[stream].Clusters
           /\ con'[stream].Routes = con[stream].Routes
           /\ con'[stream].RouteNonceSent = con[stream].RouteNonceSent
           /\ con'[stream].RouteVersionInfoSent = con[stream].RouteVersionInfoSent
BY StreamIn DEF Advanced

(* Clusters and listeners under way. *)
LEMMA KeepsResponsesFresh ==
    ASSUME Types3, StreamInv, FirstInv, ListenersInv, ResponsesFresh, Moves
    PROVE  ResponsesFresh'
<1>1. ASSUME NEW s \in Streams, Handled(s) PROVE ResponsesFresh'
  <2>1. /\ stream = s /\ s # 0 /\ stream' = stream /\ version' = version
        /\ con'[s].scope = con[s].scope
        /\ \A type, i : Last(responses', type, i) =>
              \/ responses'[i].context = con[s].scope
              \/ Last(responses, type, i) /\ responses'[i] = responses[i]
    BY <1>1, ReplyLast
  <2> QED BY <2>1 DEF ResponsesFresh, Fresh
<1>2. ASSUME NEW s \in Streams, PushHandled(s) PROVE ResponsesFresh'
  <2>1. stream = s /\ s # 0 /\ stream' = s /\ version' = version
    BY <1>2, HandledFacts, StreamIn
  <2>0. con'[s].scope = due[s]
    BY <1>2 DEF PushHandled, Handles
  <2>2. /\ SentLast(due[s], con[s].CDSWatch, "CDS", {}, 1, responses, responses')
        /\ SentLast(due[s], con[s].LDSWatch, "LDS", {}, 1, responses, responses')
    BY <1>2 DEF PushHandled, PushSends
  <2>3. con[s].CDSWatch
    BY <1>2, <2>1 DEF FirstInv, PushHandled
  <2>4. con[s].LDSWatch \/ \A i : ~Last(responses, "LDS", i)
    BY <2>1 DEF ListenersInv, Has, Last
  <2>5. \A names, nonce, type : Made(due[s], type, names, nonce).context = due[s]
    BY DEF Made
  <2>6. \A i : Last(responses', "CDS", i) => responses'[i].context = due[s]
    BY <2>2, <2>3, <2>5 DEF SentLast
  <2>7. \A i : Last(responses', "LDS", i) => responses'[i].context = due[s]
    BY <2>2, <2>4, <2>5 DEF SentLast
  <2> QED BY <2>0, <2>1, <2>6, <2>7 DEF ResponsesFresh, Fresh
<1>3. ASSUME NEW s \in Streams, Returned(s) PROVE ResponsesFresh'
  <2>1. stream # 0 => con'[stream] = con[stream]
    BY <1>3, StreamIn DEF Returned
  <2> QED BY <1>3, <2>1 DEF Returned, ResponsesFresh, Fresh
<1>4. CASE Advanced
  <2>1. stream' = stream
    BY <1>4 DEF Advanced
  <2> QED BY <1>4, <2>1, AfterChange, Selecting DEF ResponsesFresh, Fresh
<1>5. CASE Connected
  BY <1>5 DEF Connected, StreamInv, ResponsesFresh, Last
<1>6. CASE Disconnect
  BY <1>6 DEF Disconnect, ResponsesFresh
<1>7. ASSUME NEW r, Responds(r) PROVE ResponsesFresh'
  <2>1. \A type, i : Last(responses', type, i) =>
           Last(responses, type, i + 1) /\ responses'[i] = responses[i + 1]
    BY <1>7 DEF Responds, ResponseTaken
  <2> QED BY <1>7, <2>1 DEF Responds, ResponsesFresh, Fresh
<1>8. CASE Subscribes
  BY <1>8 DEF Subscribes, ResponsesFresh, Fresh
<1> QED
  BY <1>1, <1>2, <1>3, <1>4, <1>5, <1>6, <1>7, <1>8 DEF Moves, Applies, Rejects

(* Endpoints under way. *)
LEMMA KeepsEndpointsSent ==
    ASSUME Types3, StreamInv, FirstInv, EndpointsSent, Moves
    PROVE  EndpointsSent'
<1>1. ASSUME NEW s \in Streams, Handled(s) PROVE EndpointsSent'
  <2>1. /\ stream = s /\ s # 0 /\ stream' = stream /\ version' = version
        /\ con'[s].scope = con[s].scope
        /\ ~EndpointsRequested(s) =>
              /\ con'[s].Clusters = con[s].Clusters
              /\ \A i : Last(responses', "EDS", i) =>
                    Last(responses, "EDS", i) /\ responses'[i] = responses[i]
    BY <1>1, ReplyLast
  <2>2. CASE ~EndpointsRequested(s)
    BY <2>1, <2>2 DEF EndpointsSent, Fresh
  <2>3. CASE EndpointsRequested(s)
    <3>1. Replies("EDS", Head(requests).names, 1)
      BY <1>1, <2>3, ReplyFacts
    <3>2. \A i : Last(responses', "EDS", i) =>
             /\ responses'[i].names = Head(requests).names
             /\ responses'[i].context = con[s].scope
      BY <2>1, <3>1 DEF Replies, ResponseSent
    <3>3. con'[s].Clusters = Head(requests).names
      BY <2>3 DEF EndpointsRequested, Handles
    <3> QED BY <2>1, <3>2, <3>3 DEF EndpointsSent, Fresh
  <2> QED BY <2>2, <2>3
<1>2. ASSUME NEW s \in Streams, PushHandled(s) PROVE EndpointsSent'
  <2>1. stream = s /\ s # 0 /\ stream' = s /\ version' = version
    BY <1>2, HandledFacts, StreamIn
  <2>0. con'[s].scope = due[s]
    BY <1>2 DEF PushHandled, Handles
  <2>2. /\ SentLast(due[s], con[s].Clusters # {}, "EDS", con[s].Clusters, 1, responses, responses')
        /\ con'[s].Clusters = con[s].Clusters
    BY <1>2 DEF PushHandled, PushSends, Handles
  <2>3. CASE con[s].Clusters # {}
    <3>1. \A i : Last(responses', "EDS", i) =>
             responses'[i] = Made(due[s], "EDS", con[s].Clusters, 1)
      BY <2>2, <2>3 DEF SentLast
    <3>2. \A i : Last(responses', "EDS", i) =>
             responses'[i].names = con[s].Clusters /\ responses'[i].context = due[s]
      BY <3>1 DEF Made
    <3> QED BY <2>0, <2>1, <2>2, <3>2 DEF EndpointsSent, Fresh
  <2>4. CASE con[s].Clusters = {}
    <3>1. \A i : Last(responses', "EDS", i) =>
             Last(responses, "EDS", i) /\ responses'[i] = responses[i]
      BY <2>2, <2>4 DEF SentLast
    <3> QED BY <2>1, <2>2, <2>4, <3>1 DEF EndpointsSent
  <2> QED BY <2>3, <2>4
<1>3. ASSUME NEW s \in Streams, Returned(s) PROVE EndpointsSent'
  <2>1. stream # 0 => con'[stream] = con[stream]
    BY <1>3, StreamIn DEF Returned
  <2> QED BY <1>3, <2>1 DEF Returned, EndpointsSent, Fresh
<1>4. CASE Advanced
  <2>1. stream' = stream
    BY <1>4 DEF Advanced
  <2> QED BY <1>4, <2>1, AfterChange, Selecting DEF EndpointsSent, Fresh
<1>5. CASE Connected
  BY <1>5 DEF Connected, StreamInv, EndpointsSent, Last
<1>6. CASE Disconnect
  BY <1>6 DEF Disconnect, EndpointsSent
<1>7. ASSUME NEW r, Responds(r) PROVE EndpointsSent'
  <2>1. \A type, i : Last(responses', type, i) =>
           Last(responses, type, i + 1) /\ responses'[i] = responses[i + 1]
    BY <1>7 DEF Responds, ResponseTaken
  <2> QED BY <1>7, <2>1 DEF Responds, EndpointsSent, Fresh
<1>8. CASE Subscribes
  BY <1>8 DEF Subscribes, EndpointsSent, Fresh
<1> QED
  BY <1>1, <1>2, <1>3, <1>4, <1>5, <1>6, <1>7, <1>8 DEF Moves, Applies, Rejects

(* Routes under way. *)
LEMMA KeepsRoutesSent ==
    ASSUME Types3, StreamInv, FirstInv, RoutesSent, Moves
    PROVE  RoutesSent'
<1>1. ASSUME NEW s \in Streams, Handled(s) PROVE RoutesSent'
  <2>1. /\ stream = s /\ s # 0 /\ stream' = stream /\ version' = version
        /\ con'[s].scope = con[s].scope
        /\ ~RoutesRequested(s) =>
              /\ con'[s].Routes = con[s].Routes
              /\ con'[s].RouteNonceSent = con[s].RouteNonceSent
              /\ con'[s].RouteVersionInfoSent = con[s].RouteVersionInfoSent
              /\ \A i : Last(responses', "RDS", i) =>
                    Last(responses, "RDS", i) /\ responses'[i] = responses[i]
    BY <1>1, ReplyLast
  <2>2. CASE ~RoutesRequested(s)
    BY <2>1, <2>2 DEF RoutesSent, Fresh
  <2>3. CASE RoutesRequested(s)
    <3>1. Replies("RDS", Head(requests).names, con[s].RouteNonceSent + 1)
      BY <1>1, <2>3, ReplyFacts
    <3>2. \A i : Last(responses', "RDS", i) =>
             /\ responses'[i].names = Head(requests).names /\ responses'[i].version = version
             /\ responses'[i].nonce = con[s].RouteNonceSent + 1
             /\ responses'[i].context = con[s].scope
      BY <2>1, <3>1 DEF Replies, ResponseSent
    <3>3. /\ con'[s].Routes = Head(requests).names
          /\ con'[s].RouteNonceSent = con[s].RouteNonceSent + 1
          /\ con'[s].RouteVersionInfoSent = version
      BY <2>3 DEF RoutesRequested, Handles
    <3> QED BY <2>1, <3>2, <3>3 DEF RoutesSent, Fresh
  <2> QED BY <2>2, <2>3
<1>2. ASSUME NEW s \in Streams, PushHandled(s) PROVE RoutesSent'
  <2>1. stream = s /\ s # 0 /\ stream' = s /\ version' = version
    BY <1>2, HandledFacts, StreamIn
  <2>0. con'[s].scope = due[s]
    BY <1>2 DEF PushHandled, Handles
  <2>2. /\ SentLast(due[s], con[s].Routes # {}, "RDS", con[s].Routes, con[s].RouteNonceSent + 1,
                    responses, responses')
        /\ con'[s].Routes = con[s].Routes
    BY <1>2 DEF PushHandled, PushSends, Handles
  <2>3. CASE con[s].Routes # {}
    <3>1. \A i : Last(responses', "RDS", i) =>
             responses'[i] = Made(due[s], "RDS", con[s].Routes, con[s].RouteNonceSent + 1)
      BY <2>2, <2>3 DEF SentLast
    <3>2. \A i : Last(responses', "RDS", i) =>
             /\ responses'[i].names = con[s].Routes /\ responses'[i].version = version
             /\ responses'[i].nonce = con[s].RouteNonceSent + 1
             /\ responses'[i].context = due[s]
      BY <3>1 DEF Made
    <3>3. /\ con'[s].RouteNonceSent = con[s].RouteNonceSent + 1
          /\ con'[s].RouteVersionInfoSent = version
      BY <1>2, <2>3 DEF PushHandled, Handles
    <3> QED BY <2>0, <2>1, <2>2, <3>2, <3>3 DEF RoutesSent, Fresh
  <2>4. CASE con[s].Routes = {}
    <3>1. \A i : Last(responses', "RDS", i) =>
             Last(responses, "RDS", i) /\ responses'[i] = responses[i]
      BY <2>2, <2>4 DEF SentLast
    <3>2. /\ con'[s].RouteNonceSent = con[s].RouteNonceSent
          /\ con'[s].RouteVersionInfoSent = con[s].RouteVersionInfoSent
      BY <1>2, <2>4 DEF PushHandled, Handles
    <3> QED BY <2>1, <2>2, <2>4, <3>1, <3>2 DEF RoutesSent
  <2> QED BY <2>3, <2>4
<1>3. ASSUME NEW s \in Streams, Returned(s) PROVE RoutesSent'
  <2>1. stream # 0 => con'[stream] = con[stream]
    BY <1>3, StreamIn DEF Returned
  <2> QED BY <1>3, <2>1 DEF Returned, RoutesSent, Fresh
<1>4. CASE Advanced
  <2>1. stream' = stream
    BY <1>4 DEF Advanced
  <2> QED BY <1>4, <2>1, AfterChange, Selecting DEF RoutesSent, Fresh
<1>5. CASE Connected
  BY <1>5 DEF Connected, StreamInv, RoutesSent, Last
<1>6. CASE Disconnect
  BY <1>6 DEF Disconnect, RoutesSent
<1>7. ASSUME NEW r, Responds(r) PROVE RoutesSent'
  <2>1. \A type, i : Last(responses', type, i) =>
           Last(responses, type, i + 1) /\ responses'[i] = responses[i + 1]
    BY <1>7 DEF Responds, ResponseTaken
  <2> QED BY <1>7, <2>1 DEF Responds, RoutesSent, Fresh
<1>8. CASE Subscribes
  BY <1>8 DEF Subscribes, RoutesSent, Fresh
<1> QED
  BY <1>1, <1>2, <1>3, <1>4, <1>5, <1>6, <1>7, <1>8 DEF Moves, Applies, Rejects

(* Clusters are followed by endpoints, listeners by routes. *)
LEMMA KeepsWarmInv ==
    ASSUME Types3, StreamInv, FirstInv, ListenersInv, WarmInv, Moves
    PROVE  WarmInv'
<1>1. ASSUME NEW s \in Streams, Handled(s) PROVE WarmInv'
  <2>1. stream = s /\ s # 0 /\ stream' = s
    BY <1>1, HandledFacts, StreamIn
  <2>2. /\ con[s].Clusters # {} => Followed(responses, "CDS", "EDS")
        /\ con[s].Routes # {} => Followed(responses, "LDS", "RDS")
    BY <2>1 DEF WarmInv
  <2>3. CASE RequestIgnored(s)
    BY <2>1, <2>2, <2>3 DEF RequestIgnored, Handles, WarmInv
  <2>4. CASE ClustersRequested(s)
    <3>1. con'[s].Clusters = con[s].Clusters /\ con'[s].Routes = con[s].Routes /\ ~con[s].CDSWatch
      BY <2>4 DEF ClustersRequested, Handles
    <3>2. con[s].Clusters = {}
      BY <2>1, <3>1 DEF FirstInv
    <3>3. Replies("CDS", {}, 1)
      BY <1>1, <2>4, ReplyFacts
    <3>4. Followed(responses, "LDS", "RDS") => Followed(responses', "LDS", "RDS")
      BY <3>3 DEF Replies, ResponseSent
    <3> QED BY <2>1, <2>2, <3>1, <3>2, <3>4 DEF WarmInv
  <2>5. CASE ListenersRequested(s)
    <3>1. con'[s].Clusters = con[s].Clusters /\ con'[s].Routes = con[s].Routes /\ ~con[s].LDSWatch
      BY <2>5 DEF ListenersRequested, Handles
    <3>2. con[s].Routes = {}
      BY <2>1, <3>1 DEF ListenersInv
    <3>3. Replies("LDS", {}, 1)
      BY <1>1, <2>5, ReplyFacts
    <3>4. Followed(responses, "CDS", "EDS") => Followed(responses', "CDS", "EDS")
      BY <3>3 DEF Replies, ResponseSent
    <3> QED BY <2>1, <2>2, <3>1, <3>2, <3>4 DEF WarmInv
  <2>6. CASE RoutesRequested(s)
    <3>1. con'[s].Clusters = con[s].Clusters
      BY <2>6 DEF RoutesRequested, Handles
    <3>2. Replies("RDS", Head(requests).names, con[s].RouteNonceSent + 1)
      BY <1>1, <2>6, ReplyFacts
    <3>3. /\ Followed(responses, "CDS", "EDS") => Followed(responses', "CDS", "EDS")
          /\ Followed(responses', "LDS", "RDS")
      BY <3>2 DEF Replies, ResponseSent
    <3> QED BY <2>1, <2>2, <3>1, <3>3 DEF WarmInv
  <2>7. CASE EndpointsRequested(s)
    <3>1. con'[s].Routes = con[s].Routes
      BY <2>7 DEF EndpointsRequested, Handles
    <3>2. Replies("EDS", Head(requests).names, 1)
      BY <1>1, <2>7, ReplyFacts
    <3>3. /\ Followed(responses, "LDS", "RDS") => Followed(responses', "LDS", "RDS")
          /\ Followed(responses', "CDS", "EDS")
      BY <3>2 DEF Replies, ResponseSent
    <3> QED BY <2>1, <2>2, <3>1, <3>3 DEF WarmInv
  <2> QED BY <1>1, <2>3, <2>4, <2>5, <2>6, <2>7 DEF Handled
<1>2. ASSUME NEW s \in Streams, PushHandled(s) PROVE WarmInv'
  <2>1. stream = s /\ s # 0 /\ stream' = s
    BY <1>2, HandledFacts, StreamIn
  <2>2. /\ con'[s].Clusters = con[s].Clusters /\ con'[s].Routes = con[s].Routes
        /\ con[s].Clusters # {} => Followed(responses', "CDS", "EDS")
        /\ con[s].Routes # {} => Followed(responses', "LDS", "RDS")
    BY <1>2 DEF PushHandled, PushSends, Handles
  <2> QED BY <2>1, <2>2 DEF WarmInv
<1>3. ASSUME NEW s \in Streams, Returned(s) PROVE WarmInv'
  <2>1. stream # 0 => con'[stream] = con[stream]
    BY <1>3, StreamIn DEF Returned
  <2> QED BY <1>3, <2>1 DEF Returned, WarmInv
<1>4. CASE Advanced
  <2>1. stream' = stream
    BY <1>4 DEF Advanced
  <2> QED BY <1>4, <2>1, AfterChange DEF WarmInv
<1>5. CASE Connected
  BY <1>5 DEF Connected, NewConnection, WarmInv
<1>6. CASE Disconnect
  BY <1>6 DEF Disconnect, WarmInv
<1>7. ASSUME NEW r, Responds(r) PROVE WarmInv'
  <2>1. \A type, next : Followed(responses, type, next) => Followed(responses', type, next)
    BY <1>7 DEF Responds, ResponseTaken
  <2> QED BY <1>7, <2>1 DEF Responds, WarmInv
<1>8. CASE Subscribes
  BY <1>8 DEF Subscribes, WarmInv
<1> QED
  BY <1>1, <1>2, <1>3, <1>4, <1>5, <1>6, <1>7, <1>8 DEF Moves, Applies, Rejects

(* A type that is settled when a response is taken was settled before, or  *)
(* the response was the last one of the type and was applied.              *)
LEMMA SettledBefore ==
    ASSUME Types3, StreamInv, NEW r, NEW type, Settled(type)',
           Applies(r) \/ Rejects(r)
    PROVE  \/ Settled(type) /\ r.type # type
           \/ /\ Applies(r) /\ r.type = type
              /\ Last(responses, type, 1) /\ responses[1] = r
<1>1. /\ Responds(r) /\ stream # 0 /\ stream' = stream
  BY DEF Applies, Rejects, Responds, StreamInv
<1>2. /\ Has(responses, type) <=> Has(responses', type) \/ r.type = type
      /\ r.type = type /\ ~Has(responses', type) => Last(responses, type, 1)
      /\ responses[1] = r
  BY <1>1 DEF Responds, ResponseTaken
<1>3. ~Has(responses', type) /\ type \notin envoy'.rejected
  BY DEF Settled
<1>4. CASE Applies(r)
  <2>1. envoy'.rejected = envoy.rejected \ {r.type}
    BY <1>4 DEF Applies
  <2> QED BY <1>1, <1>2, <1>3, <1>4, <2>1 DEF Settled
<1>5. CASE Rejects(r)
  <2>1. envoy'.rejected = envoy.rejected \cup {r.type}
    BY <1>5 DEF Rejects
  <2> QED BY <1>1, <1>2, <1>3, <2>1 DEF Settled
<1> QED BY <1>4, <1>5

(* What Envoy has is what the last responses said. *)
LEMMA KeepsEnvoyFresh ==
    ASSUME Types3, StreamInv, FirstInv, ResponsesFresh, EndpointsSent, RoutesSent,
           WarmInv, EnvoyFresh, Moves
    PROVE  EnvoyFresh'
<1>1. ASSUME NEW s \in Streams, Handled(s) PROVE EnvoyFresh'
  <2>1. /\ stream = s /\ s # 0 /\ UNCHANGED <<stream, version, envoy>>
        /\ con'[s].scope = con[s].scope
        /\ \A type : Has(responses, type) => Has(responses', type)
        /\ ~EndpointsRequested(s) => con'[s].Clusters = con[s].Clusters
        /\ ~RoutesRequested(s) => con'[s].Routes = con[s].Routes
    BY <1>1, ReplyLast
  <2>2. \A type : Settled(type)' => Settled(type)
    BY <2>1 DEF Settled
  <2>3. \A context : Fresh(context)' <=> Fresh(context)
    BY <2>1 DEF Fresh
  <2>4. /\ ClustersRequested(s) => Has(responses', "CDS")
        /\ ListenersRequested(s) => Has(responses', "LDS")
        /\ RoutesRequested(s) => Has(responses', "RDS")
        /\ EndpointsRequested(s) => Has(responses', "EDS")
    BY <1>1, ReplyFacts DEF Replies, ResponseSent
  <2>5. /\ ~ClustersRequested(s) => con'[s].CDSWatch = con[s].CDSWatch
        /\ ~ListenersRequested(s) => con'[s].LDSWatch = con[s].LDSWatch
    BY <1>1 DEF Handled, RequestIgnored, ClustersRequested, ListenersRequested,
                RoutesRequested, EndpointsRequested, Handles
  <2>6. (Settled("CDS") /\ con[stream].CDSWatch => Fresh(envoy.cds))'
    BY <2>1, <2>2, <2>3, <2>4, <2>5 DEF EnvoyFresh, Settled
  <2>7. (Settled("LDS") /\ con[stream].LDSWatch => Fresh(envoy.lds))'
    BY <2>1, <2>2, <2>3, <2>4, <2>5 DEF EnvoyFresh, Settled
  <2>8. (Settled("EDS") =>
          \A x \in envoy.clusters \cap con[stream].Clusters : Fresh(envoy.eds[x]))'
    BY <2>1, <2>2, <2>3, <2>4 DEF EnvoyFresh, Settled
  <2>9. (Settled("RDS") =>
          \A x \in envoy.routes \cap con[stream].Routes : Fresh(envoy.rds[x]))'
    BY <2>1, <2>2, <2>3, <2>4 DEF EnvoyFresh, Settled
  <2> QED BY <2>6, <2>7, <2>8, <2>9 DEF EnvoyFresh
<1>2. ASSUME NEW s \in Streams, PushHandled(s) PROVE EnvoyFresh'
  <2>1. stream' = s
    BY <1>2, HandledFacts
  <2>2. /\ con'[s].CDSWatch => Has(responses', "CDS")
        /\ con'[s].LDSWatch => Has(responses', "LDS")
        /\ con'[s].Clusters # {} => Has(responses', "EDS")
        /\ con'[s].Routes # {} => Has(responses', "RDS")
    BY <1>2 DEF PushHandled, PushSends, SentLast, Handles
  <2> QED BY <2>1, <2>2 DEF EnvoyFresh, Settled
<1>3. ASSUME NEW s \in Streams, Returned(s) PROVE EnvoyFresh'
  <2>1. stream # 0 => con'[stream] = con[stream]
    BY <1>3, StreamIn DEF Returned
  <2> QED BY <1>3, <2>1 DEF Returned, EnvoyFresh, Settled, Fresh
<1>4. CASE Advanced
  <2>1. stream' = stream
    BY <1>4 DEF Advanced
  <2>2. ASSUME stream # 0, con[stream].handler = "select"
        PROVE  \A context : Fresh(context)' <=> Fresh(context)
    BY <1>4, <2>1, <2>2, AfterChange DEF Fresh
  <2>3. ASSUME stream # 0, con[stream].handler # "select"
        PROVE  /\ ~con'[stream].CDSWatch /\ ~con'[stream].LDSWatch
               /\ con'[stream].Clusters = {} /\ con'[stream].Routes = {}
    BY <1>4, <2>3, AfterChange DEF FirstInv
  <2>4. CASE stream = 0
    BY <2>1, <2>4 DEF EnvoyFresh, Settled
  <2>5. CASE stream # 0 /\ con[stream].handler = "select"
    BY <1>4, <2>1, <2>2, <2>5, AfterChange DEF EnvoyFresh, Settled
  <2>6. CASE stream # 0 /\ con[stream].handler # "select"
    BY <2>1, <2>3, <2>6 DEF EnvoyFresh
  <2> QED BY <2>4, <2>5, <2>6
<1>5. CASE Connected
  <2>1. /\ ~con'[stream'].CDSWatch /\ ~con'[stream'].LDSWatch
        /\ con'[stream'].Clusters = {} /\ con'[stream'].Routes = {}
    BY <1>5 DEF Connected, NewConnection
  <2> QED BY <2>1 DEF EnvoyFresh
<1>6. CASE Disconnect
  BY <1>6 DEF Disconnect, EnvoyFresh, Settled
<1>7. ASSUME NEW r, Applies(r) PROVE EnvoyFresh'
  <2>1. /\ Responds(r) /\ stream # 0 /\ stream' = stream /\ con' = con /\ version' = version
    BY <1>7 DEF Applies, Responds, StreamInv
  <2>2. \A context : Fresh(context)' <=> Fresh(context)
    BY <2>1 DEF Fresh
  <2>3. ASSUME NEW type, Settled(type)'
        PROVE  \/ Settled(type) /\ r.type # type
               \/ r.type = type /\ Last(responses, type, 1) /\ responses[1] = r
    BY <1>7, <2>3, SettledBefore
  <2>4. (Settled("CDS") /\ con[stream].CDSWatch => Fresh(envoy.cds))'
    <3> SUFFICES ASSUME Settled("CDS")', con[stream].CDSWatch PROVE Fresh(envoy'.cds)
      BY <2>1, <2>2
    <3>1. CASE r.type # "CDS"
      <4>1. envoy'.cds = envoy.cds
        BY <1>7, <3>1 DEF Applies, AppliesCDS, AppliesEDS, AppliesLDS, AppliesRDS
      <4> QED BY <2>3, <3>1, <4>1 DEF EnvoyFresh
    <3>2. CASE r.type = "CDS"
      <4>1. envoy'.cds = r.context
        BY <1>7, <3>2 DEF Applies, AppliesCDS, AppliesEDS, AppliesLDS, AppliesRDS
      <4> QED BY <2>1, <2>3, <3>2, <4>1 DEF ResponsesFresh
    <3> QED BY <3>1, <3>2
  <2>5. (Settled("LDS") /\ con[stream].LDSWatch => Fresh(envoy.lds))'
    <3> SUFFICES ASSUME Settled("LDS")', con[stream].LDSWatch PROVE Fresh(envoy'.lds)
      BY <2>1, <2>2
    <3>1. CASE r.type # "LDS"
      <4>1. envoy'.lds = envoy.lds
        BY <1>7, <3>1 DEF Applies, AppliesCDS, AppliesEDS, AppliesLDS, AppliesRDS
      <4> QED BY <2>3, <3>1, <4>1 DEF EnvoyFresh
    <3>2. CASE r.type = "LDS"
      <4>1. envoy'.lds = r.context
        BY <1>7, <3>2 DEF Applies, AppliesCDS, AppliesEDS, AppliesLDS, AppliesRDS
      <4> QED BY <2>1, <2>3, <3>2, <4>1 DEF ResponsesFresh
    <3> QED BY <3>1, <3>2
  <2>6. (Settled("EDS") =>
          \A x \in envoy.clusters \cap con[stream].Clusters : Fresh(envoy.eds[x]))'
    <3> SUFFICES ASSUME Settled("EDS")', NEW x \in envoy'.clusters \cap con[stream].Clusters
                 PROVE  Fresh(envoy'.eds[x])
      BY <2>1, <2>2
    <3>1. CASE AppliesCDS(r)
      <4>1. Followed(responses, "CDS", "EDS")
        BY <2>1 DEF WarmInv
      <4>2. Has(responses', "EDS")
        BY <2>1, <3>1, <4>1 DEF AppliesCDS, Responds, ResponseTaken
      <4> QED BY <4>2 DEF Settled
    <3>2. CASE AppliesEDS(r)
      <4>1. r.type = "EDS" /\ envoy'.clusters = envoy.clusters
        BY <3>2 DEF AppliesEDS
      <4>2. r.names = con[stream].Clusters /\ Fresh(r.context)
        BY <2>1, <2>3, <4>1 DEF EndpointsSent
      <4>3. x \in Clusters
        BY <2>1, StreamIn DEF Types3, PilotTypes, Connection
      <4>4. envoy'.eds[x] = r.context
        BY <3>2, <4>1, <4>2, <4>3 DEF AppliesEDS
      <4> QED BY <4>2, <4>4
    <3>3. CASE AppliesLDS(r) \/ AppliesRDS(r)
      <4>1. r.type # "EDS" /\ envoy'.clusters = envoy.clusters /\ envoy'.eds = envoy.eds
        BY <3>3 DEF AppliesLDS, AppliesRDS
      <4> QED BY <2>3, <4>1 DEF EnvoyFresh
    <3> QED BY <1>7, <3>1, <3>2, <3>3 DEF Applies
  <2>7. (Settled("RDS") =>
          \A x \in envoy.routes \cap con[stream].Routes : Fresh(envoy.rds[x]))'
    <3> SUFFICES ASSUME Settled("RDS")', NEW x \in envoy'.routes \cap con[stream].Routes
                 PROVE  Fresh(envoy'.rds[x])
      BY <2>1, <2>2
    <3>1. CASE AppliesLDS(r)
      <4>1. Followed(responses, "LDS", "RDS")
        BY <2>1 DEF WarmInv
      <4>2. Has(responses', "RDS")
        BY <2>1, <3>1, <4>1 DEF AppliesLDS, Responds, ResponseTaken
      <4> QED BY <4>2 DEF Settled
    <3>2. CASE AppliesRDS(r)
      <4>1. r.type = "RDS" /\ envoy'.routes = envoy.routes
        BY <3>2 DEF AppliesRDS
      <4>2. r.names = con[stream].Routes /\ Fresh(r.context)
        BY <2>1, <2>3, <4>1 DEF RoutesSent
      <4>3. x \in Routes
        BY <2>1, StreamIn DEF Types3, PilotTypes, Connection
      <4>4. envoy'.rds[x] = r.context
        BY <3>2, <4>1, <4>2, <4>3 DEF AppliesRDS
      <4> QED BY <4>2, <4>4
    <3>3. CASE AppliesCDS(r) \/ AppliesEDS(r)
      <4>1. r.type # "RDS" /\ envoy'.routes = envoy.routes /\ envoy'.rds = envoy.rds
        BY <3>3 DEF AppliesCDS, AppliesEDS
      <4> QED BY <2>3, <4>1 DEF EnvoyFresh
    <3> QED BY <1>7, <3>1, <3>2, <3>3 DEF Applies
  <2> QED BY <2>4, <2>5, <2>6, <2>7 DEF EnvoyFresh
<1>8. ASSUME NEW r, Rejects(r) PROVE EnvoyFresh'
  <2>1. /\ stream' = stream /\ con' = con /\ version' = version
        /\ envoy'.cds = envoy.cds /\ envoy'.clusters = envoy.clusters /\ envoy'.eds = envoy.eds
        /\ envoy'.lds = envoy.lds /\ envoy'.routes = envoy.routes /\ envoy'.rds = envoy.rds
    BY <1>8 DEF Rejects, Responds
  <2>2. ASSUME NEW type, Settled(type)' PROVE Settled(type)
    <3>1. ~(Applies(r) /\ r.type = type)
      BY <1>8, <2>2 DEF Applies, Rejects, Responds, Settled
    <3> QED BY <1>8, <2>2, <3>1, SettledBefore
  <2> QED BY <2>1, <2>2 DEF EnvoyFresh, Fresh
<1>9. CASE Subscribes
  BY <1>9 DEF Subscribes, EnvoyFresh, Settled, Fresh
<1> QED
  BY <1>1, <1>2, <1>3, <1>4, <1>5, <1>6, <1>7, <1>8, <1>9 DEF Moves

(* The steps of pushes, and of a connection on its way into adsClients,    *)
(* lose the latest config only with a known cause.                         *)
LEMMA KeepsPush ==
    ASSUME Types3, StreamInv, PushTypes, PushInv, Next
    PROVE  PushTypes' /\ PushInv'
<1>b. /\ config \in Nat /\ 0 .. config \subseteq Configs /\ 0 .. config \subseteq Nat
      /\ \A n \in 0 .. config : n # None /\ (n # config => n < config)
  BY PushBounds
<1>c. /\ con \in [Streams -> Connection] /\ version \in Configs
      /\ \A s \in Streams : Tracked(con[s]) => con[s].scope \in Configs
  BY DEF Types3, PilotTypes, Tracked
<1>s. stream # 0 => stream \in Streams
  BY StreamIn
<1>1. ASSUME NEW s \in Streams, HandleRequest(s) PROVE PushTypes' /\ PushInv'
  <2>1. UNCHANGED pushVars
    BY <1>1 DEF HandleRequest
  <2>2. Handled(s)
    BY <1>1, HandleCases DEF Handled
  <2>3. /\ stream = s /\ stream' = s /\ s # 0 /\ Tracked(con[s]) /\ Tracked(con'[s])
        /\ con'[s].scope = con[s].scope
        /\ \A t \in Streams \ {s} : con'[t] = con[t]
    BY <2>2, HandledFacts, ReplyLast DEF Tracked
  <2>4. PushTypes'
    BY <2>1 DEF pushVars, PushTypes
  <2>5. Reaches(s)'
    BY <2>1, <2>3 DEF pushVars, PushInv, Reaches
  <2> QED BY <2>1, <2>3, <2>4, <2>5 DEF pushVars, PushInv
<1>2. ASSUME NEW s \in Streams, HandlePush(s) PROVE PushTypes' /\ PushInv'
  <2>1. PushHandled(s)
    BY <1>2, PushCases
  <2>2. /\ stream = s /\ stream' = s /\ s # 0 /\ Tracked(con[s]) /\ Tracked(con'[s])
        /\ con'[s].scope = due[s]
        /\ \A t \in Streams \ {s} : con'[t] = con[t]
    BY <2>1, HandledFacts, StreamIn DEF PushHandled, Handles, Tracked
  <2>3. /\ UNCHANGED <<config, version, launched, todo>> /\ due[s] # None
        /\ due' = [due EXCEPT ![s] = None]
        /\ excused' = [excused EXCEPT ![s] = excused[s] /\ due[s] < config]
    BY <1>2 DEF HandlePush
  <2>4. due[s] \in 0 .. config
    BY <2>3 DEF PushTypes
  <2>5. PushTypes'
    BY <2>3 DEF PushTypes
  <2>6. due'[s] = None /\ excused'[s] = (excused[s] /\ due[s] < config)
    BY <2>3 DEF PushTypes
  <2>7. \A t \in Streams \ {s} : due'[t] = due[t]
    BY <2>3 DEF PushTypes
  <2>8. Reaches(s)'
    <3>1. Reaches(s)
      BY <2>2 DEF PushInv
    <3>2. CASE due[s] = config
      BY <2>2, <2>3, <2>6, <3>2 DEF Reaches
    <3>3. CASE due[s] # config
      <4>1. due[s] < config
        BY <1>b, <2>4, <3>3
      <4> QED BY <2>3, <2>6, <3>1, <3>3, <4>1 DEF Reaches
    <3> QED BY <3>2, <3>3
  <2>9. \A t \in Streams : t # stream' \/ ~Tracked(con'[t]) => todo'[t] = {} /\ due'[t] = None
    BY <2>2, <2>3, <2>7 DEF PushInv
  <2> QED BY <2>2, <2>5, <2>8, <2>9 DEF PushInv
<1>3. ASSUME NEW s \in Streams, HandlerReturns(s) PROVE PushTypes' /\ PushInv'
  <2>1. UNCHANGED pushVars /\ Returned(s)
    BY <1>3, ReturnCases DEF HandlerReturns
  <2>2. /\ stream' = stream /\ stream # s /\ \A t \in Streams \ {s} : con'[t] = con[t]
    BY <2>1 DEF Returned
  <2>3. PushTypes'
    BY <2>1 DEF pushVars, PushTypes
  <2>4. stream # 0 => con'[stream] = con[stream]
    BY <1>s, <2>2
  <2> QED BY <2>1, <2>2, <2>3, <2>4 DEF pushVars, PushInv, Reaches
<1>4. ASSUME NEW s \in Streams, InitProxy(s) PROVE PushTypes' /\ PushInv'
  <2>1. /\ UNCHANGED pushVars /\ stream = s /\ stream' = stream /\ s # 0
        /\ con[s].handler = "new"
    BY <1>4, StreamIn DEF InitProxy, netVars
  <2>2. con'[s].handler = "register" /\ \A t \in Streams \ {s} : con'[t] = con[t]
    BY <1>4, <1>c DEF InitProxy, Connection
  <2>3. ~Tracked(con[s]) /\ ~Tracked(con'[s])
    BY <2>1, <2>2 DEF Tracked
  <2>4. PushTypes'
    BY <2>1 DEF pushVars, PushTypes
  <2> QED BY <2>1, <2>2, <2>3, <2>4 DEF pushVars, PushInv
<1>5. ASSUME NEW s \in Streams, AddCon(s) PROVE PushTypes' /\ PushInv'
  <2>1. /\ UNCHANGED <<config, version, launched, todo, due>> /\ stream' = stream
        /\ con[s].handler = "register"
    BY <1>5 DEF AddCon, netVars
  <2>2. /\ con'[s].scope = con[s].scope /\ con'[s].handler = "first"
        /\ \A t \in Streams \ {s} : con'[t] = con[t]
    BY <1>5, <1>c DEF AddCon, Connection
  <2>3. /\ excused' \in [Streams -> BOOLEAN]
        /\ excused'[s] = (stream = s /\ con[s].scope # config /\ version = config
                            /\ config \notin launched)
        /\ \A t \in Streams \ {s} : excused'[t] = excused[t]
    BY <1>5 DEF AddCon, PushTypes
  <2>4. PushTypes'
    BY <2>1, <2>3 DEF PushTypes
  <2>5. todo[s] = {} /\ due[s] = None
    BY <2>1 DEF PushInv, Tracked
  <2>6. \A t \in Streams : t # stream' \/ ~Tracked(con'[t]) => todo'[t] = {} /\ due'[t] = None
    BY <2>1, <2>2, <2>5 DEF PushInv
  <2>7. CASE stream = s
    <3>1. Reaches(s)'
      BY <2>1, <2>2, <2>3, <2>5, <2>7 DEF Reaches
    <3> QED BY <2>1, <2>4, <2>6, <2>7, <3>1 DEF PushInv
  <2>8. CASE stream # s
    <3>1. stream # 0 /\ Tracked(con'[stream]) => Reaches(stream)'
      BY <1>s, <2>1, <2>2, <2>3, <2>8 DEF PushInv, Reaches
    <3> QED BY <2>1, <2>4, <2>6, <3>1 DEF PushInv
  <2> QED BY <2>7, <2>8
<1>6. ASSUME NEW s \in Streams, NEW n \in Configs, EnqueueClient(s, n)
      PROVE  PushTypes' /\ PushInv'
  <2>1. /\ UNCHANGED <<config, version, launched, con>> /\ stream' = stream
        /\ n \in todo[s] /\ todo' = [todo EXCEPT ![s] = todo[s] \ {n}]
    BY <1>6 DEF EnqueueClient, netVars
  <2>2. PICK kept \in {n, due[s]} \ {None} :
           /\ due' = [due EXCEPT ![s] = kept]
           /\ excused' = [excused EXCEPT ![s] = excused[s]
                   \/ \E other \in {n, due[s], con[s].scope} \ {None} : kept < other]
    BY <1>6 DEF EnqueueClient
  <2>3. stream = s /\ Tracked(con[s])
    BY <2>1 DEF PushInv
  <2>4. n \in 0 .. config /\ kept \in 0 .. config
    BY <2>1, <2>2 DEF PushTypes
  <2>5. PICK e \in BOOLEAN : e = (excused[s]
                   \/ \E other \in {n, due[s], con[s].scope} \ {None} : kept < other)
    BY DEF PushTypes
  <2>6. /\ due'[s] = kept /\ excused'[s] = e /\ todo'[s] = todo[s] \ {n}
        /\ \A t \in Streams \ {s} : due'[t] = due[t] /\ todo'[t] = todo[t]
    BY <2>1, <2>2, <2>5 DEF PushTypes
  <2>7. /\ todo' \in [Streams -> SUBSET (0 .. config)]
        /\ due' \in [Streams -> (0 .. config) \cup {None}]
        /\ excused' \in [Streams -> BOOLEAN]
    BY <2>1, <2>2, <2>4, <2>5 DEF PushTypes
  <2>8. PushTypes'
    BY <2>1, <2>7 DEF PushTypes
  <2>9. Reaches(s)'
    <3>1. Reaches(s)
      BY <2>3, StreamIn DEF PushInv
    <3>2. CASE kept = config
      BY <2>1, <2>6, <3>2 DEF Reaches
    <3>3. CASE kept # config
      <4>1. kept < config /\ config # None
        BY <1>b, <2>4, <3>3
      <4>2. config \in {n, due[s], con[s].scope} => e
        BY <2>5, <4>1
      <4>3. excused[s] => e
        BY <2>5
      <4> QED BY <2>1, <2>6, <3>1, <4>2, <4>3 DEF Reaches
    <3> QED BY <3>2, <3>3
  <2> QED BY <2>1, <2>3, <2>6, <2>8, <2>9 DEF PushInv
<1>7. CASE Publish
  <2>1. /\ UNCHANGED <<version, launched, todo, due, excused, con>> /\ stream' = stream
        /\ config < MaxConfig /\ version = config /\ config' = config + 1
    BY <1>7 DEF Publish, netVars
  <2>2. config' \in Configs /\ 0 .. config \subseteq 0 .. config' /\ config' # config
    BY <1>b, <2>1, AdsStreamAssumption DEF Configs
  <2>3. PushTypes'
    BY <2>1, <2>2 DEF PushTypes
  <2>4. version' # config'
    BY <2>1, <2>2
  <2> QED BY <2>1, <2>3, <2>4 DEF PushInv, Reaches
<1>8. CASE Launch
  <2>1. /\ UNCHANGED <<config, todo, due, excused, con>> /\ stream' = stream
        /\ launched' = launched \cup {config}
    BY <1>8 DEF Launch, netVars
  <2>2. config \in 0 .. config
    BY <1>b
  <2>3. PushTypes'
    BY <2>1, <2>2 DEF PushTypes
  <2> QED BY <2>1, <2>3 DEF PushInv, Reaches
<1>9. ASSUME NEW n \in Configs, StartPush(n) PROVE PushTypes' /\ PushInv'
  <2>1. /\ UNCHANGED <<config, version, due, excused, con>> /\ stream' = stream
        /\ n \in launched /\ launched' = launched \ {n}
        /\ todo' = [s \in Streams |->
               IF s = stream /\ Tracked(con[s]) THEN todo[s] \cup {n} ELSE todo[s]]
    BY <1>9 DEF StartPush, netVars
  <2>2. PushTypes'
    BY <2>1 DEF PushTypes
  <2>3. \A t \in Streams : t # stream' \/ ~Tracked(con'[t]) => todo'[t] = {} /\ due'[t] = None
    BY <2>1 DEF PushInv
  <2>4. ASSUME stream # 0, Tracked(con[stream]) PROVE Reaches(stream)'
    <3>1. todo'[stream] = todo[stream] \cup {n}
      BY <1>s, <2>1, <2>4
    <3> QED BY <2>1, <2>4, <3>1 DEF PushInv, Reaches
  <2> QED BY <2>1, <2>2, <2>3, <2>4 DEF PushInv
<1>10. CASE Connect
  <2>1. UNCHANGED pushVars /\ Connected
    BY <1>10, ConnectCases DEF Connect
  <2>2. /\ stream = 0 /\ stream' = opened + 1 /\ con'[stream'].handler = "new"
        /\ \A t \in Streams \ {opened + 1} : con'[t] = con[t]
    BY <2>1 DEF Connected, NewConnection
  <2>3. ~Tracked(con'[stream'])
    BY <2>2 DEF Tracked
  <2>4. \A t \in Streams : todo[t] = {} /\ due[t] = None
    BY <2>2, StreamIn DEF PushInv
  <2>5. PushTypes'
    BY <2>1 DEF pushVars, PushTypes
  <2> QED BY <2>1, <2>3, <2>4, <2>5 DEF pushVars, PushInv
<1>11. CASE Disconnect
  <2>1. /\ UNCHANGED <<config, launched, con>> /\ stream # 0 /\ stream' = 0
        /\ todo' = [todo EXCEPT ![stream] = {}]
        /\ due' = [due EXCEPT ![stream] = None]
        /\ excused' = [excused EXCEPT ![stream] = FALSE]
    BY <1>11 DEF Disconnect
  <2>2. PushTypes'
    BY <2>1 DEF PushTypes
  <2>3. \A t \in Streams : todo'[t] = {} /\ due'[t] = None
    BY <2>1 DEF PushTypes, PushInv
  <2> QED BY <2>1, <2>2, <2>3 DEF PushInv
<1>12. CASE UNCHANGED <<pilotVars, stream>>
  <2>1. UNCHANGED <<pushVars, con, stream>>
    BY <1>12 DEF pilotVars
  <2> QED BY <2>1 DEF pushVars, PushTypes, PushInv, Reaches
<1>13. CASE ApplyResponse \/ RejectResponse \/ SubscribeListeners
  BY <1>12, <1>13 DEF ApplyResponse, RejectResponse, SubscribeListeners
<1> QED
  BY <1>1, <1>2, <1>3, <1>4, <1>5, <1>6, <1>7, <1>8, <1>9, <1>10, <1>11, <1>13 DEF Next

-----------------------------------------------------------------------------
(* The theorems. *)

(* Nothing is connected at first. *)
LEMMA InitAdsInv == Init => AdsInv
<1> SUFFICES ASSUME Init PROVE AdsInv
  OBVIOUS
<1>1. /\ NewConnection(FALSE) \in Connection /\ ~NewConnection(FALSE).open
      /\ NewConnection(FALSE).handler = "new"
  BY ValueTypes DEF NewConnection, Connection, Versions, Handlers
<1>2. /\ con \in [Streams -> Connection]
      /\ \A s \in Streams : ~con[s].open /\ con[s].handler = "new"
  BY <1>1 DEF Init
<1>3. stream = 0 /\ requests = <<>> /\ responses = <<>> /\ opened = 0
  BY DEF Init
<1>4. PilotTypes
  <2>1. version \in Configs
    BY AdsStreamAssumption DEF Init, Configs
  <2>2. EdsClients \in [Clusters -> SUBSET Streams]
    BY DEF Init
  <2> QED BY <1>2, <2>1, <2>2 DEF PilotTypes
<1>5. NetTypes
  <2>1. 0 \in 0 .. MaxStreams
    BY AdsStreamAssumption
  <2> QED BY <1>3, <2>1 DEF NetTypes
<1>6. EnvoyTypes
  <2>1. 0 \in 0 .. MaxRejects /\ None \in Versions
    BY AdsStreamAssumption DEF Versions
  <2> QED BY <2>1 DEF Init, EnvoyTypes, EnvoyState
<1>7. StreamInv
  BY <1>2, <1>3 DEF StreamInv
<1>8. ClientsInv
  BY <1>2 DEF Init, ClientsInv
<1>9. WantedInv
  BY <1>3 DEF Init, WantedInv
<1>10. /\ FirstInv /\ ListenersInv /\ EndpointsAsked /\ RoutesAsked
       /\ ResponsesFresh /\ EndpointsSent /\ RoutesSent /\ WarmInv /\ EnvoyFresh
  BY <1>3 DEF FirstInv, ListenersInv, EndpointsAsked, RoutesAsked, ResponsesFresh,
              EndpointsSent, RoutesSent, WarmInv, EnvoyFresh, Settled
<1>11. PushTypes
  <2>1. 0 \in Configs
    BY AdsStreamAssumption DEF Configs
  <2> QED BY <2>1 DEF Init, PushTypes
<1>12. PushInv
  BY <1>3 DEF Init, PushInv
<1> QED
  BY <1>4, <1>5, <1>6, <1>7, <1>8, <1>9, <1>10, <1>11, <1>12 DEF AdsInv

(* Every step keeps all of it. *)
LEMMA NextAdsInv == AdsInv /\ [Next]_vars => AdsInv'
<1>1. ASSUME AdsInv, Next PROVE AdsInv'
  <2>1. Types3 /\ Moves
    BY <1>1, StepCases DEF AdsInv, Types3
  <2>2. PilotTypes' /\ NetTypes' /\ EnvoyTypes'
    BY <2>1, KeepsTypes DEF Types3
  <2>3. StreamInv' /\ ClientsInv' /\ FirstInv'
    BY <1>1, <2>1, KeepsStreamInv, KeepsClientsInv, KeepsFirstInv DEF AdsInv
  <2>4. ListenersInv' /\ WantedInv'
    BY <1>1, <2>1, KeepsListenersInv, KeepsWantedInv DEF AdsInv
  <2>5. EndpointsAsked' /\ RoutesAsked'
    BY <1>1, <2>1, KeepsEndpointsAsked, KeepsRoutesAsked DEF AdsInv
  <2>6. ResponsesFresh' /\ EndpointsSent' /\ RoutesSent'
    BY <1>1, <2>1, KeepsResponsesFresh, KeepsEndpointsSent, KeepsRoutesSent DEF AdsInv
  <2>7. WarmInv' /\ EnvoyFresh'
    BY <1>1, <2>1, KeepsWarmInv, KeepsEnvoyFresh DEF AdsInv
  <2>8. PushTypes' /\ PushInv'
    BY <1>1, <2>1, KeepsPush DEF AdsInv
  <2> QED
    BY <2>2, <2>3, <2>4, <2>5, <2>6, <2>7, <2>8 DEF AdsInv
<1>2. ASSUME AdsInv, UNCHANGED vars PROVE AdsInv'
  <2>1. UNCHANGED <<version, con, EdsClients, stream, opened, requests, responses, envoy, rejects>>
    BY <1>2 DEF vars, pilotVars, pushVars, netVars
  <2>2. PilotTypes' /\ NetTypes' /\ EnvoyTypes' /\ StreamInv' /\ ClientsInv' /\ FirstInv'
    BY <1>2, <2>1 DEF AdsInv, PilotTypes, NetTypes, EnvoyTypes, StreamInv, ClientsInv, FirstInv
  <2>3. ListenersInv' /\ WantedInv' /\ EndpointsAsked'
    BY <1>2, <2>1 DEF AdsInv, ListenersInv, WantedInv, EndpointsAsked
  <2>4. RoutesAsked'
    BY <1>2, <2>1 DEF AdsInv, RoutesAsked, Settled
  <2>5. ResponsesFresh' /\ EndpointsSent' /\ RoutesSent' /\ WarmInv'
    BY <1>2, <2>1 DEF AdsInv, ResponsesFresh, EndpointsSent, RoutesSent, WarmInv, Fresh
  <2>6. EnvoyFresh'
    BY <1>2, <2>1 DEF AdsInv, EnvoyFresh, Settled, Fresh
  <2>7. PushTypes' /\ PushInv'
    <3>1. UNCHANGED pushVars
      BY <1>2 DEF vars, pilotVars
    <3> QED BY <1>2, <2>1, <3>1 DEF AdsInv, pushVars, PushTypes, PushInv, Reaches
  <2> QED
    BY <2>2, <2>3, <2>4, <2>5, <2>6, <2>7 DEF AdsInv
<1> QED
  BY <1>1, <1>2

(* The invariant gives the types; that clients are open connections comes  *)
(* from their lists of clusters.                                           *)
LEMMA AdsInvTypes == AdsInv => TypeOK
<1> SUFFICES ASSUME AdsInv PROVE TypeOK
  OBVIOUS
<1>1. EdsClients \in [Clusters -> SUBSET {s \in Streams : con[s].open}]
  BY DEF AdsInv, PilotTypes, ClientsInv
<1>2. /\ config \in Configs /\ launched \subseteq Configs
      /\ todo \in [Streams -> SUBSET Configs]
      /\ due \in [Streams -> Configs \cup {None}]
      /\ excused \in [Streams -> BOOLEAN]
  BY PushBounds DEF AdsInv, PushTypes
<1> QED
  BY <1>1, <1>2 DEF AdsInv, PilotTypes, NetTypes, EnvoyTypes, TypeOK, Connection, EnvoyState,
                    Versions

(* When nothing is under way, what is asked for is what is watched, and    *)
(* what is watched is what Envoy has.                                      *)
LEMMA AdsInvServed == AdsInv => SubscriptionsServed
<1> SUFFICES ASSUME AdsInv, Quiet PROVE SubscriptionsServed
  BY DEF SubscriptionsServed
<1>1. /\ stream # 0 /\ requests = <<>> /\ responses = <<>>
      /\ version = config /\ launched = {} /\ todo[stream] = {} /\ due[stream] = None
  BY DEF Quiet
<1>0. con[stream].handler = "select"
  BY <1>1 DEF AdsInv, FirstInv
<1>2. /\ \A type : ~Has(requests, type) /\ ~Has(responses, type)
      /\ \A type, nonce : ~Asks(requests, type, nonce)
  BY <1>1 DEF Has, Asks
<1>3. /\ \A type : type \notin envoy.rejected => Settled(type)
      /\ \A context : Fresh(context) => context = con[stream].scope
  BY <1>1, <1>2 DEF Settled, Fresh
<1>4. con[stream].CDSWatch
  BY <1>0, <1>1 DEF AdsInv, FirstInv
<1>5. envoy.wantsLDS => con[stream].LDSWatch
  BY <1>1, <1>2 DEF AdsInv, ListenersInv
<1>6. envoy.clusters # {} => con[stream].Clusters = envoy.clusters
  BY <1>1, <1>2 DEF AdsInv, EndpointsAsked
<1>7. "RDS" \notin envoy.rejected => con[stream].Routes = envoy.routes
  BY <1>2, <1>3 DEF AdsInv, RoutesAsked
<1>8. "CDS" \notin envoy.rejected => envoy.cds = con[stream].scope
  BY <1>3, <1>4 DEF AdsInv, EnvoyFresh
<1>9. "LDS" \notin envoy.rejected /\ envoy.wantsLDS => envoy.lds = con[stream].scope
  BY <1>3, <1>5 DEF AdsInv, EnvoyFresh
<1>10. "EDS" \notin envoy.rejected => \A x \in envoy.clusters : envoy.eds[x] = con[stream].scope
  BY <1>3, <1>6 DEF AdsInv, EnvoyFresh
<1>11. "RDS" \notin envoy.rejected => \A r \in envoy.routes : envoy.rds[r] = con[stream].scope
  BY <1>3, <1>7 DEF AdsInv, EnvoyFresh
<1>12. ClientsInv
  BY DEF AdsInv
<1>13. con[stream].scope = config \/ excused[stream]
  <2>1. Reaches(stream)
    BY <1>0, <1>1 DEF AdsInv, PushInv, Tracked
  <2>2. config # None
    BY AdsStreamAssumption DEF AdsInv, PushTypes, Configs, None
  <2> QED BY <1>1, <2>1, <2>2 DEF Reaches
<1> QED
  BY <1>6, <1>7, <1>8, <1>9, <1>10, <1>11, <1>12, <1>13 DEF SubscriptionsServed, ClientsInv

(* Every variable has its type, and the clients updateEdsClients adds are  *)
(* connections that are open: removeCon forgets them all.                  *)
THEOREM AdsTypeCorrect == Spec => []TypeOK
  BY InitAdsInv, NextAdsInv, AdsInvTypes, PTL DEF Spec

(* When all is quiet, Pilot watches what Envoy is subscribed to and Envoy  *)
(* has all of it from one scope, that of the last push or of initProxy: no *)
(* subscription is taken for an acknowledgement by the comparisons of      *)
(* nonces, versions and lists in StreamAggregatedResources, however        *)
(* pushes, rejections, breaks of the stream and requests cross.  It is the *)
(* scope of the latest config unless a known cause struck: the connection  *)
(* was added after the push had copied adsClients, or an older context was *)
(* enqueued after a newer one or took its place in a merge.                *)
THEOREM SubscriptionsAreServed == Spec => []SubscriptionsServed
  BY InitAdsInv, NextAdsInv, AdsInvServed, PTL DEF Spec

=============================================================================
