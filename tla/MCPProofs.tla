------------------------------ MODULE MCPProofs ------------------------------
(***************************************************************************)
(* Theorems about MCP, for any collections, contents, number of streams    *)
(* that end and number of rejected changes.                                *)
(***************************************************************************)
EXTENDS MCP, FiniteSetTheorems, TLAPS

-----------------------------------------------------------------------------
(* The inductive invariant. *)

Watches == [stream : Streams, coll : Collections, inc : BOOLEAN, version : Nat]
Items == [key : Collections, val : [version : Nat, inc : BOOLEAN]]
Queues == [items : Seq(Items), ready : Nat, closed : BOOLEAN]
Phases == {"none", "select", "dequeue", "closing", "gone"}
IsSeq(q) == \E S : q \in Seq(S)

(* The cache.  SetSnapshot answers with the snapshot it has just set. *)
CacheTypes ==
    /\ published \in [Collections -> Nat]
    /\ \A c \in Collections : published[c] \in Generations(c)
    /\ snapshot = NoSnapshot \/ \A c \in Collections : snapshot[c] \in Generations(c)
    /\ openWatches \subseteq Watches
    /\ \A k \in openWatches : k.version \in Generations(k.coll)
    /\ answering \subseteq openWatches
    /\ answering # {} => snapshot = published

QueueTypes ==
    /\ queue \in [Streams -> Queues]
    /\ \A s \in Streams : \A i \in 1..Len(queue[s].items) :
          queue[s].items[i].val.version \in Generations(queue[s].items[i].key)

ConTypes ==
    /\ pc \in [Streams -> Phases]
    /\ streamNonce \in [Streams -> Nat]
    /\ DOMAIN watch = Streams
    /\ \A s \in Streams : DOMAIN watch[s] = Collections
    /\ \A s \in Streams, c \in Collections :
          /\ watch[s][c].cancel \in BOOLEAN
          /\ \/ watch[s][c].pending = NoMsg
             \/ /\ IsMessage(watch[s][c].pending)
                /\ watch[s][c].pending.coll = c /\ watch[s][c].pending.nonce # 0

NetTypes ==
    /\ toSource \in [Streams -> Seq(Requests)]
    /\ DOMAIN toSink = Streams
    /\ \A s \in Streams : IsSeq(toSink[s])
    /\ \A s \in Streams : \A i \in 1..Len(toSink[s]) :
          IsMessage(toSink[s][i]) /\ toSink[s][i].nonce # 0
    /\ broken \in [Streams -> BOOLEAN]

SinkTypes ==
    /\ opened \in 0 .. (MaxBreaks + 1)
    /\ stream \in {0, opened}
    /\ initial \subseteq Collections
    /\ DOMAIN store = Collections
    /\ rejected \in [Collections -> BOOLEAN]
    /\ DOMAIN inherited = Collections

(* A stream that is not open yet is as newConnection leaves it; one that   *)
(* is gone has ended.                                                      *)
LifeInv ==
    /\ \A s \in Streams : pc[s] = "none" <=> s > opened
    /\ \A s \in Streams : pc[s] = "none" =>
          /\ toSource[s] = <<>> /\ toSink[s] = <<>> /\ queue[s] = NewQueue
          /\ \A c \in Collections : watch[s][c] = NewWatch
    /\ \A s \in Streams : pc[s] = "gone" => broken[s]

(* The connection can cancel each of its watches. *)
WatchInv ==
    \A k \in openWatches :
        pc[k.stream] \notin {"none", "gone"} /\ watch[k.stream][k.coll].cancel

TokenInv ==
    \A s \in Streams :
        Len(queue[s].items) = queue[s].ready + (IF pc[s] = "dequeue" THEN 1 ELSE 0)

(* The places a collection can be in, and that it is twice in none. *)
HasColl(q, c) == \E i \in 1..Len(q) : q[i].coll = c
OnceColl(q) == \A i, j \in 1..Len(q) : q[i].coll = q[j].coll => i = j
HasKey(q, c) == \E i \in 1..Len(q) : q[i].key = c
OnceKey(q) == \A i, j \in 1..Len(q) : q[i].key = q[j].key => i = j

Asking(s, c) == stream = s /\ c \in initial
Watched(s, c) == \E k \in openWatches : k.stream = s /\ k.coll = c

OnceInv ==
    /\ \A s \in Streams :
          OnceColl(toSource[s]) /\ OnceColl(toSink[s]) /\ OnceKey(queue[s].items)
    /\ \A k, l \in openWatches : k.stream = l.stream /\ k.coll = l.coll => k = l

(* No collection is in two places. *)
ApartInv ==
    \A s \in Streams, c \in Collections :
        /\ Asking(s, c) => ~HasColl(toSource[s], c) /\ ~Watched(s, c)
                           /\ ~HasKey(queue[s].items, c) /\ ~HasColl(toSink[s], c)
        /\ HasColl(toSource[s], c) => ~Watched(s, c) /\ ~HasKey(queue[s].items, c)
                                      /\ ~HasColl(toSink[s], c)
        /\ Watched(s, c) => ~HasKey(queue[s].items, c) /\ ~HasColl(toSink[s], c)
        /\ HasKey(queue[s].items, c) => ~HasColl(toSink[s], c)

(* And on a stream that is up each is in one. *)
SomewhereInv ==
    \A s \in Streams, c \in Collections :
        Serving(s) /\ ~broken[s] =>
            \/ Asking(s, c) \/ HasColl(toSource[s], c) \/ Watched(s, c)
            \/ HasKey(queue[s].items, c) \/ HasColl(toSink[s], c)

(* What a request answers: nothing yet, or the response that was sent. *)
NonceInv ==
    /\ \A s \in Streams : \A i \in 1..Len(toSource[s]) :
          toSource[s][i].nonce = watch[s][toSource[s][i].coll].pending.nonce
    /\ \A s \in Streams, c \in Collections : Asking(s, c) => watch[s][c].pending = NoMsg
    /\ \A s \in Streams : ~broken[s] => \A i \in 1..Len(toSink[s]) :
          toSink[s][i] = watch[s][toSink[s][i].coll].pending

(* Every open watch that is not about to be answered is for the snapshot.  *)
VersionInv ==
    snapshot # NoSnapshot =>
        \A k \in openWatches \ answering : k.version = snapshot[k.coll]

(* The sink holds what it acknowledged, and what it has acknowledged in a  *)
(* request that is under way; the source would have it so after an ACK of  *)
(* the pending response.                                                   *)
Same(f, g) == DOMAIN f = DOMAIN g /\ \A n \in DOMAIN f : f[n] = g[n]
Covers(held, others, want) ==
    /\ \A n \in DOMAIN want : n \in DOMAIN held /\ held[n] = want[n]
    /\ DOMAIN held \subseteq DOMAIN want \cup others
Acking(c) == \E i \in 1..Len(toSource[stream]) :
    toSource[stream][i].coll = c /\ toSource[stream][i].nonce # 0 /\ ~toSource[stream][i].nack
Believed(c) == IF Acking(c) THEN Track(watch[stream][c].acked, watch[stream][c].pending)
               ELSE watch[stream][c].acked

PendingInv ==
    \A s \in Streams, c \in Collections :
        watch[s][c].pending # NoMsg =>
            Same(Track(watch[s][c].acked, watch[s][c].pending),
                 Resources(c, watch[s][c].pending.version))

StoreInv == \A c \in Collections : Covers(store[c], inherited[c], Believed(c))
NackInv ==
    \A i \in 1..Len(toSource[stream]) :
        toSource[stream][i].nack => rejected[toSource[stream][i].coll]
IdleInv ==
    \A k \in openWatches : k.stream = stream /\ k.version # 0 =>
        \/ rejected[k.coll]
        \/ Covers(store[k.coll], inherited[k.coll], Resources(k.coll, k.version))

HeldInv == stream # 0 /\ ~broken[stream] => StoreInv /\ NackInv /\ IdleInv

MCPInv ==
    /\ CacheTypes /\ QueueTypes /\ ConTypes /\ NetTypes /\ SinkTypes
    /\ LifeInv /\ WatchInv /\ TokenInv
    /\ OnceInv /\ ApartInv /\ SomewhereInv
    /\ NonceInv /\ VersionInv /\ PendingInv /\ HeldInv

-----------------------------------------------------------------------------
(* Sequences with at most one entry per collection. *)

(* Append adds an element at the end of any sequence. *)
LEMMA Appended ==
    ASSUME NEW q, IsSeq(q), NEW m
    PROVE  /\ IsSeq(Append(q, m))
           /\ Len(q) \in Nat /\ Len(Append(q, m)) = Len(q) + 1
           /\ \A i \in 1..Len(q) : Append(q, m)[i] = q[i]
           /\ Append(q, m)[Len(q) + 1] = m
<1>1. PICK S : q \in Seq(S)
  BY DEF IsSeq
<1>2. q \in Seq(S \cup {m})
  BY <1>1
<1>3. Append(q, m) \in Seq(S \cup {m})
  BY <1>2
<1> QED
  BY <1>2, <1>3 DEF IsSeq

(* Tail removes the first. *)
LEMMA Tailed ==
    ASSUME NEW q, IsSeq(q), q # <<>>
    PROVE  /\ IsSeq(Tail(q))
           /\ Len(q) \in Nat /\ Len(q) > 0 /\ Len(Tail(q)) = Len(q) - 1
           /\ \A i \in 1..Len(Tail(q)) : Tail(q)[i] = q[i + 1]
           /\ Head(q) = q[1]
<1>1. PICK S : q \in Seq(S)
  BY DEF IsSeq
<1>2. Tail(q) \in Seq(S)
  BY <1>1
<1> QED
  BY <1>1, <1>2 DEF IsSeq

(* A message appended for a collection that has none. *)
LEMMA CollAppended ==
    ASSUME NEW q, IsSeq(q), NEW m, OnceColl(q), ~HasColl(q, m.coll)
    PROVE  /\ OnceColl(Append(q, m))
           /\ \A c : HasColl(Append(q, m), c) <=> HasColl(q, c) \/ c = m.coll
<1>1. /\ Len(q) \in Nat /\ Len(Append(q, m)) = Len(q) + 1
      /\ \A i \in 1..Len(q) : Append(q, m)[i] = q[i]
      /\ Append(q, m)[Len(q) + 1] = m
  BY Appended
<1>2. \A i \in 1..Len(Append(q, m)) : i \in 1..Len(q) \/ i = Len(q) + 1
  BY <1>1
<1>3. /\ \A i \in 1..Len(q) : i \in 1..Len(Append(q, m))
      /\ Len(q) + 1 \in 1..Len(Append(q, m))
  BY <1>1
<1>4. OnceColl(Append(q, m))
  BY <1>1, <1>2 DEF OnceColl, HasColl
<1>5. ASSUME NEW c
      PROVE  HasColl(Append(q, m), c) <=> HasColl(q, c) \/ c = m.coll
  BY <1>1, <1>2, <1>3 DEF HasColl
<1> QED
  BY <1>4, <1>5

(* The first message taken away: its collection has no other. *)
LEMMA CollTailed ==
    ASSUME NEW q, IsSeq(q), q # <<>>, OnceColl(q)
    PROVE  /\ OnceColl(Tail(q))
           /\ HasColl(q, Head(q).coll)
           /\ \A c : HasColl(Tail(q), c) <=> HasColl(q, c) /\ c # Head(q).coll
<1>1. /\ Len(q) \in Nat /\ Len(q) > 0 /\ Len(Tail(q)) = Len(q) - 1
      /\ \A i \in 1..Len(Tail(q)) : Tail(q)[i] = q[i + 1]
      /\ Head(q) = q[1]
  BY Tailed
<1>2. \A i \in 1..Len(Tail(q)) : i + 1 \in 1..Len(q) /\ i + 1 # 1
  BY <1>1
<1>3. /\ 1 \in 1..Len(q)
      /\ \A i \in 1..Len(q) : i # 1 =>
            i - 1 \in 1..Len(Tail(q)) /\ Tail(q)[i - 1] = q[i]
  BY <1>1
<1>4. OnceColl(Tail(q))
  <2> SUFFICES ASSUME NEW i \in 1..Len(Tail(q)), NEW j \in 1..Len(Tail(q)),
                      Tail(q)[i].coll = Tail(q)[j].coll
               PROVE  i = j
    BY DEF OnceColl
  <2>1. i + 1 = j + 1
    BY <1>1, <1>2 DEF OnceColl
  <2> QED
    BY <2>1
<1>5. ASSUME NEW c, HasColl(Tail(q), c)
      PROVE  HasColl(q, c) /\ c # Head(q).coll
  BY <1>1, <1>2, <1>3, <1>5 DEF HasColl, OnceColl
<1>6. ASSUME NEW c, HasColl(q, c), c # Head(q).coll
      PROVE  HasColl(Tail(q), c)
  BY <1>1, <1>3, <1>6 DEF HasColl
<1>7. HasColl(q, Head(q).coll)
  BY <1>1, <1>3 DEF HasColl
<1> QED
  BY <1>4, <1>5, <1>6, <1>7

(* The same two facts for the entries of a queue. *)
LEMMA KeyAppended ==
    ASSUME NEW q, IsSeq(q), NEW m, OnceKey(q), ~HasKey(q, m.key)
    PROVE  /\ OnceKey(Append(q, m))
           /\ \A c : HasKey(Append(q, m), c) <=> HasKey(q, c) \/ c = m.key
<1>1. /\ Len(q) \in Nat /\ Len(Append(q, m)) = Len(q) + 1
      /\ \A i \in 1..Len(q) : Append(q, m)[i] = q[i]
      /\ Append(q, m)[Len(q) + 1] = m
  BY Appended
<1>2. \A i \in 1..Len(Append(q, m)) : i \in 1..Len(q) \/ i = Len(q) + 1
  BY <1>1
<1>3. /\ \A i \in 1..Len(q) : i \in 1..Len(Append(q, m))
      /\ Len(q) + 1 \in 1..Len(Append(q, m))
  BY <1>1
<1>4. OnceKey(Append(q, m))
  BY <1>1, <1>2 DEF OnceKey, HasKey
<1>5. ASSUME NEW c
      PROVE  HasKey(Append(q, m), c) <=> HasKey(q, c) \/ c = m.key
  BY <1>1, <1>2, <1>3 DEF HasKey
<1> QED
  BY <1>4, <1>5

(* Dequeue takes the first entry: its collection has no other. *)
LEMMA KeyTailed ==
    ASSUME NEW q, IsSeq(q), q # <<>>, OnceKey(q)
    PROVE  /\ OnceKey(Tail(q))
           /\ HasKey(q, Head(q).key)
           /\ \A c : HasKey(Tail(q), c) <=> HasKey(q, c) /\ c # Head(q).key
<1>1. /\ Len(q) \in Nat /\ Len(q) > 0 /\ Len(Tail(q)) = Len(q) - 1
      /\ \A i \in 1..Len(Tail(q)) : Tail(q)[i] = q[i + 1]
      /\ Head(q) = q[1]
  BY Tailed
<1>2. \A i \in 1..Len(Tail(q)) : i + 1 \in 1..Len(q) /\ i + 1 # 1
  BY <1>1
<1>3. /\ 1 \in 1..Len(q)
      /\ \A i \in 1..Len(q) : i # 1 =>
            i - 1 \in 1..Len(Tail(q)) /\ Tail(q)[i - 1] = q[i]
  BY <1>1
<1>4. OnceKey(Tail(q))
  <2> SUFFICES ASSUME NEW i \in 1..Len(Tail(q)), NEW j \in 1..Len(Tail(q)),
                      Tail(q)[i].key = Tail(q)[j].key
               PROVE  i = j
    BY DEF OnceKey
  <2>1. i + 1 = j + 1
    BY <1>1, <1>2 DEF OnceKey
  <2> QED
    BY <2>1
<1>5. ASSUME NEW c, HasKey(Tail(q), c)
      PROVE  HasKey(q, c) /\ c # Head(q).key
  BY <1>1, <1>2, <1>3, <1>5 DEF HasKey, OnceKey
<1>6. ASSUME NEW c, HasKey(q, c), c # Head(q).key
      PROVE  HasKey(Tail(q), c)
  BY <1>1, <1>3, <1>6 DEF HasKey
<1>7. HasKey(q, Head(q).key)
  BY <1>1, <1>3 DEF HasKey
<1> QED
  BY <1>4, <1>5, <1>6, <1>7

(* A queue without two entries of a collection cannot outgrow its ring,    *)
(* and has room for a collection that is not in it.                        *)
LEMMA Room ==
    ASSUME NEW q \in Seq(Items), OnceKey(q), NEW c \in Collections
    PROVE  /\ MaxDepth \in Nat /\ Len(q) <= MaxDepth
           /\ ~HasKey(q, c) => Len(q) < MaxDepth
<1> DEFINE keys == [i \in 1..Len(q) |-> q[i].key]
<1>1. /\ IsFiniteSet(Collections) /\ MaxDepth \in Nat
      /\ IsFiniteSet(Collections \ {c}) /\ Cardinality(Collections \ {c}) = MaxDepth - 1
  BY MCPSourceAssumption, FS_CardinalityType, FS_RemoveElement DEF MaxDepth
<1>2. Len(q) \in Nat /\ IsFiniteSet(1..Len(q)) /\ Cardinality(1..Len(q)) = Len(q)
  <2>1. Len(q) \in Nat
    OBVIOUS
  <2> HIDE DEF keys
  <2>2. /\ IsFiniteSet(1..Len(q))
        /\ Cardinality(1..Len(q)) = IF 1 > Len(q) THEN 0 ELSE Len(q) - 1 + 1
    BY <2>1, FS_Interval, 1 \in Int, Len(q) \in Int
  <2> QED
    BY <2>1, <2>2
<1>3. keys \in [1..Len(q) -> Collections]
  <2>1. \A i \in 1..Len(q) : q[i] \in Items
    OBVIOUS
  <2>2. \A i \in 1..Len(q) : q[i].key \in Collections
    BY <2>1 DEF Items
  <2> QED
    BY <2>2
<1>4. ~(\E i, j \in 1..Len(q) : i # j /\ keys[i] = keys[j])
  BY DEF OnceKey
<1> HIDE DEF keys
<1>5. ~(MaxDepth < Len(q))
  BY <1>1, <1>2, <1>3, <1>4, FS_PigeonHole DEF MaxDepth
<1>6. ASSUME ~HasKey(q, c) PROVE ~(MaxDepth - 1 < Len(q))
  <2>1. keys \in [1..Len(q) -> Collections \ {c}]
    BY <1>3, <1>6 DEF HasKey, keys
  <2> QED
    BY <1>1, <1>2, <2>1, <1>4, FS_PigeonHole
<1> QED
  BY <1>1, <1>2, <1>5, <1>6

(* Enqueue of a collection that is not queued finds room for its entry and *)
(* for the entry's token.                                                  *)
LEMMA Enqueued ==
    ASSUME NEW q \in Queues, OnceKey(q.items), q.ready <= Len(q.items),
           NEW c \in Collections, ~HasKey(q.items, c),
           NEW v \in [version : Nat, inc : BOOLEAN]
    PROVE  LET r == Enqueue(q, MaxDepth, c, v)
           IN  /\ r \in Queues /\ r.closed = q.closed
               /\ q.closed => r = q
               /\ ~q.closed => /\ r.items = Append(q.items, [key |-> c, val |-> v])
                               /\ r.ready = q.ready + 1
<1>1. Len(q.items) \in Nat /\ MaxDepth \in Nat /\ Len(q.items) < MaxDepth
  BY Room DEF Queues
<1>2. ~Queued(q, c)
  BY DEF Queued, HasKey, Queues
<1>3. CASE q.closed
  BY <1>3 DEF Enqueue
<1>4. CASE ~q.closed
  <2> DEFINE e == [key |-> c, val |-> v]
             new == [q EXCEPT !.items = Append(@, e)]
  <2>1. Enqueue(q, MaxDepth, c, v) = trySchedule(new, MaxDepth)
    BY <1>1, <1>2, <1>4 DEF Enqueue, full
  <2>2. e \in Items
    BY DEF Items
  <2> HIDE DEF e
  <2>3. q.items \in Seq(Items) /\ Append(q.items, e) \in Seq(Items)
    BY <2>2 DEF Queues
  <2>4. /\ new \in Queues /\ new.closed = q.closed /\ new.ready = q.ready
        /\ new.items = Append(q.items, e)
    BY <2>3 DEF Queues
  <2> HIDE DEF new
  <2>5. new.ready \in Nat /\ new.ready < MaxDepth
    BY <1>1, <2>4 DEF Queues
  <2>6. trySchedule(new, MaxDepth) = [new EXCEPT !.ready = new.ready + 1]
    BY <2>5 DEF trySchedule
  <2>7. ASSUME NEW n \in Nat
        PROVE  /\ [new EXCEPT !.ready = n] \in Queues
               /\ [new EXCEPT !.ready = n].ready = n
               /\ [new EXCEPT !.ready = n].items = new.items
               /\ [new EXCEPT !.ready = n].closed = new.closed
    BY <2>4 DEF Queues
  <2>8. new.ready + 1 \in Nat
    BY <2>5
  <2> QED
    BY <1>4, <2>1, <2>4, <2>6, <2>7, <2>8 DEF e
<1> QED
  BY <1>3, <1>4

-----------------------------------------------------------------------------
(* What the actions do to the messages under way and to the queues. *)

(* Streams carry sequences with one entry per collection. *)
Carries(f) ==
    /\ DOMAIN f = Streams
    /\ \A t \in Streams : IsSeq(f[t]) /\ OnceColl(f[t])

(* From f to g, message m is sent on stream s, or the first one received. *)
Sends(f, g, s, m) ==
    /\ Carries(g)
    /\ \A t \in Streams : t # s => g[t] = f[t]
    /\ \A t \in Streams : \A c : HasColl(g[t], c) <=>
          HasColl(f[t], c) \/ (t = s /\ c = m.coll)
    /\ \A t \in Streams : \A i \in 1..Len(g[t]) :
          \/ i \in 1..Len(f[t]) /\ g[t][i] = f[t][i]
          \/ t = s /\ g[t][i] = m
    /\ \A t \in Streams : \A i \in 1..Len(f[t]) :
          i \in 1..Len(g[t]) /\ g[t][i] = f[t][i]

Takes(f, g, s) ==
    /\ Carries(g)
    /\ \A t \in Streams : t # s => g[t] = f[t]
    /\ Head(f[s]) = f[s][1] /\ 1 \in 1..Len(f[s])
    /\ HasColl(f[s], Head(f[s]).coll)
    /\ \A t \in Streams : \A c : HasColl(g[t], c) <=>
          HasColl(f[t], c) /\ ~(t = s /\ c = Head(f[s]).coll)
    /\ \A t \in Streams : \A i \in 1..Len(g[t]) :
          \E j \in 1..Len(f[t]) : g[t][i] = f[t][j] /\ (t = s => j # 1)
    /\ \A t \in Streams : \A j \in 1..Len(f[t]) :
          (t = s => j # 1) => \E i \in 1..Len(g[t]) : g[t][i] = f[t][j]

(* A message is sent on stream s for a collection that has none there. *)
LEMMA NetAppend ==
    ASSUME NEW f, Carries(f), NEW s \in Streams, NEW m, ~HasColl(f[s], m.coll),
           NEW g, g = [f EXCEPT ![s] = Append(@, m)]
    PROVE  Sends(f, g, s, m)
<1>1. DOMAIN g = Streams /\ g[s] = Append(f[s], m) /\ \A t \in Streams : t # s => g[t] = f[t]
  BY DEF Carries
<1>2. IsSeq(f[s]) /\ OnceColl(f[s])
  BY DEF Carries
<1>3. IsSeq(g[s])
  BY <1>1, <1>2, Appended
<1>4. /\ OnceColl(g[s])
      /\ \A c : HasColl(g[s], c) <=> HasColl(f[s], c) \/ c = m.coll
  BY <1>1, <1>2, CollAppended
<1>5. Carries(g)
  <2> SUFFICES ASSUME NEW t \in Streams PROVE IsSeq(g[t]) /\ OnceColl(g[t])
    BY <1>1 DEF Carries
  <2> QED
    BY <1>1, <1>3, <1>4 DEF Carries
<1>6. ASSUME NEW t \in Streams, NEW c
      PROVE  HasColl(g[t], c) <=> HasColl(f[t], c) \/ (t = s /\ c = m.coll)
  BY <1>1, <1>4
<1>7. /\ Len(f[s]) \in Nat /\ Len(g[s]) = Len(f[s]) + 1
      /\ \A i \in 1..Len(f[s]) : g[s][i] = f[s][i]
      /\ g[s][Len(f[s]) + 1] = m
  BY <1>1, <1>2, Appended
<1>8. ASSUME NEW t \in Streams, NEW i \in 1..Len(g[t])
      PROVE  (i \in 1..Len(f[t]) /\ g[t][i] = f[t][i]) \/ (t = s /\ g[t][i] = m)
  <2>1. CASE t = s
    <3>1. i \in 1..Len(f[s]) \/ i = Len(f[s]) + 1
      BY <1>7, <2>1
    <3> QED
      BY <1>7, <2>1, <3>1
  <2> QED
    BY <1>1, <2>1
<1>9. ASSUME NEW t \in Streams, NEW i \in 1..Len(f[t])
      PROVE  i \in 1..Len(g[t]) /\ g[t][i] = f[t][i]
  BY <1>1, <1>7
<1> QED
  BY <1>1, <1>5, <1>6, <1>8, <1>9 DEF Sends

(* The first message of stream s is received. *)
LEMMA NetTail ==
    ASSUME NEW f, Carries(f), NEW s \in Streams, f[s] # <<>>,
           NEW g, g = [f EXCEPT ![s] = Tail(@)]
    PROVE  Takes(f, g, s)
<1>1. DOMAIN g = Streams /\ g[s] = Tail(f[s]) /\ \A t \in Streams : t # s => g[t] = f[t]
  BY DEF Carries
<1>2. IsSeq(f[s]) /\ OnceColl(f[s])
  BY DEF Carries
<1>3. /\ IsSeq(g[s]) /\ Head(f[s]) = f[s][1]
      /\ Len(f[s]) \in Nat /\ Len(f[s]) > 0 /\ Len(g[s]) = Len(f[s]) - 1
      /\ \A i \in 1..Len(g[s]) : g[s][i] = f[s][i + 1]
  BY <1>1, <1>2, Tailed
<1>4. /\ OnceColl(g[s]) /\ HasColl(f[s], Head(f[s]).coll)
      /\ \A c : HasColl(g[s], c) <=> HasColl(f[s], c) /\ c # Head(f[s]).coll
  BY <1>1, <1>2, CollTailed
<1>5. Carries(g)
  <2> SUFFICES ASSUME NEW t \in Streams PROVE IsSeq(g[t]) /\ OnceColl(g[t])
    BY <1>1 DEF Carries
  <2> QED
    BY <1>1, <1>3, <1>4 DEF Carries
<1>6. ASSUME NEW t \in Streams, NEW c
      PROVE  HasColl(g[t], c) <=> HasColl(f[t], c) /\ ~(t = s /\ c = Head(f[s]).coll)
  BY <1>1, <1>4
<1>7. ASSUME NEW t \in Streams, NEW i \in 1..Len(g[t])
      PROVE  \E j \in 1..Len(f[t]) : g[t][i] = f[t][j] /\ (t = s => j # 1)
  <2>1. CASE t = s
    <3>1. i + 1 \in 1..Len(f[s]) /\ i + 1 # 1 /\ g[s][i] = f[s][i + 1]
      BY <1>3, <2>1
    <3> QED
      BY <2>1, <3>1
  <2> QED
    BY <1>1, <2>1
<1>8. ASSUME NEW t \in Streams, NEW j \in 1..Len(f[t]), t = s => j # 1
      PROVE  \E i \in 1..Len(g[t]) : g[t][i] = f[t][j]
  <2>1. CASE t = s
    <3>1. j - 1 \in 1..Len(g[s]) /\ g[s][j - 1] = f[s][j]
      BY <1>3, <1>8, <2>1
    <3> QED
      BY <2>1, <3>1
  <2> QED
    BY <1>1, <2>1
<1>9. 1 \in 1..Len(f[s])
  BY <1>3
<1> QED
  BY <1>1, <1>3, <1>4, <1>5, <1>6, <1>7, <1>8, <1>9 DEF Takes

(* What both directions of the streams are. *)
LEMMA NetCarries ==
    ASSUME NetTypes, OnceInv
    PROVE  Carries(toSource) /\ Carries(toSink)
<1>1. \A t \in Streams : IsSeq(toSource[t])
  BY DEF NetTypes, IsSeq
<1> QED
  BY <1>1 DEF NetTypes, OnceInv, Carries

(* queueResponse for a watch whose collection is not queued: one entry and *)
(* its token, or nothing if the queue is closed.                           *)
LEMMA ResponseQueued ==
    ASSUME QueueTypes, OnceInv, TokenInv, pc \in [Streams -> Phases],
           NEW k \in Watches, NEW v, v \in Generations(k.coll),
           ~HasKey(queue[k.stream].items, k.coll),
           queue' = queueResponse(queue, k, v)
    PROVE  /\ QueueTypes'
           /\ \A t \in Streams : queue'[t].closed = queue[t].closed
           /\ \A t \in Streams : OnceKey(queue'[t].items)
           /\ \A t \in Streams : \A c : HasKey(queue'[t].items, c) <=>
                 \/ HasKey(queue[t].items, c)
                 \/ t = k.stream /\ c = k.coll /\ ~queue[t].closed
           /\ \A t \in Streams : \A n \in {0, 1} :
                 Len(queue[t].items) = queue[t].ready + n =>
                 Len(queue'[t].items) = queue'[t].ready + n
           /\ \A t \in Streams : t # k.stream => queue'[t] = queue[t]
<1> DEFINE s == k.stream
           e == [version |-> v, inc |-> k.inc]
           q == queue[s]
           r == queue'[s]
<1>1. s \in Streams /\ k.coll \in Collections /\ k.inc \in BOOLEAN
  BY DEF Watches
<1>2. v \in Nat
  BY <1>1, MCPSourceAssumption DEF Generations
<1>3. e \in [version : Nat, inc : BOOLEAN]
  BY <1>1, <1>2
<1>4. q \in Queues /\ OnceKey(q.items)
  BY <1>1 DEF QueueTypes, OnceInv
<1>5. q.items \in Seq(Items) /\ Len(q.items) \in Nat /\ q.ready \in Nat /\ q.closed \in BOOLEAN
  BY <1>4 DEF Queues
<1>6. q.ready <= Len(q.items)
  BY <1>1, <1>5 DEF TokenInv
<1>7. /\ DOMAIN queue' = Streams /\ r = Enqueue(q, MaxDepth, k.coll, e)
      /\ \A t \in Streams : t # s => queue'[t] = queue[t]
  BY <1>1 DEF queueResponse, QueueTypes
<1>17. DOMAIN queue' = Streams /\ queue' = [t \in Streams |-> queue'[t]]
  BY <1>1 DEF queueResponse, QueueTypes
<1> HIDE DEF e
<1>8. /\ r \in Queues /\ r.closed = q.closed
      /\ q.closed => r = q
      /\ ~q.closed => /\ r.items = Append(q.items, [key |-> k.coll, val |-> e])
                      /\ r.ready = q.ready + 1
  BY <1>1, <1>3, <1>4, <1>6, <1>7, Enqueued
<1>9. IsSeq(q.items)
  BY <1>5 DEF IsSeq
<1>10. ~q.closed => /\ OnceKey(r.items)
                    /\ \A c : HasKey(r.items, c) <=> HasKey(q.items, c) \/ c = k.coll
  <2> DEFINE m == [key |-> k.coll, val |-> e]
  <2>1. m.key = k.coll
    OBVIOUS
  <2> HIDE DEF m
  <2>2. ~HasKey(q.items, m.key)
    BY <2>1
  <2>3. /\ OnceKey(Append(q.items, m))
        /\ \A c : HasKey(Append(q.items, m), c) <=> HasKey(q.items, c) \/ c = m.key
    BY <1>4, <1>9, <2>2, KeyAppended
  <2> QED
    BY <1>8, <2>1, <2>3 DEF m
<1>11. ~q.closed => /\ Len(r.items) = Len(q.items) + 1
                    /\ \A i \in 1..Len(q.items) : r.items[i] = q.items[i]
                    /\ r.items[Len(q.items) + 1] = [key |-> k.coll, val |-> e]
  <2> DEFINE m == [key |-> k.coll, val |-> e]
  <2> HIDE DEF m
  <2>1. /\ Len(Append(q.items, m)) = Len(q.items) + 1
        /\ \A i \in 1..Len(q.items) : Append(q.items, m)[i] = q.items[i]
        /\ Append(q.items, m)[Len(q.items) + 1] = m
    BY <1>9, Appended
  <2> QED
    BY <1>8, <2>1 DEF m
<1>12. \A i \in 1..Len(r.items) : r.items[i].val.version \in Generations(r.items[i].key)
  <2>1. \A i \in 1..Len(q.items) : q.items[i].val.version \in Generations(q.items[i].key)
    BY <1>1 DEF QueueTypes
  <2>2. CASE q.closed
    BY <1>8, <2>1, <2>2
  <2>3. CASE ~q.closed
    <3> SUFFICES ASSUME NEW i \in 1..Len(r.items)
                 PROVE  r.items[i].val.version \in Generations(r.items[i].key)
      OBVIOUS
    <3>1. i \in 1..Len(q.items) \/ i = Len(q.items) + 1
      BY <1>5, <1>11, <2>3
    <3>2. e.version = v
      BY DEF e
    <3>3. CASE i \in 1..Len(q.items)
      BY <1>11, <2>1, <2>3, <3>3
    <3>4. CASE i = Len(q.items) + 1
      BY <1>11, <2>3, <3>2, <3>4
    <3> QED
      BY <3>1, <3>3, <3>4
  <2> QED
    BY <1>5, <2>2, <2>3
<1>13. QueueTypes'
  <2>1. queue' \in [Streams -> Queues]
    <3>1. \A t \in Streams : queue'[t] \in Queues
      BY <1>7, <1>8 DEF QueueTypes
    <3> QED
      BY <1>17, <3>1
  <2>2. ASSUME NEW t \in Streams, NEW i \in 1..Len(queue'[t].items)
        PROVE  queue'[t].items[i].val.version \in Generations(queue'[t].items[i].key)
    BY <1>7, <1>12 DEF QueueTypes
  <2> QED
    BY <2>1, <2>2 DEF QueueTypes, Generations
<1>14. ASSUME NEW t \in Streams
       PROVE  OnceKey(queue'[t].items) /\ queue'[t].closed = queue[t].closed
  <2>1. CASE t = s
    BY <1>4, <1>5, <1>8, <1>10, <2>1
  <2>2. CASE t # s
    BY <1>7, <2>2 DEF OnceInv
  <2> QED
    BY <2>1, <2>2
<1>15. ASSUME NEW t \in Streams, NEW c
       PROVE  HasKey(queue'[t].items, c) <=>
                 \/ HasKey(queue[t].items, c)
                 \/ t = k.stream /\ c = k.coll /\ ~queue[t].closed
  <2>1. CASE t = s
    <3>1. q.closed \/ ~q.closed
      BY <1>5
    <3> QED
      BY <1>8, <1>10, <2>1, <3>1
  <2>2. CASE t # s
    BY <1>7, <2>2
  <2> QED
    BY <2>1, <2>2
<1>16. ASSUME NEW t \in Streams, NEW n \in {0, 1}, Len(queue[t].items) = queue[t].ready + n
       PROVE  Len(queue'[t].items) = queue'[t].ready + n
  <2>1. CASE t = s
    <3>1. CASE q.closed
      BY <1>8, <1>16, <2>1, <3>1
    <3>2. CASE ~q.closed
      <4>1. Len(r.items) = Len(q.items) + 1 /\ r.ready = q.ready + 1
        BY <1>8, <1>11, <3>2
      <4>2. Len(q.items) = q.ready + n
        BY <1>16, <2>1
      <4>3. Len(r.items) = r.ready + n
        BY <1>5, <4>1, <4>2
      <4> QED
        BY <2>1, <4>3
    <3> QED
      BY <1>5, <3>1, <3>2
  <2>2. CASE t # s
    BY <1>7, <1>16, <2>2
  <2> QED
    BY <2>1, <2>2
<1> QED
  BY <1>7, <1>13, <1>14, <1>15, <1>16

(* w becomes the push state of collection c of stream s. *)
WatchSet(s, c, w) ==
    /\ DOMAIN watch' = Streams /\ \A t \in Streams : DOMAIN watch'[t] = Collections
    /\ watch'[s][c] = w
    /\ \A t \in Streams, d \in Collections : t # s \/ d # c => watch'[t][d] = watch[t][d]

(* A delta, applied to what the sink acknowledged, gives the resources of  *)
(* the version it is sent for, and so does a full response.                *)
LEMMA DeltaTracks ==
    ASSUME NEW c, NEW resp, NEW w, NEW n
    PROVE  Same(Track(w.acked, Message(c, resp, w, n)), Resources(c, resp.version))
<1> DEFINE all == Resources(c, resp.version)
           acked == w.acked
           delta == calculateDelta(all, acked)
           m == Message(c, resp, w, n)
<1> HIDE DEF all, acked
<1>1. CASE c \in IncSource /\ resp.inc
  <2>1. m.inc /\ m.added = delta.added /\ m.removed = delta.removed
    BY <1>1 DEF Message, all, acked
  <2>2. /\ delta.removed = DOMAIN acked \ DOMAIN all
        /\ DOMAIN delta.added = {x \in DOMAIN all : x \notin DOMAIN acked \/ acked[x] # all[x]}
        /\ \A x \in DOMAIN delta.added : delta.added[x] = all[x]
    BY DEF calculateDelta
  <2> HIDE DEF delta, m
  <2>3. /\ DOMAIN Track(acked, m) = (DOMAIN acked \cup DOMAIN m.added) \ m.removed
        /\ \A x \in DOMAIN Track(acked, m) :
              Track(acked, m)[x] = IF x \in DOMAIN m.added THEN m.added[x] ELSE acked[x]
    BY <2>1 DEF Track
  <2>4. DOMAIN Track(acked, m) = DOMAIN all
    BY <2>1, <2>2, <2>3
  <2>5. \A x \in DOMAIN all : Track(acked, m)[x] = all[x]
    BY <2>1, <2>2, <2>3, <2>4
  <2> QED
    BY <2>4, <2>5 DEF Same, all, acked, m
<1>2. CASE ~(c \in IncSource /\ resp.inc)
  <2>1. ~m.inc /\ m.added = all
    BY <1>2 DEF Message, all
  <2> HIDE DEF m
  <2>2. Track(acked, m) = all
    BY <2>1 DEF Track
  <2> QED
    BY <2>2 DEF Same, all, acked, m
<1> QED
  BY <1>1, <1>2

(* The entry PushServerResponse dequeues and the message it sends. *)
Entry(s) == Head(queue[s].items)
Response(s) == Message(Entry(s).key, Entry(s).val, watch[s][Entry(s).key], streamNonce[s] + 1)

(* PushServerResponse takes the entry from the queue, sends one message    *)
(* with a new nonce and records it as pending.                             *)
LEMMA Pushed ==
    ASSUME MCPInv, NEW s \in Streams, PushServerResponse(s)
    PROVE  LET c == Entry(s).key
               m == Response(s)
               w == watch[s][c]
           IN  /\ c \in Collections /\ HasKey(queue[s].items, c)
               /\ QueueTypes'
               /\ \A t \in Streams : queue'[t].closed = queue[t].closed /\ OnceKey(queue'[t].items)
               /\ \A t \in Streams : \A d : HasKey(queue'[t].items, d) <=>
                     HasKey(queue[t].items, d) /\ ~(t = s /\ d = c)
               /\ Len(queue'[s].items) = Len(queue[s].items) - 1
               /\ queue'[s].ready = queue[s].ready
               /\ \A t \in Streams : t # s => queue'[t] = queue[t]
               /\ IsMessage(m) /\ m.coll = c /\ m.nonce # 0
               /\ Same(Track(w.acked, m), Resources(c, m.version))
               /\ \/ /\ pc' = [pc EXCEPT ![s] = "select"]
                     /\ WatchSet(s, c, [pending |-> m, acked |-> w.acked, cancel |-> w.cancel])
                     /\ toSink' = IF broken[s] THEN toSink
                                  ELSE [toSink EXCEPT ![s] = Append(@, m)]
                  \/ /\ broken[s] /\ pc' = [pc EXCEPT ![s] = "closing"]
                     /\ UNCHANGED <<watch, toSink>>
<1> DEFINE c == Entry(s).key
           m == Response(s)
           w == watch[s][c]
           q == queue[s]
<1>1. q \in Queues /\ q.items \in Seq(Items) /\ q.items # <<>> /\ OnceKey(q.items)
  BY DEF PushServerResponse, MCPInv, QueueTypes, OnceInv, Queues
<1>2. IsSeq(q.items)
  BY <1>1 DEF IsSeq
<1>3. /\ Len(q.items) \in Nat /\ Len(q.items) > 0 /\ Len(Tail(q.items)) = Len(q.items) - 1
      /\ \A i \in 1..Len(Tail(q.items)) : Tail(q.items)[i] = q.items[i + 1]
      /\ Entry(s) = q.items[1]
  BY <1>1, <1>2, Tailed DEF Entry
<1>4. /\ OnceKey(Tail(q.items)) /\ HasKey(q.items, c)
      /\ \A d : HasKey(Tail(q.items), d) <=> HasKey(q.items, d) /\ d # c
  BY <1>1, <1>2, KeyTailed DEF Entry
<1>5. 1 \in 1..Len(q.items)
  BY <1>3
<1>6. Entry(s) \in Items
  BY <1>1, <1>3, <1>5
<1>7. c \in Collections /\ Entry(s).val.version \in Nat /\ Entry(s).val.inc \in BOOLEAN
  BY <1>6 DEF Items
<1>8. Entry(s).val.version \in Generations(c)
  BY <1>3, <1>5 DEF MCPInv, QueueTypes
<1>9. queue' = [queue EXCEPT ![s] = Dequeue(queue[s])]
  BY DEF PushServerResponse
<1>10. Tail(q.items) \in Seq(Items)
  BY <1>1
<1>11. /\ Dequeue(q) \in Queues /\ Dequeue(q).items = Tail(q.items)
       /\ Dequeue(q).ready = q.ready /\ Dequeue(q).closed = q.closed
  BY <1>1, <1>10 DEF Dequeue, Queues
<1>12. /\ queue' \in [Streams -> Queues] /\ queue'[s] = Dequeue(q)
       /\ \A t \in Streams : t # s => queue'[t] = queue[t]
  BY <1>9, <1>11 DEF MCPInv, QueueTypes
<1>13. QueueTypes'
  <2>1. ASSUME NEW i \in 1..Len(Tail(q.items))
        PROVE  Tail(q.items)[i].val.version \in Generations(Tail(q.items)[i].key)
    <3>1. i + 1 \in 1..Len(q.items) /\ Tail(q.items)[i] = q.items[i + 1]
      BY <1>3
    <3> QED
      BY <3>1 DEF MCPInv, QueueTypes
  <2>2. ASSUME NEW t \in Streams, NEW i \in 1..Len(queue'[t].items)
        PROVE  queue'[t].items[i].val.version \in Generations(queue'[t].items[i].key)
    BY <1>11, <1>12, <2>1 DEF MCPInv, QueueTypes
  <2> QED
    BY <1>12, <2>2 DEF QueueTypes, Generations
<1>14. ASSUME NEW t \in Streams
       PROVE  queue'[t].closed = queue[t].closed /\ OnceKey(queue'[t].items)
  BY <1>4, <1>11, <1>12 DEF MCPInv, OnceInv
<1>15. ASSUME NEW t \in Streams, NEW d
       PROVE  HasKey(queue'[t].items, d) <=> HasKey(queue[t].items, d) /\ ~(t = s /\ d = c)
  BY <1>4, <1>11, <1>12
<1>16. IsMessage(m) /\ m.coll = c /\ m.nonce # 0 /\ m.version = Entry(s).val.version
  <2>1. streamNonce[s] \in Nat
    BY DEF MCPInv, ConTypes
  <2>2. streamNonce[s] + 1 \in Nat /\ streamNonce[s] + 1 # 0
    BY <2>1
  <2>3. /\ m.coll = c /\ m.version = Entry(s).val.version
        /\ m.nonce = streamNonce[s] + 1 /\ m.inc = (c \in IncSource /\ Entry(s).val.inc)
    BY DEF Response, Message
  <2>4. m.inc \in BOOLEAN
    BY <2>3
  <2> HIDE DEF m
  <2> QED
    BY <1>7, <1>8, <2>2, <2>3, <2>4 DEF IsMessage
<1>17. Same(Track(w.acked, m), Resources(c, m.version))
  BY <1>16, DeltaTracks DEF Response
<1>18. \/ /\ pc' = [pc EXCEPT ![s] = "select"]
          /\ watch' = [watch EXCEPT ![s][c] = [pending |-> m, acked |-> w.acked, cancel |-> w.cancel]]
          /\ toSink' = IF broken[s] THEN toSink ELSE [toSink EXCEPT ![s] = Append(@, m)]
       \/ /\ broken[s] /\ pc' = [pc EXCEPT ![s] = "closing"]
          /\ UNCHANGED <<watch, toSink>>
  BY DEF PushServerResponse, Entry, Response
<1>19. ASSUME NEW x, watch' = [watch EXCEPT ![s][c] = x]
       PROVE  WatchSet(s, c, x)
  BY <1>7, <1>19 DEF WatchSet, MCPInv, ConTypes
<1> HIDE DEF c, m, w
<1> QED
  BY <1>4, <1>7, <1>11, <1>12, <1>3, <1>13, <1>14, <1>15, <1>16, <1>17, <1>18, <1>19 DEF c, m, w

(* The request processClientRequest takes and the watch it asks for. *)
Req(s) == Head(toSource[s])
Push(s) == watch[s][Req(s).coll]
Asked(s) ==
    [stream |-> s, coll |-> Req(s).coll, inc |-> Req(s).inc,
     version |-> IF Push(s).pending = NoMsg THEN 0 ELSE Push(s).pending.version]

(* processClientRequest takes an answer to what is pending and asks the    *)
(* cache for the next: one entry in the queue, or one more open watch.     *)
LEMMA Processed ==
    ASSUME MCPInv, NEW s \in Streams, ProcessClientRequest(s)
    PROVE  LET c == Req(s).coll
               w == Push(s)
               k == Asked(s)
           IN  /\ pc[s] = "select" /\ toSource[s] # <<>>
               /\ toSource' = [toSource EXCEPT ![s] = Tail(@)]
               /\ UNCHANGED <<snapshot, published, answering, pc, streamNonce, toSink, broken>>
               /\ Req(s) \in Requests /\ Req(s) = toSource[s][1] /\ 1 \in 1..Len(toSource[s])
               /\ Req(s).nonce = w.pending.nonce
               /\ c \in Collections /\ HasColl(toSource[s], c)
               /\ ~Watched(s, c) /\ ~HasKey(queue[s].items, c)
               /\ k \in Watches /\ k.stream = s /\ k.coll = c /\ k.version \in Generations(c)
               /\ k.version = IF w.pending = NoMsg THEN 0 ELSE w.pending.version
               /\ answering = {}
               /\ WatchSet(s, c, [pending |-> NoMsg, cancel |-> ~Answered(k),
                                  acked |-> IF w.pending # NoMsg /\ ~Req(s).nack
                                            THEN Track(w.acked, w.pending) ELSE w.acked])
               /\ \/ /\ Answered(k) /\ openWatches' = openWatches
                     /\ queue' = queueResponse(queue, k, snapshot[c])
                     /\ snapshot[c] \in Generations(c)
                  \/ ~Answered(k) /\ openWatches' = openWatches \cup {k} /\ queue' = queue
<1> DEFINE c == Req(s).coll
           w == Push(s)
           k == Asked(s)
           new == [pending |-> NoMsg, cancel |-> ~Answered(k),
                   acked |-> IF w.pending # NoMsg /\ ~Req(s).nack
                             THEN Track(w.acked, w.pending) ELSE w.acked]
<1>1. /\ pc[s] = "select" /\ toSource[s] # <<>>
      /\ toSource' = [toSource EXCEPT ![s] = Tail(@)]
      /\ UNCHANGED <<snapshot, published, answering, pc, streamNonce, toSink, broken>>
  BY DEF ProcessClientRequest
<1>2. Carries(toSource)
  BY NetCarries DEF MCPInv
<1>3. /\ Req(s) = toSource[s][1] /\ 1 \in 1..Len(toSource[s]) /\ HasColl(toSource[s], c)
  <2>1. Takes(toSource, toSource', s)
    BY <1>1, <1>2, NetTail
  <2> QED
    BY <2>1 DEF Req, Takes
<1>4. Req(s) \in Requests
  <2>1. toSource[s] \in Seq(Requests)
    BY DEF MCPInv, NetTypes
  <2> QED
    BY <1>3, <2>1
<1>5. c \in Collections /\ Req(s).inc \in BOOLEAN
  BY <1>4 DEF Requests
<1>6. Req(s).nonce = w.pending.nonce
  BY <1>3 DEF MCPInv, NonceInv, Push
<1>7. ~Watched(s, c) /\ ~HasKey(queue[s].items, c)
  BY <1>3, <1>5 DEF MCPInv, ApartInv
<1>8. k.version \in Generations(c) /\ k.version \in Nat
  <2>1. w.pending = NoMsg \/ (IsMessage(w.pending) /\ w.pending.coll = c)
    BY <1>5 DEF MCPInv, ConTypes, Push
  <2>2. 0 \in Generations(c) /\ Generations(c) \subseteq Nat
    BY <1>5, MCPSourceAssumption DEF Generations
  <2>3. k.version = IF w.pending = NoMsg THEN 0 ELSE w.pending.version
    BY DEF Asked
  <2> QED
    BY <2>1, <2>2, <2>3 DEF IsMessage
<1>9. k \in Watches /\ k.stream = s /\ k.coll = c
  BY <1>5, <1>8 DEF Watches, Asked
<1>10. Uncancelled(s, {c}) = openWatches
  BY <1>7 DEF Uncancelled, Watched
<1>11. Watch(k, Uncancelled(s, {c})) /\ watch' = [watch EXCEPT ![s][c] = new]
  <2>1. Req(s).nonce = 0 \/ Req(s).nonce = PendingNonce(w)
    BY <1>6 DEF PendingNonce
  <2> QED
    BY <2>1 DEF ProcessClientRequest, Req, Push, Asked
<1>12. WatchSet(s, c, new)
  <2> HIDE DEF new, c
  <2> QED
    BY <1>5, <1>11 DEF WatchSet, MCPInv, ConTypes
<1>13. /\ answering = {}
       /\ \/ /\ Answered(k) /\ openWatches' = openWatches
             /\ queue' = queueResponse(queue, k, snapshot[c])
          \/ ~Answered(k) /\ openWatches' = openWatches \cup {k} /\ queue' = queue
  <2> HIDE DEF k, c
  <2> QED
    BY <1>9, <1>10, <1>11 DEF Watch
<1>14. Answered(k) => snapshot[c] \in Generations(c)
  BY <1>5, <1>9 DEF MCPInv, CacheTypes, Answered
<1>15. k.version = IF w.pending = NoMsg THEN 0 ELSE w.pending.version
  BY DEF Asked
<1> HIDE DEF c, w, k
<1> QED
  BY <1>1, <1>3, <1>4, <1>5, <1>6, <1>7, <1>8, <1>9, <1>12, <1>13, <1>14, <1>15 DEF c, w, k

(* What both do to the push state, field by field. *)
LEMMA PushedWatch ==
    ASSUME MCPInv, NEW s \in Streams, PushServerResponse(s)
    PROVE  LET c == Entry(s).key
           IN  \/ /\ \A t \in Streams, d \in Collections :
                        t # s \/ d # c => watch'[t][d] = watch[t][d]
                  /\ watch'[s][c].pending = Response(s)
                  /\ watch'[s][c].acked = watch[s][c].acked
                  /\ watch'[s][c].cancel = watch[s][c].cancel
                  /\ toSink' = IF broken[s] THEN toSink
                               ELSE [toSink EXCEPT ![s] = Append(@, Response(s))]
               \/ broken[s] /\ UNCHANGED <<watch, toSink>>
<1> DEFINE c == Entry(s).key
           w == [pending |-> Response(s), acked |-> watch[s][c].acked, cancel |-> watch[s][c].cancel]
<1>1. \/ /\ WatchSet(s, c, w)
         /\ toSink' = IF broken[s] THEN toSink ELSE [toSink EXCEPT ![s] = Append(@, Response(s))]
      \/ broken[s] /\ UNCHANGED <<watch, toSink>>
  BY Pushed
<1>2. w.pending = Response(s) /\ w.acked = watch[s][c].acked /\ w.cancel = watch[s][c].cancel
  OBVIOUS
<1> HIDE DEF w, c
<1>3. CASE WatchSet(s, c, w)
  <2>1. watch'[s][c] = w
    BY <1>3 DEF WatchSet
  <2>2. \A t \in Streams, d \in Collections : t # s \/ d # c => watch'[t][d] = watch[t][d]
    BY <1>3 DEF WatchSet
  <2> QED
    BY <1>1, <1>2, <2>1, <2>2 DEF c
<1> QED
  BY <1>1, <1>3 DEF c

(* A request clears pending, and an ACK records what was acknowledged. *)
LEMMA ProcessedWatch ==
    ASSUME MCPInv, NEW s \in Streams, ProcessClientRequest(s)
    PROVE  LET c == Req(s).coll
               w == Push(s)
           IN  /\ \A t \in Streams, d \in Collections :
                     t # s \/ d # c => watch'[t][d] = watch[t][d]
               /\ watch'[s][c].pending = NoMsg
               /\ watch'[s][c].cancel <=> ~Answered(Asked(s))
               /\ watch'[s][c].acked = IF w.pending # NoMsg /\ ~Req(s).nack
                                       THEN Track(w.acked, w.pending) ELSE w.acked
<1> DEFINE c == Req(s).coll
           w == Push(s)
           new == [pending |-> NoMsg, cancel |-> ~Answered(Asked(s)),
                   acked |-> IF w.pending # NoMsg /\ ~Req(s).nack
                             THEN Track(w.acked, w.pending) ELSE w.acked]
<1>1. WatchSet(s, c, new)
  BY Processed
<1>2. /\ new.pending = NoMsg
      /\ new.acked = IF w.pending # NoMsg /\ ~Req(s).nack
                     THEN Track(w.acked, w.pending) ELSE w.acked
  OBVIOUS
<1>3. new.cancel <=> ~Answered(Asked(s))
  BY DEF Answered
<1> HIDE DEF new, w, c
<1>4. watch'[s][c] = new
  BY <1>1 DEF WatchSet
<1>5. \A t \in Streams, d \in Collections : t # s \/ d # c => watch'[t][d] = watch[t][d]
  BY <1>1 DEF WatchSet
<1> QED
  BY <1>2, <1>3, <1>4, <1>5 DEF c, w

(* The response the sink receives. *)
Heard == Head(toSink[stream])

Exchanged(req) ==
    LET c == Heard.coll
    IN  /\ stream \in Streams /\ c \in Collections /\ HasColl(toSink[stream], c)
        /\ Heard = toSink[stream][1] /\ 1 \in 1..Len(toSink[stream])
        /\ IsMessage(Heard) /\ Heard.nonce # 0
        /\ Carries(toSink') /\ Carries(toSource')
        /\ \A t \in Streams : \A d : HasColl(toSink'[t], d) <=>
              HasColl(toSink[t], d) /\ ~(t = stream /\ d = c)
        /\ \A t \in Streams : \A d : HasColl(toSource'[t], d) <=>
              HasColl(toSource[t], d) \/ (t = stream /\ d = c /\ ~broken[stream])
        /\ \A t \in Streams : \A i \in 1..Len(toSink'[t]) :
              \E j \in 1..Len(toSink[t]) : toSink'[t][i] = toSink[t][j]
        /\ \A t \in Streams : \A i \in 1..Len(toSource'[t]) :
              \/ i \in 1..Len(toSource[t]) /\ toSource'[t][i] = toSource[t][i]
              \/ t = stream /\ ~broken[stream] /\ toSource'[t][i] = req
        /\ \A t \in Streams : \A i \in 1..Len(toSource[t]) :
              i \in 1..Len(toSource'[t]) /\ toSource'[t][i] = toSource[t][i]
        /\ toSource' \in [Streams -> Seq(Requests)]

(* The sink takes one response and sends one answer, unless the stream has *)
(* broken.                                                                 *)
LEMMA Received ==
    ASSUME MCPInv, stream # 0, toSink[stream] # <<>>,
           toSink' = [toSink EXCEPT ![stream] = Tail(@)],
           NEW req \in Requests, req.coll = Heard.coll, Answer(req)
    PROVE  Exchanged(req)
<1>1. stream \in Streams
  BY MCPSourceAssumption DEF MCPInv, SinkTypes, Streams
<1>2. Carries(toSink) /\ Carries(toSource)
  BY NetCarries DEF MCPInv
<1>3. /\ Heard = toSink[stream][1] /\ 1 \in 1..Len(toSink[stream])
      /\ HasColl(toSink[stream], Heard.coll)
      /\ Carries(toSink')
      /\ \A t \in Streams : \A d : HasColl(toSink'[t], d) <=>
            HasColl(toSink[t], d) /\ ~(t = stream /\ d = Heard.coll)
      /\ \A t \in Streams : \A i \in 1..Len(toSink'[t]) :
            \E j \in 1..Len(toSink[t]) : toSink'[t][i] = toSink[t][j] /\ (t = stream => j # 1)
  <2>1. Takes(toSink, toSink', stream)
    BY <1>1, <1>2, NetTail
  <2> QED
    BY <2>1 DEF Heard, Takes
<1>4. IsMessage(Heard) /\ Heard.nonce # 0 /\ Heard.coll \in Collections
  BY <1>1, <1>3 DEF MCPInv, NetTypes, IsMessage
<1>5. ~HasColl(toSource[stream], req.coll)
  BY <1>1, <1>3, <1>4 DEF MCPInv, ApartInv
<1>6. \A t \in Streams : \A i \in 1..Len(toSink'[t]) :
         \E j \in 1..Len(toSink[t]) : toSink'[t][i] = toSink[t][j]
  BY <1>3
<1>7. CASE broken[stream]
  <2>1. toSource' = toSource
    BY <1>7 DEF Answer
  <2>2. toSource' \in [Streams -> Seq(Requests)]
    BY <2>1 DEF MCPInv, NetTypes
  <2> QED
    BY <1>1, <1>2, <1>3, <1>4, <1>7, <1>6, <2>1, <2>2 DEF Exchanged
<1>8. CASE ~broken[stream]
  <2>1. toSource' = [toSource EXCEPT ![stream] = Append(@, req)]
    BY <1>8 DEF Answer
  <2>2. /\ Carries(toSource')
        /\ \A t \in Streams : \A d : HasColl(toSource'[t], d) <=>
              HasColl(toSource[t], d) \/ (t = stream /\ d = req.coll)
        /\ \A t \in Streams : \A i \in 1..Len(toSource'[t]) :
              \/ i \in 1..Len(toSource[t]) /\ toSource'[t][i] = toSource[t][i]
              \/ t = stream /\ toSource'[t][i] = req
        /\ \A t \in Streams : \A i \in 1..Len(toSource[t]) :
              i \in 1..Len(toSource'[t]) /\ toSource'[t][i] = toSource[t][i]
    <3>1. Sends(toSource, toSource', stream, req)
      BY <1>1, <1>2, <1>5, <2>1, NetAppend
    <3> QED
      BY <3>1 DEF Sends
  <2>3. toSource' \in [Streams -> Seq(Requests)]
    <3>1. toSource \in [Streams -> Seq(Requests)]
      BY DEF MCPInv, NetTypes
    <3>2. Append(toSource[stream], req) \in Seq(Requests)
      BY <1>1, <3>1
    <3> QED
      BY <2>1, <3>1, <3>2
  <2>4. /\ \A t \in Streams : \A d : HasColl(toSource'[t], d) <=>
              HasColl(toSource[t], d) \/ (t = stream /\ d = Heard.coll /\ ~broken[stream])
        /\ \A t \in Streams : \A i \in 1..Len(toSource'[t]) :
              \/ i \in 1..Len(toSource[t]) /\ toSource'[t][i] = toSource[t][i]
              \/ t = stream /\ ~broken[stream] /\ toSource'[t][i] = req
    BY <1>8, <2>2
  <2> QED
    BY <1>1, <1>3, <1>4, <1>6, <2>2, <2>3, <2>4 DEF Exchanged
<1>9. broken[stream] \in BOOLEAN
  BY <1>1 DEF MCPInv, NetTypes
<1> QED
  BY <1>7, <1>8, <1>9

(* The initial request the sink sends. *)
LEMMA InitialSent ==
    ASSUME MCPInv, stream # 0, NEW c \in initial,
           toSource' = [toSource EXCEPT ![stream] =
               Append(@, Request(c, 0, FALSE, c \in IncSink))]
    PROVE  /\ stream \in Streams /\ c \in Collections
           /\ Carries(toSource')
           /\ \A t \in Streams : \A d : HasColl(toSource'[t], d) <=>
                 HasColl(toSource[t], d) \/ (t = stream /\ d = c)
           /\ \A t \in Streams : \A i \in 1..Len(toSource'[t]) :
                 \/ i \in 1..Len(toSource[t]) /\ toSource'[t][i] = toSource[t][i]
                 \/ t = stream /\ toSource'[t][i] = Request(c, 0, FALSE, c \in IncSink)
           /\ toSource' \in [Streams -> Seq(Requests)]
<1> DEFINE req == Request(c, 0, FALSE, c \in IncSink)
<1>1. stream \in Streams /\ c \in Collections
  BY MCPSourceAssumption DEF MCPInv, SinkTypes, Streams
<1>2. req \in Requests /\ req.coll = c
  BY <1>1 DEF Requests, Request
<1>3. Carries(toSource)
  BY NetCarries DEF MCPInv
<1>4. ~HasColl(toSource[stream], req.coll)
  BY <1>1, <1>2 DEF MCPInv, ApartInv, Asking
<1> HIDE DEF req
<1>5. toSource' = [toSource EXCEPT ![stream] = Append(@, req)]
  BY DEF req
<1>6. /\ Carries(toSource')
      /\ \A t \in Streams : \A d : HasColl(toSource'[t], d) <=>
            HasColl(toSource[t], d) \/ (t = stream /\ d = req.coll)
      /\ \A t \in Streams : \A i \in 1..Len(toSource'[t]) :
            \/ i \in 1..Len(toSource[t]) /\ toSource'[t][i] = toSource[t][i]
            \/ t = stream /\ toSource'[t][i] = req
  <2>1. Sends(toSource, toSource', stream, req)
    BY <1>1, <1>3, <1>4, <1>5, NetAppend
  <2> QED
    BY <2>1 DEF Sends
<1>7. toSource' \in [Streams -> Seq(Requests)]
  <2>1. toSource \in [Streams -> Seq(Requests)]
    BY DEF MCPInv, NetTypes
  <2>2. Append(toSource[stream], req) \in Seq(Requests)
    BY <1>1, <1>2, <2>1
  <2> QED
    BY <1>5, <2>1, <2>2
<1> QED
  BY <1>1, <1>2, <1>6, <1>7 DEF req

(* The exchange when the change is accepted, and when it is rejected. *)
Ack == Request(Heard.coll, Heard.nonce, FALSE, Heard.coll \in IncSink)
Nack == Request(Heard.coll, Heard.nonce, TRUE, FALSE)

(* HandleResponse answers with an ACK, RejectResponse with a NACK. *)
LEMMA Handled ==
    ASSUME MCPInv, HandleResponse \/ RejectResponse
    PROVE  /\ HandleResponse => Exchanged(Ack)
           /\ RejectResponse => Exchanged(Nack)
           /\ Ack.coll = Heard.coll /\ Ack.nonce = Heard.nonce /\ ~Ack.nack
           /\ Nack.coll = Heard.coll /\ Nack.nonce = Heard.nonce /\ Nack.nack
<1>1. /\ stream # 0 /\ toSink[stream] # <<>>
      /\ toSink' = [toSink EXCEPT ![stream] = Tail(@)]
  BY DEF HandleResponse, RejectResponse
<1>2. stream \in Streams
  BY <1>1, MCPSourceAssumption DEF MCPInv, SinkTypes, Streams
<1>3. IsMessage(Heard)
  <2>1. Takes(toSink, toSink', stream)
    BY <1>1, <1>2, NetCarries, NetTail DEF MCPInv
  <2> QED
    BY <1>2, <2>1 DEF Takes, Heard, MCPInv, NetTypes
<1>4. /\ Ack \in Requests /\ Ack.coll = Heard.coll /\ Ack.nonce = Heard.nonce /\ ~Ack.nack
      /\ Nack \in Requests /\ Nack.coll = Heard.coll /\ Nack.nonce = Heard.nonce /\ Nack.nack
  BY <1>3 DEF Ack, Nack, Request, Requests, IsMessage
<1>5. ASSUME HandleResponse PROVE Exchanged(Ack)
  <2>1. Answer(Ack)
    BY <1>5 DEF HandleResponse, Heard, Ack
  <2> QED
    BY <1>1, <1>4, <2>1, Received
<1>6. ASSUME RejectResponse PROVE Exchanged(Nack)
  <2>1. Answer(Nack)
    BY <1>6 DEF RejectResponse, Heard, Nack
  <2> QED
    BY <1>1, <1>4, <2>1, Received
<1> QED
  BY <1>4, <1>5, <1>6

-----------------------------------------------------------------------------
(* The parts of the invariant, one by one. *)

(* Generations of a collection are numbers, and start with 0. *)
LEMMA GenerationsNat ==
    ASSUME NEW c \in Collections
    PROVE  0 \in Generations(c) /\ Generations(c) \subseteq Nat
BY MCPSourceAssumption DEF Generations

(* Every step keeps the types of the cache, and SetSnapshot answers with   *)
(* the snapshot it set.                                                    *)
LEMMA CacheTypesStep ==
    ASSUME MCPInv, [Next]_vars
    PROVE  CacheTypes'
<1> USE DEF CacheTypes
<1>1. CASE UNCHANGED cacheVars
  BY <1>1 DEF cacheVars, MCPInv, Generations
<1>2. CASE Publish
  <2>1. PICK changed \in SUBSET Collections :
           /\ \A c \in changed : published[c] < Len(Contents[c])
           /\ published' = [c \in Collections |->
                IF c \in changed THEN published[c] + 1 ELSE published[c]]
    BY <1>2 DEF Publish
  <2>2. ASSUME NEW c \in Collections PROVE published'[c] \in Generations(c) /\ published'[c] \in Nat
    <3>1. published[c] \in Nat /\ published[c] \in Generations(c) /\ Len(Contents[c]) \in Nat
      BY MCPSourceAssumption DEF MCPInv
    <3>2. published'[c] = IF c \in changed THEN published[c] + 1 ELSE published[c]
      BY <2>1
    <3> QED
      BY <2>1, <3>1, <3>2 DEF Generations
  <2>3. published' \in [Collections -> Nat]
    BY <2>1, <2>2
  <2>4. /\ snapshot' = published' /\ openWatches' = openWatches
        /\ answering' \subseteq openWatches
    BY <1>2 DEF Publish, SetSnapshot
  <2> QED
    BY <2>2, <2>3, <2>4 DEF MCPInv, Generations
<1>3. CASE AnswerWatch
  BY <1>3 DEF AnswerWatch, MCPInv, Generations
<1>4. CASE ClearSnapshot
  BY <1>4 DEF ClearSnapshot, MCPInv, Generations
<1>5. CASE ClearStatus
  BY <1>5 DEF ClearStatus, MCPInv, Generations
<1>6. ASSUME NEW s \in Streams, ProcessClientRequest(s) PROVE CacheTypes'
  <2> DEFINE k == Asked(s)
  <2>1. /\ UNCHANGED <<snapshot, published, answering>>
        /\ k \in Watches /\ k.version \in Generations(k.coll)
        /\ openWatches' = openWatches \/ openWatches' = openWatches \cup {k}
    BY <1>6, Processed
  <2> HIDE DEF k
  <2> QED
    BY <2>1 DEF MCPInv, Generations
<1>7. ASSUME NEW s \in Streams, CloseConnection(s) PROVE CacheTypes'
  <2>1. openWatches' \subseteq openWatches /\ UNCHANGED <<snapshot, published, answering>>
    BY <1>7 DEF CloseConnection, Uncancelled
  <2>2. answering \subseteq openWatches'
    <3>1. CASE answering = {}
      BY <3>1
    <3>2. CASE ~(\E c \in Collections : watch[s][c].cancel)
      BY <1>7, <3>2 DEF CloseConnection, Uncancelled, MCPInv, Watches
    <3> QED
      BY <1>7, <3>1, <3>2 DEF CloseConnection
  <2> QED
    BY <2>1, <2>2 DEF MCPInv, Generations
<1> QED
  BY <1>1, <1>2, <1>3, <1>4, <1>5, <1>6, <1>7
  DEF Next, vars, sourceVars, SourceRuns, SourceStep, SinkStep, TakeReady, PushServerResponse,
      ProcessStreamReturns, EstablishResourceStream, SendInitialRequest, HandleResponse,
      RejectResponse, SinkStreamEnds, StreamBreaks

(* Every step keeps the types of the queues. *)
LEMMA QueueTypesStep ==
    ASSUME MCPInv, [Next]_vars
    PROVE  QueueTypes'
<1> USE DEF QueueTypes
<1>1. CASE UNCHANGED queue
  BY <1>1 DEF MCPInv, Generations
<1>2. ASSUME NEW s \in Streams, TakeReady(s) PROVE QueueTypes'
  <2>1. queue[s] \in Queues /\ queue[s].ready \in Nat /\ queue[s].ready > 0
    BY <1>2 DEF TakeReady, MCPInv, Queues
  <2>2. queue[s].ready - 1 \in Nat
    BY <2>1
  <2>3. TakeToken(queue[s]) \in Queues /\ TakeToken(queue[s]).items = queue[s].items
    BY <2>1, <2>2 DEF TakeToken, Queues
  <2>4. queue' = [queue EXCEPT ![s] = TakeToken(queue[s])]
    BY <1>2 DEF TakeReady
  <2>5. queue' \in [Streams -> Queues] /\ \A t \in Streams : queue'[t].items = queue[t].items
    BY <2>3, <2>4 DEF MCPInv
  <2> QED
    BY <2>5 DEF MCPInv, Generations
<1>3. ASSUME NEW s \in Streams, PushServerResponse(s) PROVE QueueTypes'
  BY <1>3, Pushed
<1>4. ASSUME NEW s \in Streams, ProcessClientRequest(s) PROVE QueueTypes'
  <2> DEFINE k == Asked(s)
  <2>0. /\ k \in Watches /\ ~HasKey(queue[s].items, Req(s).coll)
        /\ k.stream = s /\ k.coll = Req(s).coll
        /\ \/ /\ queue' = queueResponse(queue, k, snapshot[Req(s).coll])
              /\ snapshot[Req(s).coll] \in Generations(Req(s).coll)
           \/ UNCHANGED queue
    BY <1>4, Processed
  <2>1. /\ k \in Watches /\ ~HasKey(queue[k.stream].items, k.coll)
        /\ \/ /\ queue' = queueResponse(queue, k, snapshot[k.coll])
              /\ snapshot[k.coll] \in Generations(k.coll)
           \/ UNCHANGED queue
    BY <2>0
  <2> HIDE DEF k
  <2>2. CASE /\ queue' = queueResponse(queue, k, snapshot[k.coll])
             /\ snapshot[k.coll] \in Generations(k.coll)
    BY <2>1, <2>2, ResponseQueued DEF MCPInv, ConTypes
  <2> QED
    BY <1>1, <2>1, <2>2
<1>5. ASSUME NEW s \in Streams, CloseConnection(s) PROVE QueueTypes'
  <2>1. NewQueue \in Queues /\ Len(NewQueue.items) = 0
    BY DEF NewQueue, Queues
  <2>2. queue' = [queue EXCEPT ![s] = NewQueue]
    BY <1>5 DEF CloseConnection
  <2>3. queue' \in [Streams -> Queues] /\ queue'[s] = NewQueue
    BY <2>1, <2>2 DEF MCPInv
  <2>4. \A t \in Streams : t # s => queue'[t] = queue[t]
    BY <2>2 DEF MCPInv
  <2>5. ASSUME NEW t \in Streams, NEW i \in 1..Len(queue'[t].items)
        PROVE  queue'[t].items[i].val.version \in Generations(queue'[t].items[i].key)
    <3>1. t # s
      BY <2>1, <2>3
    <3> QED
      BY <2>4, <3>1 DEF MCPInv
  <2> QED
    BY <2>3, <2>5 DEF Generations
<1>6. CASE AnswerWatch
  <2>1. PICK k \in answering : queue' = queueResponse(queue, k, snapshot[k.coll])
    BY <1>6 DEF AnswerWatch
  <2>2. k \in Watches /\ k \in openWatches /\ snapshot = published
    BY DEF MCPInv, CacheTypes
  <2>3. k.coll \in Collections /\ k.stream \in Streams
    BY <2>2 DEF Watches
  <2>4. snapshot[k.coll] \in Generations(k.coll)
    BY <2>2, <2>3 DEF MCPInv, CacheTypes
  <2>5. ~HasKey(queue[k.stream].items, k.coll)
    BY <2>2, <2>3 DEF MCPInv, ApartInv, Watched
  <2> QED
    BY <2>1, <2>2, <2>4, <2>5, ResponseQueued DEF MCPInv, ConTypes
<1>7. CASE ClearStatus
  <2>1. \A t \in Streams : Close(queue[t]) \in Queues /\ Close(queue[t]).items = queue[t].items
    BY DEF Close, Queues, MCPInv
  <2>2. queue' = [s \in Streams |->
          IF \E k \in openWatches : k.stream = s THEN Close(queue[s]) ELSE queue[s]]
    BY <1>7 DEF ClearStatus
  <2>3. queue' \in [Streams -> Queues] /\ \A t \in Streams : queue'[t].items = queue[t].items
    BY <2>1, <2>2 DEF MCPInv
  <2> QED
    BY <2>3 DEF MCPInv, Generations
<1> QED
  BY <1>1, <1>2, <1>3, <1>4, <1>5, <1>6, <1>7
  DEF Next, vars, sourceVars, conVars, SourceRuns, SourceStep, SinkStep, ProcessStreamReturns,
      EstablishResourceStream, SendInitialRequest, HandleResponse, RejectResponse,
      SinkStreamEnds, StreamBreaks, Publish, ClearSnapshot

(* Every step keeps the types of the connections. *)
LEMMA ConTypesStep ==
    ASSUME MCPInv, [Next]_vars
    PROVE  ConTypes'
<1> USE DEF ConTypes
<1>1. CASE UNCHANGED <<pc, streamNonce, watch>>
  BY <1>1 DEF MCPInv, IsMessage, Generations
<1>2. ASSUME UNCHANGED <<streamNonce, watch>>, NEW s \in Streams, NEW p \in Phases,
             pc' = [pc EXCEPT ![s] = p]
      PROVE  ConTypes'
  <2>1. pc' \in [Streams -> Phases]
    BY <1>2 DEF MCPInv
  <2> QED
    BY <1>2, <2>1 DEF MCPInv, IsMessage, Generations
<1>3. ASSUME NEW s \in Streams, TakeReady(s) \/ ProcessStreamReturns(s) PROVE ConTypes'
  BY <1>2, <1>3 DEF TakeReady, ProcessStreamReturns, Phases
<1>4. ASSUME NEW s \in Streams, PushServerResponse(s) PROVE ConTypes'
  <2> DEFINE c == Entry(s).key
             m == Response(s)
             w == [pending |-> m, acked |-> watch[s][c].acked, cancel |-> watch[s][c].cancel]
  <2>1. /\ c \in Collections /\ IsMessage(m) /\ m.coll = c /\ m.nonce # 0
        /\ \/ pc' = [pc EXCEPT ![s] = "select"] /\ WatchSet(s, c, w)
           \/ pc' = [pc EXCEPT ![s] = "closing"] /\ watch' = watch
    BY <1>4, Pushed
  <2>2. streamNonce' = [streamNonce EXCEPT ![s] = streamNonce[s] + 1]
    BY <1>4 DEF PushServerResponse
  <2>3. pc' \in [Streams -> Phases] /\ streamNonce' \in [Streams -> Nat]
    <3>1. streamNonce[s] + 1 \in Nat
      BY DEF MCPInv
    <3>2. streamNonce' \in [Streams -> Nat]
      BY <2>2, <3>1 DEF MCPInv
    <3>3. pc' \in [Streams -> Phases]
      BY <2>1 DEF MCPInv, Phases
    <3> QED
      BY <3>2, <3>3
  <2>4. w.pending = m /\ w.cancel = watch[s][c].cancel
    OBVIOUS
  <2> HIDE DEF w, m, c
  <2>5. CASE watch' = watch
    BY <2>3, <2>5 DEF MCPInv, IsMessage, Generations
  <2>6. CASE WatchSet(s, c, w)
    <3>1. ASSUME NEW t \in Streams, NEW d \in Collections
          PROVE  /\ watch'[t][d].cancel \in BOOLEAN
                 /\ \/ watch'[t][d].pending = NoMsg
                    \/ /\ IsMessage(watch'[t][d].pending)
                       /\ watch'[t][d].pending.coll = d /\ watch'[t][d].pending.nonce # 0
      <4>1. CASE t = s /\ d = c
        BY <2>1, <2>4, <2>6, <4>1 DEF WatchSet, MCPInv
      <4>2. CASE t # s \/ d # c
        BY <2>6, <4>2 DEF WatchSet, MCPInv
      <4> QED
        BY <4>1, <4>2
    <3> QED
      BY <2>3, <2>6, <3>1 DEF WatchSet, IsMessage, Generations
  <2> QED
    BY <2>1, <2>5, <2>6
<1>5. ASSUME NEW s \in Streams, ProcessClientRequest(s) PROVE ConTypes'
  <2> DEFINE c == Req(s).coll
             w == watch'[s][c]
  <2>1. /\ c \in Collections /\ UNCHANGED <<pc, streamNonce>>
        /\ WatchSet(s, c, w) /\ w.pending = NoMsg /\ w.cancel \in BOOLEAN
    <3>1. /\ c \in Collections /\ UNCHANGED <<pc, streamNonce>>
          /\ \E a : WatchSet(s, c, [pending |-> NoMsg, cancel |-> ~Answered(Asked(s)), acked |-> a])
      BY <1>5, Processed
    <3>2. (~Answered(Asked(s))) \in BOOLEAN
      BY DEF Answered
    <3>3. PICK a : WatchSet(s, c, [pending |-> NoMsg, cancel |-> ~Answered(Asked(s)), acked |-> a])
      BY <3>1
    <3>4. w = [pending |-> NoMsg, cancel |-> ~Answered(Asked(s)), acked |-> a]
      BY <3>3 DEF WatchSet
    <3> QED
      BY <3>1, <3>2, <3>3, <3>4
  <2> HIDE DEF w, c
  <2>2. ASSUME NEW t \in Streams, NEW d \in Collections
        PROVE  /\ watch'[t][d].cancel \in BOOLEAN
               /\ \/ watch'[t][d].pending = NoMsg
                  \/ /\ IsMessage(watch'[t][d].pending)
                     /\ watch'[t][d].pending.coll = d /\ watch'[t][d].pending.nonce # 0
    <3>1. CASE t = s /\ d = c
      BY <2>1, <3>1 DEF WatchSet
    <3>2. CASE t # s \/ d # c
      BY <2>1, <3>2 DEF WatchSet, MCPInv
    <3> QED
      BY <3>1, <3>2
  <2> QED
    BY <2>1, <2>2 DEF WatchSet, MCPInv, IsMessage, Generations
<1>6. ASSUME NEW s \in Streams, CloseConnection(s) PROVE ConTypes'
  <2>1. /\ pc' = [pc EXCEPT ![s] = "gone"] /\ streamNonce' = [streamNonce EXCEPT ![s] = 0]
        /\ watch' = [watch EXCEPT ![s] = [c \in Collections |-> NewWatch]]
    BY <1>6 DEF CloseConnection
  <2>2. pc' \in [Streams -> Phases] /\ streamNonce' \in [Streams -> Nat]
    BY <2>1 DEF MCPInv, Phases
  <2>3. ASSUME NEW t \in Streams, NEW d \in Collections
        PROVE  watch'[t][d] = IF t = s THEN NewWatch ELSE watch[t][d]
    BY <2>1 DEF MCPInv
  <2>4. NewWatch.pending = NoMsg /\ NewWatch.cancel = FALSE
    BY DEF NewWatch
  <2>5. DOMAIN watch' = Streams /\ \A t \in Streams : DOMAIN watch'[t] = Collections
    BY <2>1 DEF MCPInv
  <2>6. ASSUME NEW t \in Streams, NEW d \in Collections
        PROVE  /\ watch'[t][d].cancel \in BOOLEAN
               /\ \/ watch'[t][d].pending = NoMsg
                  \/ /\ IsMessage(watch'[t][d].pending)
                     /\ watch'[t][d].pending.coll = d /\ watch'[t][d].pending.nonce # 0
    <3>1. CASE t = s
      BY <2>3, <2>4, <3>1
    <3>2. CASE t # s
      BY <2>3, <3>2 DEF MCPInv
    <3> QED
      BY <3>1, <3>2
  <2> QED
    BY <2>2, <2>5, <2>6 DEF IsMessage, Generations
<1>7. CASE EstablishResourceStream
  <2>1. opened' \in Streams
    BY <1>7, MCPSourceAssumption DEF EstablishResourceStream, MCPInv, SinkTypes, Streams
  <2> QED
    BY <1>2, <1>7, <2>1 DEF EstablishResourceStream, Phases
<1> QED
  BY <1>1, <1>3, <1>4, <1>5, <1>6, <1>7
  DEF Next, vars, sourceVars, conVars, SourceRuns, SourceStep, SinkStep, SendInitialRequest,
      HandleResponse, RejectResponse, SinkStreamEnds, StreamBreaks, Publish, ClearSnapshot,
      AnswerWatch, ClearStatus

(* Every step keeps the types of what the streams carry. *)
LEMMA NetTypesStep ==
    ASSUME MCPInv, [Next]_vars
    PROVE  NetTypes'
<1> USE DEF NetTypes
<1>0. Carries(toSource) /\ Carries(toSink)
  BY NetCarries DEF MCPInv
<1>1. CASE UNCHANGED netVars
  BY <1>1 DEF netVars, MCPInv, IsMessage, Generations
<1>2. ASSUME NEW s \in Streams, PushServerResponse(s) PROVE NetTypes'
  <2> DEFINE m == Response(s)
  <2>1. /\ m.coll \in Collections /\ HasKey(queue[s].items, m.coll)
        /\ IsMessage(m) /\ m.nonce # 0
        /\ toSink' = toSink \/ toSink' = [toSink EXCEPT ![s] = Append(@, m)]
    BY <1>2, Pushed
  <2>2. UNCHANGED <<toSource, broken>>
    BY <1>2 DEF PushServerResponse
  <2> HIDE DEF m
  <2>3. CASE toSink' = [toSink EXCEPT ![s] = Append(@, m)]
    <3>1. ~HasColl(toSink[s], m.coll)
      BY <2>1 DEF MCPInv, ApartInv
    <3>2. Sends(toSink, toSink', s, m)
      BY <1>0, <2>3, <3>1, NetAppend
    <3>3. ASSUME NEW t \in Streams, NEW i \in 1..Len(toSink'[t])
          PROVE  IsMessage(toSink'[t][i]) /\ toSink'[t][i].nonce # 0
      BY <2>1, <3>2 DEF Sends, MCPInv
    <3> QED
      BY <2>2, <3>2, <3>3 DEF Sends, Carries, MCPInv, IsMessage, Generations
  <2> QED
    BY <2>1, <2>2, <2>3 DEF MCPInv, IsMessage, Generations
<1>3. ASSUME NEW s \in Streams, ProcessClientRequest(s) PROVE NetTypes'
  <2>1. /\ UNCHANGED <<toSink, broken>> /\ toSource[s] # <<>>
        /\ toSource' = [toSource EXCEPT ![s] = Tail(@)]
    BY <1>3, Processed
  <2>2. toSource[s] \in Seq(Requests)
    BY DEF MCPInv
  <2>3. Tail(toSource[s]) \in Seq(Requests)
    BY <2>1, <2>2
  <2>4. toSource' \in [Streams -> Seq(Requests)]
    BY <2>1, <2>3 DEF MCPInv
  <2> QED
    BY <2>1, <2>4 DEF MCPInv, IsMessage, Generations
<1>4. ASSUME NEW s \in Streams, CloseConnection(s) PROVE NetTypes'
  <2>1. /\ toSource' = [toSource EXCEPT ![s] = <<>>] /\ broken' = [broken EXCEPT ![s] = TRUE]
        /\ UNCHANGED toSink
    BY <1>4 DEF CloseConnection
  <2>2. toSource' \in [Streams -> Seq(Requests)] /\ broken' \in [Streams -> BOOLEAN]
    BY <2>1 DEF MCPInv
  <2> QED
    BY <2>1, <2>2 DEF MCPInv, IsMessage, Generations
<1>5. CASE SendInitialRequest
  <2>1. PICK c \in initial : toSource' = [toSource EXCEPT ![stream] =
             Append(@, Request(c, 0, FALSE, c \in IncSink))]
    BY <1>5 DEF SendInitialRequest
  <2>2. stream # 0 /\ UNCHANGED <<toSink, broken>>
    BY <1>5 DEF SendInitialRequest
  <2>3. toSource' \in [Streams -> Seq(Requests)]
    BY <2>1, <2>2, InitialSent
  <2> QED
    BY <2>2, <2>3 DEF MCPInv, IsMessage, Generations
<1>6. CASE HandleResponse \/ RejectResponse
  <2>1. /\ stream # 0 /\ toSink[stream] # <<>> /\ UNCHANGED broken
        /\ toSink' = [toSink EXCEPT ![stream] = Tail(@)]
    BY <1>6 DEF HandleResponse, RejectResponse
  <2>2. PICK req : Exchanged(req)
    BY <1>6, Handled
  <2>3. /\ toSource' \in [Streams -> Seq(Requests)] /\ Carries(toSink')
        /\ \A t \in Streams : \A i \in 1..Len(toSink'[t]) :
              \E j \in 1..Len(toSink[t]) : toSink'[t][i] = toSink[t][j]
    BY <2>2 DEF Exchanged
  <2>4. ASSUME NEW t \in Streams, NEW i \in 1..Len(toSink'[t])
        PROVE  IsMessage(toSink'[t][i]) /\ toSink'[t][i].nonce # 0
    <3>1. PICK j \in 1..Len(toSink[t]) : toSink'[t][i] = toSink[t][j]
      BY <2>3
    <3> QED
      BY <3>1 DEF MCPInv
  <2> QED
    BY <2>1, <2>3, <2>4 DEF Carries, MCPInv, IsMessage, Generations
<1>7. CASE SinkStreamEnds
  <2>1. UNCHANGED <<toSource, broken>> /\ toSink' = [toSink EXCEPT ![stream] = <<>>]
    BY <1>7 DEF SinkStreamEnds
  <2>2. IsSeq(<<>>) /\ Len(<<>>) = 0
    BY <<>> \in Seq({}) DEF IsSeq
  <2>3. DOMAIN toSink' = Streams /\ \A t \in Streams : toSink'[t] = toSink[t] \/ toSink'[t] = <<>>
    BY <2>1 DEF MCPInv
  <2>4. \A t \in Streams : IsSeq(toSink'[t])
    BY <2>2, <2>3 DEF MCPInv
  <2>5. ASSUME NEW t \in Streams, NEW i \in 1..Len(toSink'[t])
        PROVE  IsMessage(toSink'[t][i]) /\ toSink'[t][i].nonce # 0
    <3>1. CASE toSink'[t] = <<>>
      BY <2>2, <3>1
    <3> QED
      BY <2>3, <3>1 DEF MCPInv
  <2> QED
    BY <2>1, <2>3, <2>4, <2>5 DEF MCPInv, IsMessage, Generations
<1>8. ASSUME NEW s \in Streams, StreamBreaks(s) PROVE NetTypes'
  <2>1. UNCHANGED <<toSource, toSink>> /\ broken' = [broken EXCEPT ![s] = TRUE]
    BY <1>8 DEF StreamBreaks
  <2>2. broken' \in [Streams -> BOOLEAN]
    BY <2>1 DEF MCPInv
  <2> QED
    BY <2>1, <2>2 DEF MCPInv, IsMessage, Generations
<1> QED
  BY <1>1, <1>2, <1>3, <1>4, <1>5, <1>6, <1>7, <1>8
  DEF Next, vars, sourceVars, SourceRuns, SourceStep, SinkStep, TakeReady, ProcessStreamReturns,
      EstablishResourceStream, Publish, ClearSnapshot, AnswerWatch, ClearStatus, netVars

(* Every step keeps the types of the sink. *)
LEMMA SinkTypesStep ==
    ASSUME MCPInv, [Next]_vars
    PROVE  SinkTypes'
<1> USE DEF SinkTypes
<1>1. CASE UNCHANGED sinkVars
  BY <1>1 DEF sinkVars, MCPInv
<1>2. CASE EstablishResourceStream
  BY <1>2, MCPSourceAssumption DEF EstablishResourceStream, MCPInv
<1>3. CASE SendInitialRequest
  BY <1>3 DEF SendInitialRequest, MCPInv
<1>4. CASE HandleResponse
  <2>1. /\ UNCHANGED <<stream, opened, initial>>
        /\ DOMAIN store' = DOMAIN store /\ DOMAIN inherited' = DOMAIN inherited
        /\ rejected' = [rejected EXCEPT ![Heard.coll] = FALSE]
    BY <1>4 DEF HandleResponse, Heard
  <2>2. rejected' \in [Collections -> BOOLEAN]
    BY <2>1 DEF MCPInv
  <2> QED
    BY <2>1, <2>2 DEF MCPInv
<1>5. CASE RejectResponse
  <2>1. /\ UNCHANGED <<stream, opened, initial, store, inherited>>
        /\ rejected' = [rejected EXCEPT ![Heard.coll] = TRUE]
    BY <1>5 DEF RejectResponse, Heard
  <2>2. rejected' \in [Collections -> BOOLEAN]
    BY <2>1 DEF MCPInv
  <2> QED
    BY <2>1, <2>2 DEF MCPInv
<1>6. CASE SinkStreamEnds
  BY <1>6 DEF SinkStreamEnds, MCPInv
<1> QED
  BY <1>1, <1>2, <1>3, <1>4, <1>5, <1>6 DEF Next, vars, SourceRuns, SinkStep, StreamBreaks

(* Streams are opened one after the other, and end once broken. *)
LEMMA LifeStep ==
    ASSUME MCPInv, [Next]_vars
    PROVE  LifeInv'
<1> USE DEF LifeInv
<1>0. \A s \in Streams : s \in Nat
  BY MCPSourceAssumption DEF Streams
<1>1. CASE UNCHANGED <<conVars, netVars, opened>>
  BY <1>1 DEF conVars, netVars, MCPInv, NewQueue, NewWatch, NoMsg, Nothing
<1>2. ASSUME NEW s \in Streams, pc[s] # "none", pc'[s] # "none", opened' = opened,
             pc'[s] = "gone" => broken'[s],
             \A t \in Streams : t # s =>
                /\ pc'[t] = pc[t] /\ toSource'[t] = toSource[t] /\ toSink'[t] = toSink[t]
                /\ queue'[t] = queue[t] /\ broken'[t] = broken[t]
                /\ \A c \in Collections : watch'[t][c] = watch[t][c]
      PROVE  LifeInv'
  <2>1. ASSUME NEW t \in Streams
        PROVE  /\ pc'[t] = "none" <=> t > opened'
               /\ pc'[t] = "none" =>
                     /\ toSource'[t] = <<>> /\ toSink'[t] = <<>> /\ queue'[t] = NewQueue
                     /\ \A c \in Collections : watch'[t][c] = NewWatch
               /\ pc'[t] = "gone" => broken'[t]
    <3>1. CASE t = s
      BY <1>2, <3>1 DEF MCPInv
    <3>2. CASE t # s
      BY <1>2, <3>2 DEF MCPInv
    <3> QED
      BY <3>1, <3>2
  <2> QED
    BY <2>1 DEF NewQueue, NewWatch, NoMsg, Nothing
<1>3. ASSUME NEW s \in Streams, TakeReady(s) \/ ProcessStreamReturns(s), opened' = opened
      PROVE  LifeInv'
  <2>1. /\ pc[s] = "select" /\ pc'[s] \in {"dequeue", "closing"}
        /\ \A t \in Streams : t # s => pc'[t] = pc[t] /\ queue'[t] = queue[t]
        /\ UNCHANGED <<watch, netVars>>
    BY <1>3 DEF TakeReady, ProcessStreamReturns, MCPInv, ConTypes, QueueTypes
  <2> QED
    BY <1>2, <1>3, <2>1 DEF netVars
<1>4. ASSUME NEW s \in Streams, PushServerResponse(s), opened' = opened PROVE LifeInv'
  <2>1. /\ \A t \in Streams : t # s => queue'[t] = queue[t]
        /\ \/ pc' = [pc EXCEPT ![s] = "select"]
           \/ pc' = [pc EXCEPT ![s] = "closing"]
        /\ \A t \in Streams, c \in Collections : t # s => watch'[t][c] = watch[t][c]
        /\ toSink' = toSink \/ toSink' = [toSink EXCEPT ![s] = Append(@, Response(s))]
    <3>1. /\ \A t \in Streams : t # s => queue'[t] = queue[t]
          /\ \/ pc' = [pc EXCEPT ![s] = "select"]
             \/ pc' = [pc EXCEPT ![s] = "closing"]
      BY <1>4, Pushed
    <3>2. /\ \A t \in Streams, c \in Collections : t # s => watch'[t][c] = watch[t][c]
          /\ toSink' = toSink \/ toSink' = [toSink EXCEPT ![s] = Append(@, Response(s))]
      BY <1>4, PushedWatch
    <3> QED
      BY <3>1, <3>2
  <2>2. pc[s] = "dequeue" /\ UNCHANGED <<toSource, broken>>
    BY <1>4 DEF PushServerResponse
  <2>3. \A t \in Streams : t # s => toSink'[t] = toSink[t]
    BY <2>1 DEF MCPInv, NetTypes
  <2>4. pc'[s] \in {"select", "closing"} /\ \A t \in Streams : t # s => pc'[t] = pc[t]
    BY <2>1 DEF MCPInv, ConTypes
  <2> QED
    BY <1>2, <1>4, <2>1, <2>2, <2>3, <2>4
<1>5. ASSUME NEW s \in Streams, ProcessClientRequest(s), opened' = opened PROVE LifeInv'
  <2> DEFINE c == Req(s).coll
             k == Asked(s)
  <2>1. /\ pc[s] = "select" /\ UNCHANGED <<pc, toSink, broken>>
        /\ toSource' = [toSource EXCEPT ![s] = Tail(@)]
        /\ k.stream = s
        /\ queue' = queueResponse(queue, k, snapshot[c]) \/ queue' = queue
    BY <1>5, Processed
  <2>4. \A t \in Streams, d \in Collections : t # s => watch'[t][d] = watch[t][d]
    BY <1>5, ProcessedWatch
  <2>2. \A t \in Streams : t # s => toSource'[t] = toSource[t]
    BY <2>1 DEF MCPInv, NetTypes
  <2>3. \A t \in Streams : t # s => queue'[t] = queue[t]
    <3> HIDE DEF k, c
    <3> QED
      BY <2>1 DEF queueResponse, MCPInv, QueueTypes
  <2> QED
    BY <1>2, <1>5, <2>1, <2>2, <2>3, <2>4
<1>6. ASSUME NEW s \in Streams, CloseConnection(s), opened' = opened PROVE LifeInv'
  <2>1. /\ pc[s] = "closing" /\ pc'[s] = "gone" /\ broken'[s] = TRUE /\ UNCHANGED toSink
        /\ \A t \in Streams : t # s => pc'[t] = pc[t] /\ broken'[t] = broken[t]
    BY <1>6 DEF CloseConnection, MCPInv, ConTypes, NetTypes
  <2>2. \A t \in Streams : t # s =>
           toSource'[t] = toSource[t] /\ queue'[t] = queue[t] /\ watch'[t] = watch[t]
    BY <1>6 DEF CloseConnection, MCPInv, ConTypes, NetTypes, QueueTypes
  <2> QED
    BY <1>2, <1>6, <2>1, <2>2
<1>7. CASE EstablishResourceStream
  <2>1. /\ opened \in Nat /\ opened' = opened + 1 /\ opened' \in Streams
        /\ pc' = [pc EXCEPT ![opened'] = "select"]
        /\ UNCHANGED <<queue, watch, netVars>>
    BY <1>7, MCPSourceAssumption DEF EstablishResourceStream, MCPInv, SinkTypes, Streams
  <2>2. ASSUME NEW t \in Streams
        PROVE  /\ pc'[t] = "none" <=> t > opened'
               /\ pc'[t] = "none" => pc[t] = "none"
               /\ pc'[t] = "gone" => broken'[t]
    <3>1. CASE t = opened'
      BY <1>0, <2>1, <3>1 DEF MCPInv, ConTypes
    <3>2. CASE t # opened'
      <4>1. pc'[t] = pc[t] /\ (t > opened' <=> t > opened) /\ broken'[t] = broken[t]
        BY <1>0, <2>1, <3>2 DEF MCPInv, ConTypes, netVars
      <4> QED
        BY <4>1 DEF MCPInv
    <3> QED
      BY <3>1, <3>2
  <2> QED
    BY <2>1, <2>2 DEF netVars, MCPInv, NewQueue, NewWatch, NoMsg, Nothing
<1>8. ASSUME stream # 0
      PROVE  stream \in Streams /\ pc[stream] # "none"
  BY <1>0, <1>8, MCPSourceAssumption DEF MCPInv, SinkTypes, Streams
<1>9. CASE SendInitialRequest \/ HandleResponse \/ RejectResponse \/ SinkStreamEnds
  <2>1. /\ stream # 0 /\ UNCHANGED <<pc, queue, watch, broken, opened>>
        /\ \/ toSource' = toSource
           \/ \E m : toSource' = [toSource EXCEPT ![stream] = m]
        /\ \/ toSink' = toSink
           \/ \E m : toSink' = [toSink EXCEPT ![stream] = m]
    BY <1>9 DEF SendInitialRequest, HandleResponse, RejectResponse, SinkStreamEnds, Answer, conVars
  <2>2. \A t \in Streams : t # stream => toSource'[t] = toSource[t] /\ toSink'[t] = toSink[t]
    BY <2>1 DEF MCPInv, NetTypes
  <2>3. pc[stream] = "gone" => broken[stream]
    BY <1>8, <2>1 DEF MCPInv
  <2> QED
    BY <1>2, <1>8, <2>1, <2>2, <2>3
<1>10. ASSUME AnswerWatch, opened' = opened PROVE LifeInv'
  <2>1. PICK k \in answering : queue' = queueResponse(queue, k, snapshot[k.coll])
    BY <1>10 DEF AnswerWatch
  <2>2. k \in openWatches /\ k.stream \in Streams
    BY DEF MCPInv, CacheTypes, Watches
  <2>3. pc[k.stream] \notin {"none", "gone"}
    BY <2>2 DEF MCPInv, WatchInv
  <2>4. \A t \in Streams : t # k.stream => queue'[t] = queue[t]
    BY <2>1 DEF queueResponse, MCPInv, QueueTypes
  <2>5. UNCHANGED <<pc, watch, netVars>>
    BY <1>10 DEF AnswerWatch
  <2> QED
    BY <1>2, <1>10, <2>2, <2>3, <2>4, <2>5 DEF netVars
<1>11. ASSUME ClearStatus, opened' = opened PROVE LifeInv'
  <2>1. ASSUME NEW t \in Streams, pc[t] = "none" PROVE queue'[t] = queue[t]
    <3>1. ~(\E k \in openWatches : k.stream = t)
      BY <2>1 DEF MCPInv, WatchInv
    <3> QED
      BY <1>11, <3>1 DEF ClearStatus
  <2>2. UNCHANGED <<pc, watch, netVars>>
    BY <1>11 DEF ClearStatus
  <2> QED
    BY <1>11, <2>1, <2>2 DEF netVars, MCPInv, NewQueue, NewWatch, NoMsg, Nothing
<1>12. ASSUME NEW s \in Streams, StreamBreaks(s) PROVE LifeInv'
  <2>1. /\ UNCHANGED <<pc, queue, watch, toSource, toSink, opened>>
        /\ broken' = [broken EXCEPT ![s] = TRUE]
    BY <1>12 DEF StreamBreaks, conVars, sinkVars
  <2>2. \A t \in Streams : broken[t] => broken'[t]
    BY <2>1 DEF MCPInv, NetTypes
  <2> QED
    BY <2>1, <2>2 DEF MCPInv, NewQueue, NewWatch, NoMsg, Nothing
<1> QED
  BY <1>1, <1>3, <1>4, <1>5, <1>6, <1>7, <1>9, <1>10, <1>11, <1>12
  DEF Next, vars, sourceVars, sinkVars, SourceRuns, SourceStep, SinkStep, Publish, ClearSnapshot

(* A watch is opened by a connection that can cancel it, and the           *)
(* connection that goes cancels it.                                        *)
LEMMA WatchStep ==
    ASSUME MCPInv, [Next]_vars
    PROVE  WatchInv'
<1> USE DEF WatchInv
<1>0. \A k \in openWatches : k.stream \in Streams /\ k.coll \in Collections
  BY DEF MCPInv, CacheTypes, Watches
<1>1. CASE UNCHANGED <<pc, watch>> /\ openWatches' \subseteq openWatches
  BY <1>1 DEF MCPInv
<1>2. ASSUME openWatches' \subseteq openWatches, UNCHANGED watch, NEW s \in Streams,
             pc' = [pc EXCEPT ![s] = pc'[s]], pc'[s] \notin {"none", "gone"}
      PROVE  WatchInv'
  <2>1. \A t \in Streams : t # s => pc'[t] = pc[t]
    BY <1>2 DEF MCPInv, ConTypes
  <2> QED
    BY <1>0, <1>2, <2>1 DEF MCPInv
<1>3. ASSUME NEW s \in Streams, TakeReady(s) \/ ProcessStreamReturns(s) PROVE WatchInv'
  <2>1. \E p \in {"dequeue", "closing"} : pc' = [pc EXCEPT ![s] = p]
    BY <1>3 DEF TakeReady, ProcessStreamReturns
  <2>2. pc'[s] \in {"dequeue", "closing"} /\ pc' = [pc EXCEPT ![s] = pc'[s]]
    BY <2>1 DEF MCPInv, ConTypes
  <2>3. UNCHANGED <<openWatches, watch>>
    BY <1>3 DEF TakeReady, ProcessStreamReturns, cacheVars
  <2> QED
    BY <1>2, <2>2, <2>3
<1>4. ASSUME NEW s \in Streams, PushServerResponse(s) PROVE WatchInv'
  <2> DEFINE c == Entry(s).key
  <2>1. /\ c \in Collections
        /\ \E p \in {"select", "closing"} : pc' = [pc EXCEPT ![s] = p]
        /\ \/ /\ watch'[s][c].cancel = watch[s][c].cancel
              /\ \A t \in Streams, d \in Collections : t # s \/ d # c => watch'[t][d] = watch[t][d]
           \/ watch' = watch
    <3>1. c \in Collections /\ \E p \in {"select", "closing"} : pc' = [pc EXCEPT ![s] = p]
      BY <1>4, Pushed
    <3> QED
      BY <1>4, <3>1, PushedWatch
  <2>2. pc'[s] \in {"select", "closing"} /\ \A t \in Streams : t # s => pc'[t] = pc[t]
    BY <2>1 DEF MCPInv, ConTypes
  <2>3. openWatches' = openWatches
    BY <1>4 DEF PushServerResponse, cacheVars
  <2> HIDE DEF c
  <2>4. ASSUME NEW k \in openWatches
        PROVE  watch'[k.stream][k.coll].cancel = watch[k.stream][k.coll].cancel
    BY <1>0, <2>1
  <2> QED
    BY <1>0, <2>2, <2>3, <2>4 DEF MCPInv
<1>5. ASSUME NEW s \in Streams, ProcessClientRequest(s) PROVE WatchInv'
  <2> DEFINE c == Req(s).coll
             k == Asked(s)
  <2>0. /\ pc[s] = "select" /\ pc' = pc /\ k.stream = s /\ k.coll = c /\ ~Watched(s, c)
        /\ \/ openWatches' = openWatches
           \/ ~Answered(k) /\ openWatches' = openWatches \cup {k}
    BY <1>5, Processed
  <2>1. /\ \A t \in Streams, d \in Collections : t # s \/ d # c => watch'[t][d] = watch[t][d]
        /\ watch'[s][c].cancel <=> ~Answered(k)
    BY <1>5, ProcessedWatch
  <2> HIDE DEF c, k
  <2>2. ASSUME NEW l \in openWatches
        PROVE  /\ pc'[l.stream] \notin {"none", "gone"}
               /\ watch'[l.stream][l.coll].cancel
    BY <1>0, <2>0, <2>1 DEF MCPInv, Watched
  <2>3. ~Answered(k) => watch'[s][c].cancel
    BY <2>1
  <2> QED
    BY <2>0, <2>2, <2>3
<1>6. ASSUME NEW s \in Streams, CloseConnection(s) PROVE WatchInv'
  <2>1. /\ openWatches' = Uncancelled(s, Collections)
        /\ pc' = [pc EXCEPT ![s] = "gone"]
        /\ watch' = [watch EXCEPT ![s] = [c \in Collections |-> NewWatch]]
    BY <1>6 DEF CloseConnection
  <2>2. \A l \in openWatches' : l \in openWatches /\ l.stream # s
    BY <1>0, <2>1 DEF Uncancelled, MCPInv
  <2>3. \A t \in Streams : t # s => pc'[t] = pc[t] /\ watch'[t] = watch[t]
    BY <2>1 DEF MCPInv, ConTypes
  <2> QED
    BY <1>0, <2>2, <2>3 DEF MCPInv
<1>7. CASE EstablishResourceStream
  <2>1. opened' \in Streams
    BY <1>7, MCPSourceAssumption DEF EstablishResourceStream, MCPInv, SinkTypes, Streams
  <2>2. /\ pc' = [pc EXCEPT ![opened'] = "select"] /\ UNCHANGED <<openWatches, watch>>
    BY <1>7 DEF EstablishResourceStream, cacheVars
  <2>3. pc'[opened'] = "select"
    BY <2>1, <2>2 DEF MCPInv, ConTypes
  <2> QED
    BY <1>2, <2>1, <2>2, <2>3
<1> QED
  BY <1>1, <1>3, <1>4, <1>5, <1>6, <1>7
  DEF Next, vars, sourceVars, cacheVars, conVars, SourceRuns, SourceStep, SinkStep,
      SendInitialRequest, HandleResponse, RejectResponse, SinkStreamEnds, StreamBreaks,
      Publish, SetSnapshot, ClearSnapshot, AnswerWatch, ClearStatus

(* Every entry keeps its token until it is taken for it. *)
LEMMA TokenStep ==
    ASSUME MCPInv, [Next]_vars
    PROVE  TokenInv'
<1> USE DEF TokenInv
<1> DEFINE Taken(s) == IF pc[s] = "dequeue" THEN 1 ELSE 0
<1>0. ASSUME NEW s \in Streams
      PROVE  /\ Len(queue[s].items) \in Nat /\ queue[s].ready \in Nat
             /\ Len(queue[s].items) = queue[s].ready + Taken(s)
  BY DEF MCPInv, QueueTypes, Queues
<1>1. CASE UNCHANGED <<pc, queue>>
  BY <1>1 DEF MCPInv
<1>2. ASSUME NEW s \in Streams, TakeReady(s) PROVE TokenInv'
  <2>1. /\ pc[s] = "select" /\ queue[s].ready > 0 /\ pc' = [pc EXCEPT ![s] = "dequeue"]
        /\ queue' = [queue EXCEPT ![s] = TakeToken(queue[s])]
    BY <1>2 DEF TakeReady
  <2>2. /\ TakeToken(queue[s]).items = queue[s].items
        /\ TakeToken(queue[s]).ready = queue[s].ready - 1
    BY DEF TakeToken, MCPInv, QueueTypes, Queues
  <2>3. /\ queue'[s] = TakeToken(queue[s]) /\ pc'[s] = "dequeue"
        /\ \A t \in Streams : t # s => queue'[t] = queue[t] /\ pc'[t] = pc[t]
    BY <2>1 DEF MCPInv, QueueTypes, ConTypes
  <2>4. Len(queue'[s].items) = queue'[s].ready + 1
    BY <1>0, <2>1, <2>2, <2>3
  <2> QED
    BY <2>3, <2>4 DEF MCPInv
<1>3. ASSUME NEW s \in Streams, PushServerResponse(s) PROVE TokenInv'
  <2>1. /\ Len(queue'[s].items) = Len(queue[s].items) - 1
        /\ queue'[s].ready = queue[s].ready
        /\ \A t \in Streams : t # s => queue'[t] = queue[t]
        /\ \E p \in {"select", "closing"} : pc' = [pc EXCEPT ![s] = p]
    BY <1>3, Pushed
  <2>2. pc[s] = "dequeue"
    BY <1>3 DEF PushServerResponse
  <2>3. pc'[s] # "dequeue" /\ \A t \in Streams : t # s => pc'[t] = pc[t]
    BY <2>1 DEF MCPInv, ConTypes
  <2>4. Len(queue'[s].items) = queue'[s].ready + 0
    BY <1>0, <2>1, <2>2
  <2> QED
    BY <2>1, <2>3, <2>4 DEF MCPInv
<1>4. ASSUME NEW k \in Watches, NEW v \in Generations(k.coll), pc' = pc,
             ~HasKey(queue[k.stream].items, k.coll), queue' = queueResponse(queue, k, v)
      PROVE  TokenInv'
  <2>1. \A t \in Streams : \A n \in {0, 1} :
           Len(queue[t].items) = queue[t].ready + n => Len(queue'[t].items) = queue'[t].ready + n
    BY <1>4, ResponseQueued DEF MCPInv, ConTypes
  <2> QED
    BY <1>4, <2>1 DEF MCPInv
<1>5. ASSUME NEW s \in Streams, ProcessClientRequest(s) PROVE TokenInv'
  <2> DEFINE k == Asked(s)
  <2>1. /\ k \in Watches /\ ~HasKey(queue[s].items, Req(s).coll) /\ pc' = pc
        /\ k.stream = s /\ k.coll = Req(s).coll
        /\ \/ /\ queue' = queueResponse(queue, k, snapshot[Req(s).coll])
              /\ snapshot[Req(s).coll] \in Generations(Req(s).coll)
           \/ queue' = queue
    BY <1>5, Processed
  <2> HIDE DEF k
  <2> QED
    BY <1>1, <1>4, <2>1
<1>6. ASSUME NEW s \in Streams, ProcessStreamReturns(s) PROVE TokenInv'
  <2>1. /\ pc[s] = "select" /\ pc'[s] = "closing" /\ queue' = queue
        /\ \A t \in Streams : t # s => pc'[t] = pc[t]
    BY <1>6 DEF ProcessStreamReturns, MCPInv, ConTypes
  <2> QED
    BY <2>1 DEF MCPInv
<1>7. ASSUME NEW s \in Streams, CloseConnection(s) PROVE TokenInv'
  <2>1. pc' = [pc EXCEPT ![s] = "gone"] /\ queue' = [queue EXCEPT ![s] = NewQueue]
    BY <1>7 DEF CloseConnection
  <2>2. /\ pc'[s] = "gone" /\ queue'[s] = NewQueue
        /\ \A t \in Streams : t # s => queue'[t] = queue[t] /\ pc'[t] = pc[t]
    BY <2>1 DEF MCPInv, ConTypes, QueueTypes
  <2>3. Len(NewQueue.items) = 0 /\ NewQueue.ready = 0
    BY DEF NewQueue
  <2> QED
    BY <2>2, <2>3 DEF MCPInv
<1>8. CASE EstablishResourceStream
  <2>1. opened' \in Streams /\ opened' > opened
    BY <1>8, MCPSourceAssumption DEF EstablishResourceStream, MCPInv, SinkTypes, Streams
  <2>2. pc[opened'] = "none"
    BY <2>1 DEF MCPInv, LifeInv
  <2>3. pc' = [pc EXCEPT ![opened'] = "select"] /\ queue' = queue
    BY <1>8 DEF EstablishResourceStream
  <2>4. \A t \in Streams : pc'[t] = "dequeue" <=> pc[t] = "dequeue"
    BY <2>1, <2>2, <2>3 DEF MCPInv, ConTypes
  <2> QED
    BY <2>3, <2>4 DEF MCPInv
<1>9. CASE AnswerWatch
  <2>1. PICK k \in answering : queue' = queueResponse(queue, k, snapshot[k.coll])
    BY <1>9 DEF AnswerWatch
  <2>2. k \in Watches /\ k \in openWatches /\ snapshot = published
    BY DEF MCPInv, CacheTypes
  <2>3. k.coll \in Collections /\ k.stream \in Streams
    BY <2>2 DEF Watches
  <2>4. snapshot[k.coll] \in Generations(k.coll)
    BY <2>2, <2>3 DEF MCPInv, CacheTypes
  <2>5. ~HasKey(queue[k.stream].items, k.coll)
    BY <2>2, <2>3 DEF MCPInv, ApartInv, Watched
  <2>6. pc' = pc
    BY <1>9 DEF AnswerWatch
  <2> QED
    BY <1>4, <2>1, <2>2, <2>4, <2>5, <2>6
<1>10. CASE ClearStatus
  <2>1. \A t \in Streams : /\ Close(queue[t]).items = queue[t].items
                           /\ Close(queue[t]).ready = queue[t].ready
    BY DEF Close, MCPInv, QueueTypes, Queues
  <2>2. /\ queue' = [s \in Streams |->
             IF \E k \in openWatches : k.stream = s THEN Close(queue[s]) ELSE queue[s]]
        /\ pc' = pc
    BY <1>10 DEF ClearStatus
  <2>3. \A t \in Streams : queue'[t].items = queue[t].items /\ queue'[t].ready = queue[t].ready
    BY <2>1, <2>2
  <2> QED
    BY <2>2, <2>3 DEF MCPInv
<1> QED
  BY <1>1, <1>2, <1>3, <1>5, <1>6, <1>7, <1>8, <1>9, <1>10
  DEF Next, vars, sourceVars, conVars, SourceRuns, SourceStep, SinkStep, SendInitialRequest,
      HandleResponse, RejectResponse, SinkStreamEnds, StreamBreaks, Publish, ClearSnapshot

(* A watch is opened only for the version the snapshot has, and a new      *)
(* snapshot leaves alone only the watches that have its version.           *)
LEMMA VersionStep ==
    ASSUME MCPInv, [Next]_vars
    PROVE  VersionInv'
<1> USE DEF VersionInv
<1>1. CASE /\ UNCHANGED <<snapshot, answering>> /\ openWatches' \subseteq openWatches
  BY <1>1 DEF MCPInv
<1>2. CASE Publish
  BY <1>2 DEF Publish, SetSnapshot
<1>3. CASE ClearSnapshot
  BY <1>3 DEF ClearSnapshot
<1>4. CASE AnswerWatch
  BY <1>4 DEF AnswerWatch, MCPInv
<1>5. ASSUME NEW s \in Streams, ProcessClientRequest(s) PROVE VersionInv'
  <2> DEFINE k == Asked(s)
  <2>1. /\ UNCHANGED <<snapshot, answering>>
        /\ \/ openWatches' = openWatches
           \/ ~Answered(k) /\ openWatches' = openWatches \cup {k}
    BY <1>5, Processed
  <2> HIDE DEF k
  <2> QED
    BY <2>1 DEF MCPInv, Answered
<1> QED
  BY <1>1, <1>2, <1>3, <1>4, <1>5
  DEF Next, vars, sourceVars, cacheVars, SourceRuns, SourceStep, SinkStep, TakeReady,
      PushServerResponse, ProcessStreamReturns, CloseConnection, Uncancelled,
      EstablishResourceStream, SendInitialRequest, HandleResponse, RejectResponse,
      SinkStreamEnds, StreamBreaks, ClearStatus

(* The delta was taken against what is acknowledged, which only the answer *)
(* to it changes.                                                          *)
LEMMA PendingStep ==
    ASSUME MCPInv, [Next]_vars
    PROVE  PendingInv'
<1> USE DEF PendingInv
<1>1. ASSUME \A t \in Streams, d \in Collections :
               \/ watch'[t][d] = watch[t][d]
               \/ watch'[t][d].pending = NoMsg
               \/ Same(Track(watch'[t][d].acked, watch'[t][d].pending),
                       Resources(d, watch'[t][d].pending.version))
      PROVE  PendingInv'
  <2>1. ASSUME NEW t \in Streams, NEW d \in Collections, watch'[t][d].pending # NoMsg
        PROVE  Same(Track(watch'[t][d].acked, watch'[t][d].pending),
                    Resources(d, watch'[t][d].pending.version))
    BY <1>1, <2>1 DEF MCPInv
  <2> QED
    BY <2>1 DEF Same, Track, Resources, Nothing, NoMsg
<1>2. CASE UNCHANGED watch
  BY <1>1, <1>2
<1>3. ASSUME NEW s \in Streams, PushServerResponse(s) PROVE PendingInv'
  <2> DEFINE c == Entry(s).key
             m == Response(s)
  <2>1. Same(Track(watch[s][c].acked, m), Resources(c, m.version))
    BY <1>3, Pushed
  <2>2. \/ /\ \A t \in Streams, d \in Collections : t # s \/ d # c => watch'[t][d] = watch[t][d]
           /\ watch'[s][c].pending = m /\ watch'[s][c].acked = watch[s][c].acked
        \/ watch' = watch
    BY <1>3, PushedWatch
  <2> HIDE DEF c, m
  <2>3. Same(Track(watch'[s][c].acked, watch'[s][c].pending),
             Resources(c, watch'[s][c].pending.version)) \/ watch' = watch
    BY <2>1, <2>2
  <2> QED
    BY <1>1, <1>2, <2>2, <2>3
<1>4. ASSUME NEW s \in Streams, ProcessClientRequest(s) PROVE PendingInv'
  <2> DEFINE c == Req(s).coll
  <2>1. /\ \A t \in Streams, d \in Collections : t # s \/ d # c => watch'[t][d] = watch[t][d]
        /\ watch'[s][c].pending = NoMsg
    BY <1>4, ProcessedWatch
  <2> HIDE DEF c
  <2> QED
    BY <1>1, <2>1
<1>5. ASSUME NEW s \in Streams, CloseConnection(s) PROVE PendingInv'
  <2>1. watch' = [watch EXCEPT ![s] = [c \in Collections |-> NewWatch]]
    BY <1>5 DEF CloseConnection
  <2>2. NewWatch.pending = NoMsg
    BY DEF NewWatch
  <2>3. \A t \in Streams, d \in Collections : watch'[t][d] = watch[t][d] \/ watch'[t][d] = NewWatch
    BY <2>1 DEF MCPInv, ConTypes
  <2>4. \A t \in Streams, d \in Collections :
           watch'[t][d] = watch[t][d] \/ watch'[t][d].pending = NoMsg
    BY <2>2, <2>3
  <2> QED
    BY <1>1, <2>4
<1> QED
  BY <1>2, <1>3, <1>4, <1>5
  DEF Next, vars, sourceVars, conVars, SourceRuns, SourceStep, SinkStep, TakeReady,
      ProcessStreamReturns, EstablishResourceStream, SendInitialRequest, HandleResponse,
      RejectResponse, SinkStreamEnds, StreamBreaks, Publish, ClearSnapshot, AnswerWatch, ClearStatus

(* A collection moves from one place to the next: never into a second one, *)
(* and out of all of them only when its stream has broken or its queue was *)
(* closed.                                                                 *)
LEMMA PlaceStep ==
    ASSUME MCPInv, [Next]_vars
    PROVE  OnceInv' /\ ApartInv' /\ SomewhereInv'
<1>0. /\ Carries(toSource) /\ Carries(toSink) /\ OnceInv /\ ApartInv /\ SomewhereInv
      /\ \A k \in openWatches : k.stream \in Streams /\ k.coll \in Collections
      /\ \A s \in Streams : s # 0
  BY NetCarries, MCPSourceAssumption DEF MCPInv, CacheTypes, Watches, Streams
<1>a. ASSUME Carries(toSource'), Carries(toSink'),
             \A t \in Streams : OnceKey(queue'[t].items),
             \A k, l \in openWatches' : k.stream = l.stream /\ k.coll = l.coll => k = l
      PROVE  OnceInv'
  BY <1>a DEF OnceInv, Carries
<1>b. ASSUME ASSUME NEW s \in Streams, NEW c \in Collections
             PROVE  /\ Asking(s, c)' => ~HasColl(toSource'[s], c) /\ ~Watched(s, c)'
                                        /\ ~HasKey(queue'[s].items, c) /\ ~HasColl(toSink'[s], c)
                    /\ HasColl(toSource'[s], c) =>
                          /\ ~Watched(s, c)' /\ ~HasKey(queue'[s].items, c)
                          /\ ~HasColl(toSink'[s], c)
                    /\ Watched(s, c)' => ~HasKey(queue'[s].items, c) /\ ~HasColl(toSink'[s], c)
                    /\ HasKey(queue'[s].items, c) => ~HasColl(toSink'[s], c)
      PROVE  ApartInv'
  BY <1>b DEF ApartInv
<1>c. ASSUME ASSUME NEW s \in Streams, NEW c \in Collections, Serving(s)', ~broken'[s]
             PROVE  \/ Asking(s, c)' \/ HasColl(toSource'[s], c) \/ Watched(s, c)'
                    \/ HasKey(queue'[s].items, c) \/ HasColl(toSink'[s], c)
      PROVE  SomewhereInv'
  BY <1>c DEF SomewhereInv
<1>1. ASSUME UNCHANGED <<stream, initial, toSource, toSink, openWatches>>,
             \A t \in Streams : queue'[t].items = queue[t].items,
             \A t \in Streams : Serving(t)' /\ ~broken'[t] => Serving(t) /\ ~broken[t]
      PROVE  OnceInv' /\ ApartInv' /\ SomewhereInv'
  <2>1. \A t \in Streams, d \in Collections :
           (Asking(t, d)' <=> Asking(t, d)) /\ (Watched(t, d)' <=> Watched(t, d))
    BY <1>1 DEF Asking, Watched
  <2>2. OnceInv'
    BY <1>0, <1>1, <1>a DEF OnceInv
  <2>3. ApartInv'
    BY <1>0, <1>1, <2>1, <1>b DEF ApartInv
  <2>4. SomewhereInv'
    BY <1>0, <1>1, <2>1, <1>c DEF SomewhereInv
  <2> QED
    BY <2>2, <2>3, <2>4
<1>2. ASSUME NEW s \in Streams, PushServerResponse(s), UNCHANGED sinkVars
      PROVE  OnceInv' /\ ApartInv' /\ SomewhereInv'
  <2> DEFINE c == Entry(s).key
             m == Response(s)
  <2>1. /\ c \in Collections /\ HasKey(queue[s].items, c) /\ m.coll = c
        /\ \A t \in Streams : queue'[t].closed = queue[t].closed /\ OnceKey(queue'[t].items)
        /\ \A t \in Streams : \A d : HasKey(queue'[t].items, d) <=>
              HasKey(queue[t].items, d) /\ ~(t = s /\ d = c)
        /\ \E p \in {"select", "closing"} : pc' = [pc EXCEPT ![s] = p]
    BY <1>2, Pushed
  <2>2. \/ ~broken[s] /\ toSink' = [toSink EXCEPT ![s] = Append(@, m)]
        \/ broken[s] /\ toSink' = toSink
    BY <1>2, PushedWatch
  <2>3. pc[s] = "dequeue" /\ UNCHANGED <<toSource, broken, openWatches, stream, initial>>
    BY <1>2 DEF PushServerResponse, cacheVars, sinkVars
  <2> HIDE DEF c, m
  <2>4. ~HasColl(toSink[s], m.coll)
    BY <1>0, <2>1 DEF ApartInv
  <2>5. /\ Carries(toSink')
        /\ \A t \in Streams : \A d : HasColl(toSink'[t], d) <=>
              HasColl(toSink[t], d) \/ (t = s /\ d = c /\ ~broken[s])
    <3>1. CASE ~broken[s] /\ toSink' = [toSink EXCEPT ![s] = Append(@, m)]
      <4>1. Sends(toSink, toSink', s, m)
        BY <1>0, <2>4, <3>1, NetAppend
      <4> QED
        BY <2>1, <3>1, <4>1 DEF Sends
    <3> QED
      BY <1>0, <2>2, <3>1
  <2>6. \A t \in Streams, d \in Collections :
           (Asking(t, d)' <=> Asking(t, d)) /\ (Watched(t, d)' <=> Watched(t, d))
    BY <2>3 DEF Asking, Watched
  <2>7. \A t \in Streams : Serving(t)' => Serving(t)
    BY <2>1, <2>3 DEF Serving, MCPInv, ConTypes
  <2>8. OnceInv'
    BY <1>0, <1>a, <2>1, <2>3, <2>5 DEF OnceInv
  <2>9. ApartInv'
    BY <1>0, <1>b, <2>1, <2>3, <2>5, <2>6 DEF ApartInv
  <2>10. SomewhereInv'
    BY <1>0, <1>c, <2>1, <2>3, <2>5, <2>6, <2>7 DEF SomewhereInv
  <2> QED
    BY <2>8, <2>9, <2>10
<1>3. ASSUME NEW s \in Streams, ProcessClientRequest(s), UNCHANGED sinkVars
      PROVE  OnceInv' /\ ApartInv' /\ SomewhereInv'
  <2> DEFINE c == Req(s).coll
             k == Asked(s)
  <2>1. /\ toSource[s] # <<>> /\ toSource' = [toSource EXCEPT ![s] = Tail(@)]
        /\ UNCHANGED <<pc, toSink, broken>>
        /\ c \in Collections /\ ~Watched(s, c) /\ ~HasKey(queue[s].items, c)
        /\ HasColl(toSource[s], c)
        /\ k \in Watches /\ k.stream = s /\ k.coll = c
        /\ \/ /\ openWatches' = openWatches
              /\ queue' = queueResponse(queue, k, snapshot[c])
              /\ snapshot[c] \in Generations(c)
           \/ openWatches' = openWatches \cup {k} /\ queue' = queue
    BY <1>3, Processed
  <2>2. Takes(toSource, toSource', s)
    BY <1>0, <2>1, NetTail
  <2>3. /\ Carries(toSource')
        /\ \A t \in Streams : \A d : HasColl(toSource'[t], d) <=>
              HasColl(toSource[t], d) /\ ~(t = s /\ d = c)
    BY <2>2 DEF Takes, Req
  <2> HIDE DEF c, k
  <2>4. \A t \in Streams, d \in Collections : Asking(t, d)' <=> Asking(t, d)
    BY <1>3 DEF Asking, sinkVars
  <2>5. CASE /\ openWatches' = openWatches
             /\ queue' = queueResponse(queue, k, snapshot[c])
             /\ snapshot[c] \in Generations(c)
    <3>1. /\ \A t \in Streams : queue'[t].closed = queue[t].closed /\ OnceKey(queue'[t].items)
          /\ \A t \in Streams : \A d : HasKey(queue'[t].items, d) <=>
                HasKey(queue[t].items, d) \/ (t = s /\ d = c /\ ~queue[t].closed)
      BY <2>1, <2>5, ResponseQueued DEF MCPInv, ConTypes
    <3>2. \A t \in Streams, d \in Collections : Watched(t, d)' <=> Watched(t, d)
      BY <2>5 DEF Watched
    <3>3. \A t \in Streams : Serving(t)' => Serving(t) /\ ~queue[t].closed
      BY <2>1, <3>1 DEF Serving
    <3>4. OnceInv'
      BY <1>0, <1>a, <2>1, <2>3, <2>5, <3>1 DEF OnceInv
    <3>5. ApartInv'
      <4> SUFFICES
            ASSUME NEW t \in Streams, NEW d \in Collections
            PROVE  /\ Asking(t, d)' => ~HasColl(toSource'[t], d) /\ ~Watched(t, d)'
                                       /\ ~HasKey(queue'[t].items, d) /\ ~HasColl(toSink'[t], d)
                   /\ HasColl(toSource'[t], d) =>
                         /\ ~Watched(t, d)' /\ ~HasKey(queue'[t].items, d)
                         /\ ~HasColl(toSink'[t], d)
                   /\ Watched(t, d)' => ~HasKey(queue'[t].items, d) /\ ~HasColl(toSink'[t], d)
                   /\ HasKey(queue'[t].items, d) => ~HasColl(toSink'[t], d)
        BY <1>b
      <4>1. CASE t = s /\ d = c
        <5>1. ~Asking(t, d) /\ ~Watched(t, d) /\ ~HasColl(toSink[t], d)
          BY <1>0, <2>1, <4>1 DEF ApartInv
        <5> QED
          BY <2>1, <2>3, <2>4, <3>2, <4>1, <5>1
      <4>2. CASE ~(t = s /\ d = c)
        <5>1. /\ HasColl(toSource'[t], d) <=> HasColl(toSource[t], d)
              /\ HasKey(queue'[t].items, d) <=> HasKey(queue[t].items, d)
              /\ toSink'[t] = toSink[t]
          BY <2>1, <2>3, <3>1, <4>2
        <5> QED
          BY <1>0, <2>4, <3>2, <5>1 DEF ApartInv
      <4> QED
        BY <4>1, <4>2
    <3>6. SomewhereInv'
      BY <1>0, <1>c, <2>1, <2>3, <2>4, <3>1, <3>2, <3>3 DEF SomewhereInv
    <3> QED
      BY <3>4, <3>5, <3>6
  <2>6. CASE openWatches' = openWatches \cup {k} /\ queue' = queue
    <3>1. \A t \in Streams, d \in Collections :
             Watched(t, d)' <=> Watched(t, d) \/ (t = s /\ d = c)
      BY <2>1, <2>6 DEF Watched
    <3>2. \A t \in Streams : Serving(t)' => Serving(t)
      BY <2>1, <2>6 DEF Serving
    <3>3. \A l, n \in openWatches' : l.stream = n.stream /\ l.coll = n.coll => l = n
      BY <1>0, <2>1, <2>6 DEF OnceInv, Watched
    <3>4. OnceInv'
      BY <1>0, <1>a, <2>1, <2>3, <2>6, <3>3 DEF OnceInv
    <3>5. ApartInv'
      BY <1>0, <1>b, <2>1, <2>3, <2>4, <2>6, <3>1 DEF ApartInv
    <3>6. SomewhereInv'
      BY <1>0, <1>c, <2>1, <2>3, <2>4, <2>6, <3>1, <3>2 DEF SomewhereInv
    <3> QED
      BY <3>4, <3>5, <3>6
  <2> QED
    BY <2>1, <2>5, <2>6
<1>4. ASSUME NEW s \in Streams, CloseConnection(s), UNCHANGED sinkVars
      PROVE  OnceInv' /\ ApartInv' /\ SomewhereInv'
  <2>1. /\ openWatches' \subseteq openWatches /\ UNCHANGED toSink
        /\ pc' = [pc EXCEPT ![s] = "gone"] /\ queue' = [queue EXCEPT ![s] = NewQueue]
        /\ toSource' = [toSource EXCEPT ![s] = <<>>]
        /\ broken' = [broken EXCEPT ![s] = TRUE]
        /\ \A k \in openWatches : k.stream # s => k \in openWatches'
    BY <1>4 DEF CloseConnection, Uncancelled
  <2>2. /\ pc'[s] = "gone" /\ queue'[s] = NewQueue /\ toSource'[s] = <<>>
        /\ DOMAIN toSource' = Streams
        /\ \A t \in Streams : t # s =>
              /\ pc'[t] = pc[t] /\ queue'[t] = queue[t]
              /\ toSource'[t] = toSource[t] /\ broken'[t] = broken[t]
    BY <2>1 DEF MCPInv, ConTypes, QueueTypes, NetTypes
  <2>3. /\ OnceKey(NewQueue.items) /\ \A d : ~HasKey(NewQueue.items, d)
        /\ IsSeq(<<>>) /\ OnceColl(<<>>) /\ \A d : ~HasColl(<<>>, d)
    BY <<>> \in Seq({}) DEF NewQueue, OnceKey, HasKey, OnceColl, HasColl, IsSeq
  <2>4. Carries(toSource') /\ \A t \in Streams : OnceKey(queue'[t].items)
    BY <1>0, <2>2, <2>3 DEF Carries, OnceInv
  <2>5. \A t \in Streams, d \in Collections :
           /\ Asking(t, d)' <=> Asking(t, d)
           /\ Watched(t, d)' => Watched(t, d)
           /\ t # s => (Watched(t, d)' <=> Watched(t, d))
    BY <1>4, <2>1 DEF Asking, Watched, sinkVars
  <2>6. OnceInv'
    BY <1>0, <1>a, <2>1, <2>4 DEF OnceInv
  <2>7. \A t \in Streams, d \in Collections :
           /\ HasColl(toSource'[t], d) => HasColl(toSource[t], d)
           /\ HasKey(queue'[t].items, d) => HasKey(queue[t].items, d)
    BY <2>2, <2>3
  <2>8. ApartInv'
    BY <1>0, <1>b, <2>1, <2>5, <2>7 DEF ApartInv
  <2>9. SomewhereInv'
    <3> SUFFICES ASSUME NEW t \in Streams, NEW d \in Collections, Serving(t)', ~broken'[t]
                 PROVE  \/ Asking(t, d)' \/ HasColl(toSource'[t], d) \/ Watched(t, d)'
                        \/ HasKey(queue'[t].items, d) \/ HasColl(toSink'[t], d)
      BY <1>c
    <3>1. t # s
      BY <2>2 DEF Serving
    <3>2. Serving(t) /\ ~broken[t]
      BY <2>2, <3>1 DEF Serving
    <3> QED
      BY <1>0, <2>1, <2>2, <2>5, <3>1, <3>2 DEF SomewhereInv
  <2> QED
    BY <2>6, <2>8, <2>9
<1>5. CASE EstablishResourceStream
  <2> DEFINE s == opened'
  <2>1. s \in Streams /\ s > opened /\ stream = 0
    BY <1>5, MCPSourceAssumption DEF EstablishResourceStream, MCPInv, SinkTypes, Streams
  <2>2. /\ stream' = s /\ initial' = Collections /\ pc' = [pc EXCEPT ![s] = "select"]
        /\ UNCHANGED <<openWatches, queue, toSource, toSink, broken>>
    BY <1>5 DEF EstablishResourceStream, cacheVars, netVars
  <2> HIDE DEF s
  <2>3. pc[s] = "none"
    BY <2>1 DEF MCPInv, LifeInv
  <2>4. toSource[s] = <<>> /\ toSink[s] = <<>> /\ queue[s].items = <<>>
    BY <2>1, <2>3 DEF MCPInv, LifeInv, NewQueue
  <2>5. \A d : ~HasColl(<<>>, d) /\ ~HasKey(<<>>, d)
    BY DEF HasColl, HasKey
  <2>6. \A t \in Streams, d \in Collections :
           /\ Asking(t, d)' <=> t = s
           /\ ~Asking(t, d)
           /\ Watched(t, d)' <=> Watched(t, d)
    BY <1>0, <2>1, <2>2 DEF Asking, Watched
  <2>7. \A d \in Collections : ~Watched(s, d)
    BY <2>3 DEF Watched, MCPInv, WatchInv
  <2>8. \A t \in Streams : t # s => (Serving(t)' => Serving(t))
    BY <2>2 DEF Serving, MCPInv, ConTypes
  <2>9. OnceInv'
    BY <1>0, <1>a, <2>2 DEF OnceInv
  <2>10. ApartInv'
    BY <1>0, <1>b, <2>2, <2>4, <2>5, <2>6, <2>7 DEF ApartInv
  <2>11. SomewhereInv'
    BY <1>0, <1>c, <2>2, <2>6, <2>8 DEF SomewhereInv
  <2> QED
    BY <2>9, <2>10, <2>11
<1>6. CASE SendInitialRequest
  <2>1. PICK c \in initial :
           /\ initial' = initial \ {c}
           /\ toSource' = [toSource EXCEPT ![stream] =
                 Append(@, Request(c, 0, FALSE, c \in IncSink))]
    BY <1>6 DEF SendInitialRequest
  <2>2. stream # 0 /\ UNCHANGED <<toSink, broken, openWatches, pc, queue, stream>>
    BY <1>6 DEF SendInitialRequest, cacheVars, conVars
  <2>3. /\ stream \in Streams /\ c \in Collections /\ Carries(toSource')
        /\ \A t \in Streams : \A d : HasColl(toSource'[t], d) <=>
              HasColl(toSource[t], d) \/ (t = stream /\ d = c)
    BY <2>1, <2>2, InitialSent
  <2>4. \A t \in Streams, d \in Collections :
           /\ Asking(t, d)' <=> Asking(t, d) /\ ~(t = stream /\ d = c)
           /\ Watched(t, d)' <=> Watched(t, d)
    BY <2>1, <2>2 DEF Asking, Watched
  <2>5. Asking(stream, c)
    BY DEF Asking
  <2>6. \A t \in Streams : Serving(t)' => Serving(t)
    BY <2>2 DEF Serving
  <2>7. OnceInv'
    BY <1>0, <1>a, <2>2, <2>3 DEF OnceInv
  <2>8. ApartInv'
    BY <1>0, <1>b, <2>2, <2>3, <2>4, <2>5 DEF ApartInv
  <2>9. SomewhereInv'
    BY <1>0, <1>c, <2>2, <2>3, <2>4, <2>6 DEF SomewhereInv
  <2> QED
    BY <2>7, <2>8, <2>9
<1>7. CASE HandleResponse \/ RejectResponse
  <2> DEFINE c == Heard.coll
  <2>1. UNCHANGED <<broken, openWatches, pc, queue, stream, initial>>
    BY <1>7 DEF HandleResponse, RejectResponse, cacheVars, conVars
  <2>2. PICK req : Exchanged(req)
    BY <1>7, Handled
  <2>3. /\ stream \in Streams /\ c \in Collections /\ HasColl(toSink[stream], c)
        /\ Carries(toSink') /\ Carries(toSource')
        /\ \A t \in Streams : \A d : HasColl(toSink'[t], d) <=>
              HasColl(toSink[t], d) /\ ~(t = stream /\ d = c)
        /\ \A t \in Streams : \A d : HasColl(toSource'[t], d) <=>
              HasColl(toSource[t], d) \/ (t = stream /\ d = c /\ ~broken[stream])
    BY <2>2 DEF Exchanged
  <2> HIDE DEF c
  <2>4. \A t \in Streams, d \in Collections :
           (Asking(t, d)' <=> Asking(t, d)) /\ (Watched(t, d)' <=> Watched(t, d))
    BY <2>1 DEF Asking, Watched
  <2>5. \A t \in Streams : Serving(t)' => Serving(t)
    BY <2>1 DEF Serving
  <2>6. OnceInv'
    BY <1>0, <1>a, <2>1, <2>3 DEF OnceInv
  <2>7. ApartInv'
    BY <1>0, <1>b, <2>1, <2>3, <2>4 DEF ApartInv
  <2>8. SomewhereInv'
    BY <1>0, <1>c, <2>1, <2>3, <2>4, <2>5 DEF SomewhereInv
  <2> QED
    BY <2>6, <2>7, <2>8
<1>8. CASE SinkStreamEnds
  <2>1. /\ stream # 0 /\ broken[stream] /\ stream' = 0
        /\ toSink' = [toSink EXCEPT ![stream] = <<>>]
        /\ UNCHANGED <<toSource, broken, openWatches, pc, queue>>
    BY <1>8 DEF SinkStreamEnds, cacheVars, conVars
  <2>2. stream \in Streams
    BY <2>1, MCPSourceAssumption DEF MCPInv, SinkTypes, Streams
  <2>3. /\ toSink'[stream] = <<>> /\ DOMAIN toSink' = Streams
        /\ \A t \in Streams : t # stream => toSink'[t] = toSink[t]
    BY <2>1, <2>2 DEF MCPInv, NetTypes
  <2>4. IsSeq(<<>>) /\ OnceColl(<<>>) /\ \A d : ~HasColl(<<>>, d)
    BY <<>> \in Seq({}) DEF OnceColl, HasColl, IsSeq
  <2>5. Carries(toSink')
    BY <1>0, <2>3, <2>4 DEF Carries
  <2>6. \A t \in Streams, d \in Collections :
           /\ ~Asking(t, d)'
           /\ t # stream => ~Asking(t, d)
           /\ Watched(t, d)' <=> Watched(t, d)
           /\ HasColl(toSink'[t], d) => HasColl(toSink[t], d)
    BY <1>0, <2>1, <2>3, <2>4 DEF Asking, Watched
  <2>7. \A t \in Streams : Serving(t)' => Serving(t)
    BY <2>1 DEF Serving
  <2>8. OnceInv'
    BY <1>0, <1>a, <2>1, <2>5 DEF OnceInv
  <2>9. ApartInv'
    BY <1>0, <1>b, <2>1, <2>6 DEF ApartInv
  <2>10. SomewhereInv'
    BY <1>0, <1>c, <2>1, <2>3, <2>6, <2>7 DEF SomewhereInv
  <2> QED
    BY <2>8, <2>9, <2>10
<1>9. ASSUME AnswerWatch, UNCHANGED sinkVars
      PROVE  OnceInv' /\ ApartInv' /\ SomewhereInv'
  <2>1. PICK k \in answering : /\ queue' = queueResponse(queue, k, snapshot[k.coll])
                               /\ openWatches' = openWatches \ {k}
    BY <1>9 DEF AnswerWatch
  <2>2. k \in Watches /\ k \in openWatches /\ snapshot = published
    BY DEF MCPInv, CacheTypes
  <2>3. k.coll \in Collections /\ k.stream \in Streams
    BY <2>2 DEF Watches
  <2>4. snapshot[k.coll] \in Generations(k.coll)
    BY <2>2, <2>3 DEF MCPInv, CacheTypes
  <2>5. Watched(k.stream, k.coll)
    BY <2>2 DEF Watched
  <2>6. ~HasKey(queue[k.stream].items, k.coll)
    BY <1>0, <2>3, <2>5 DEF ApartInv
  <2>7. /\ \A t \in Streams : queue'[t].closed = queue[t].closed /\ OnceKey(queue'[t].items)
        /\ \A t \in Streams : \A d : HasKey(queue'[t].items, d) <=>
              HasKey(queue[t].items, d) \/ (t = k.stream /\ d = k.coll /\ ~queue[t].closed)
    BY <2>1, <2>2, <2>4, <2>6, ResponseQueued DEF MCPInv, ConTypes
  <2>8. UNCHANGED <<pc, toSource, toSink, broken, stream, initial>>
    BY <1>9 DEF AnswerWatch, netVars, sinkVars
  <2>9. \A t \in Streams, d \in Collections :
           /\ Asking(t, d)' <=> Asking(t, d)
           /\ Watched(t, d)' <=> Watched(t, d) /\ ~(t = k.stream /\ d = k.coll)
    BY <1>0, <2>1, <2>2, <2>8 DEF Asking, Watched, OnceInv
  <2>10. \A t \in Streams : Serving(t)' => Serving(t) /\ ~queue[t].closed
    BY <2>7, <2>8 DEF Serving
  <2>11. OnceInv'
    BY <1>0, <1>a, <2>1, <2>7, <2>8 DEF OnceInv
  <2>12. ApartInv'
    BY <1>0, <1>b, <2>5, <2>7, <2>8, <2>9 DEF ApartInv
  <2>13. SomewhereInv'
    BY <1>0, <1>c, <2>7, <2>8, <2>9, <2>10 DEF SomewhereInv
  <2> QED
    BY <2>11, <2>12, <2>13
<1>10. ASSUME ClearStatus, UNCHANGED sinkVars
       PROVE  OnceInv' /\ ApartInv' /\ SomewhereInv'
  <2>1. /\ openWatches' = {} /\ UNCHANGED <<pc, toSource, toSink, broken, stream, initial>>
        /\ queue' = [s \in Streams |->
              IF \E k \in openWatches : k.stream = s THEN Close(queue[s]) ELSE queue[s]]
    BY <1>10 DEF ClearStatus, netVars, sinkVars
  <2>2. \A t \in Streams : Close(queue[t]).items = queue[t].items /\ Close(queue[t]).closed
    BY DEF Close, MCPInv, QueueTypes, Queues
  <2>3. \A t \in Streams :
           /\ queue'[t].items = queue[t].items
           /\ ~queue'[t].closed => ~queue[t].closed /\ ~(\E k \in openWatches : k.stream = t)
    BY <2>1, <2>2
  <2>4. \A t \in Streams, d \in Collections :
           (Asking(t, d)' <=> Asking(t, d)) /\ ~Watched(t, d)'
    BY <2>1 DEF Asking, Watched
  <2>5. \A t \in Streams, d \in Collections : Serving(t)' => Serving(t) /\ ~Watched(t, d)
    BY <2>1, <2>3 DEF Serving, Watched
  <2>6. OnceInv'
    BY <1>0, <1>a, <2>1, <2>3 DEF OnceInv
  <2>7. ApartInv'
    BY <1>0, <1>b, <2>1, <2>3, <2>4 DEF ApartInv
  <2>8. SomewhereInv'
    BY <1>0, <1>c, <2>1, <2>3, <2>4, <2>5 DEF SomewhereInv
  <2> QED
    BY <2>6, <2>7, <2>8
<1>11. ASSUME NEW s \in Streams, UNCHANGED sinkVars, TakeReady(s) \/ ProcessStreamReturns(s)
       PROVE  OnceInv' /\ ApartInv' /\ SomewhereInv'
  <2>1. /\ UNCHANGED <<stream, initial, toSource, toSink, openWatches, broken>>
        /\ pc[s] = "select" /\ \E p \in {"dequeue", "closing"} : pc' = [pc EXCEPT ![s] = p]
        /\ queue' = queue \/ queue' = [queue EXCEPT ![s] = TakeToken(queue[s])]
    BY <1>11 DEF TakeReady, ProcessStreamReturns, cacheVars, netVars, sinkVars
  <2>2. /\ TakeToken(queue[s]).items = queue[s].items
        /\ TakeToken(queue[s]).closed = queue[s].closed
    BY DEF TakeToken, MCPInv, QueueTypes, Queues
  <2>3. \A t \in Streams : queue'[t].items = queue[t].items /\ queue'[t].closed = queue[t].closed
    BY <2>1, <2>2 DEF MCPInv, QueueTypes
  <2>4. \A t \in Streams : Serving(t)' => Serving(t)
    BY <2>1, <2>3 DEF Serving, MCPInv, ConTypes
  <2> QED
    BY <1>1, <2>1, <2>3, <2>4
<1>12. ASSUME UNCHANGED <<pc, queue, toSource, toSink, broken, openWatches, stream, initial>>
       PROVE  OnceInv' /\ ApartInv' /\ SomewhereInv'
  <2>1. \A t \in Streams : Serving(t)' => Serving(t)
    BY <1>12 DEF Serving
  <2> QED
    BY <1>1, <1>12, <2>1
<1>13. ASSUME NEW s \in Streams, StreamBreaks(s)
       PROVE  OnceInv' /\ ApartInv' /\ SomewhereInv'
  <2>1. /\ UNCHANGED <<pc, queue, toSource, toSink, openWatches, stream, initial>>
        /\ broken' = [broken EXCEPT ![s] = TRUE]
    BY <1>13 DEF StreamBreaks, cacheVars, conVars, sinkVars
  <2>2. \A t \in Streams : broken[t] => broken'[t]
    BY <2>1 DEF MCPInv, NetTypes
  <2>3. \A t \in Streams : Serving(t)' => Serving(t)
    BY <2>1 DEF Serving
  <2> QED
    BY <1>1, <2>1, <2>2, <2>3
<1> QED
  BY <1>2, <1>3, <1>4, <1>5, <1>6, <1>7, <1>8, <1>9, <1>10, <1>11, <1>12, <1>13
  DEF Next, vars, sourceVars, cacheVars, conVars, netVars, sinkVars, SourceRuns, SourceStep,
      SinkStep, Publish, SetSnapshot, ClearSnapshot

(* A request answers the response that is pending, or there is none.       *)
LEMMA NonceStep ==
    ASSUME MCPInv, [Next]_vars
    PROVE  NonceInv'
<1> USE DEF NonceInv
<1>0. /\ Carries(toSource) /\ Carries(toSink) /\ ApartInv /\ NonceInv
      /\ \A s \in Streams : s # 0
  BY NetCarries, MCPSourceAssumption DEF MCPInv, Streams
<1>a. /\ \A t \in Streams : \A i \in 1..Len(toSource[t]) :
            toSource[t][i].coll \in Collections /\ HasColl(toSource[t], toSource[t][i].coll)
      /\ \A t \in Streams : \A i \in 1..Len(toSink[t]) :
            toSink[t][i].coll \in Collections /\ HasColl(toSink[t], toSink[t][i].coll)
  <2>1. \A t \in Streams : toSource[t] \in Seq(Requests)
    BY DEF MCPInv, NetTypes
  <2>2. \A t \in Streams : \A i \in 1..Len(toSource[t]) : toSource[t][i] \in Requests
    BY <2>1
  <2> QED
    BY <2>2 DEF MCPInv, NetTypes, IsMessage, Requests, HasColl
<1>b. ASSUME ASSUME NEW t \in Streams, NEW i \in 1..Len(toSource'[t])
             PROVE  toSource'[t][i].nonce = watch'[t][toSource'[t][i].coll].pending.nonce,
             ASSUME NEW t \in Streams, NEW d \in Collections, Asking(t, d)'
             PROVE  watch'[t][d].pending = NoMsg,
             ASSUME NEW t \in Streams, ~broken'[t], NEW i \in 1..Len(toSink'[t])
             PROVE  toSink'[t][i] = watch'[t][toSink'[t][i].coll].pending
      PROVE  NonceInv'
  BY <1>b DEF NoMsg
<1>1. ASSUME UNCHANGED <<watch, toSource, toSink>>,
             \A t \in Streams, d \in Collections : Asking(t, d)' => Asking(t, d),
             \A t \in Streams : ~broken'[t] => ~broken[t]
      PROVE  NonceInv'
  BY <1>0, <1>1, <1>b
<1>2. ASSUME NEW s \in Streams, PushServerResponse(s), UNCHANGED sinkVars PROVE NonceInv'
  <2> DEFINE c == Entry(s).key
             m == Response(s)
  <2>1. c \in Collections /\ HasKey(queue[s].items, c) /\ m.coll = c
    BY <1>2, Pushed
  <2>2. \/ /\ \A t \in Streams, d \in Collections : t # s \/ d # c => watch'[t][d] = watch[t][d]
           /\ watch'[s][c].pending = m
           /\ toSink' = IF broken[s] THEN toSink ELSE [toSink EXCEPT ![s] = Append(@, m)]
        \/ broken[s] /\ UNCHANGED <<watch, toSink>>
    BY <1>2, PushedWatch
  <2>3. /\ UNCHANGED <<toSource, broken>>
        /\ \A t \in Streams, d \in Collections : Asking(t, d)' <=> Asking(t, d)
    BY <1>2 DEF PushServerResponse, sinkVars, Asking
  <2> HIDE DEF c, m
  <2>4. ~HasColl(toSource[s], c) /\ ~HasColl(toSink[s], c) /\ ~Asking(s, c)
    BY <1>0, <2>1 DEF ApartInv
  <2>5. CASE UNCHANGED <<watch, toSink>>
    BY <1>1, <2>3, <2>5
  <2>6. CASE /\ \A t \in Streams, d \in Collections : t # s \/ d # c => watch'[t][d] = watch[t][d]
             /\ watch'[s][c].pending = m
             /\ toSink' = IF broken[s] THEN toSink ELSE [toSink EXCEPT ![s] = Append(@, m)]
    <3>1. ASSUME NEW t \in Streams, NEW i \in 1..Len(toSource'[t])
          PROVE  toSource'[t][i].nonce = watch'[t][toSource'[t][i].coll].pending.nonce
      BY <1>0, <1>a, <2>3, <2>4, <2>6
    <3>2. ASSUME NEW t \in Streams, NEW d \in Collections, Asking(t, d)'
          PROVE  watch'[t][d].pending = NoMsg
      BY <1>0, <2>3, <2>4, <2>6, <3>2
    <3>3. ASSUME NEW t \in Streams, ~broken'[t], NEW i \in 1..Len(toSink'[t])
          PROVE  toSink'[t][i] = watch'[t][toSink'[t][i].coll].pending
      <4>1. CASE toSink' = toSink
        BY <1>0, <1>a, <2>3, <2>4, <2>6, <3>3, <4>1
      <4>2. CASE toSink' = [toSink EXCEPT ![s] = Append(@, m)]
        <5>1. Sends(toSink, toSink', s, m)
          BY <1>0, <2>1, <2>4, <4>2, NetAppend
        <5>2. \/ i \in 1..Len(toSink[t]) /\ toSink'[t][i] = toSink[t][i]
              \/ t = s /\ toSink'[t][i] = m
          BY <5>1 DEF Sends
        <5>3. CASE i \in 1..Len(toSink[t]) /\ toSink'[t][i] = toSink[t][i]
          BY <1>0, <1>a, <2>3, <2>4, <2>6, <3>3, <5>3
        <5> QED
          BY <2>1, <2>6, <5>2, <5>3
      <4> QED
        BY <2>6, <4>1, <4>2
    <3> QED
      BY <1>b, <3>1, <3>2, <3>3
  <2> QED
    BY <2>2, <2>5, <2>6
<1>3. ASSUME NEW s \in Streams, ProcessClientRequest(s), UNCHANGED sinkVars PROVE NonceInv'
  <2> DEFINE c == Req(s).coll
  <2>1. /\ toSource[s] # <<>> /\ toSource' = [toSource EXCEPT ![s] = Tail(@)]
        /\ UNCHANGED <<toSink, broken>>
        /\ c \in Collections /\ HasColl(toSource[s], c)
    BY <1>3, Processed
  <2>2. /\ \A t \in Streams, d \in Collections : t # s \/ d # c => watch'[t][d] = watch[t][d]
        /\ watch'[s][c].pending = NoMsg
    BY <1>3, ProcessedWatch
  <2>3. Takes(toSource, toSource', s)
    BY <1>0, <2>1, NetTail
  <2>4. \A t \in Streams, d \in Collections : Asking(t, d)' <=> Asking(t, d)
    BY <1>3 DEF sinkVars, Asking
  <2>5. ~HasColl(toSink[s], c)
    BY <1>0, <2>1 DEF ApartInv
  <2>6. \A t \in Streams : \A d : HasColl(toSource'[t], d) <=>
           HasColl(toSource[t], d) /\ ~(t = s /\ d = c)
    BY <2>3 DEF Takes, Req
  <2> HIDE DEF c
  <2>7. ASSUME NEW t \in Streams, NEW i \in 1..Len(toSource'[t])
        PROVE  toSource'[t][i].nonce = watch'[t][toSource'[t][i].coll].pending.nonce
    <3>1. PICK j \in 1..Len(toSource[t]) : toSource'[t][i] = toSource[t][j]
      BY <2>3 DEF Takes
    <3>2. HasColl(toSource'[t], toSource[t][j].coll)
      BY <3>1 DEF HasColl
    <3>3. t # s \/ toSource[t][j].coll # c
      BY <2>6, <3>2
    <3> QED
      BY <1>0, <1>a, <2>2, <3>1, <3>3
  <2>8. ASSUME NEW t \in Streams, NEW d \in Collections, Asking(t, d)'
        PROVE  watch'[t][d].pending = NoMsg
    BY <1>0, <2>2, <2>4, <2>8
  <2>9. ASSUME NEW t \in Streams, ~broken'[t], NEW i \in 1..Len(toSink'[t])
        PROVE  toSink'[t][i] = watch'[t][toSink'[t][i].coll].pending
    BY <1>0, <1>a, <2>1, <2>2, <2>5, <2>9
  <2> QED
    BY <1>b, <2>7, <2>8, <2>9
<1>4. ASSUME NEW s \in Streams, CloseConnection(s), UNCHANGED sinkVars PROVE NonceInv'
  <2>1. /\ toSource' = [toSource EXCEPT ![s] = <<>>] /\ UNCHANGED toSink
        /\ broken' = [broken EXCEPT ![s] = TRUE]
        /\ watch' = [watch EXCEPT ![s] = [c \in Collections |-> NewWatch]]
    BY <1>4 DEF CloseConnection
  <2>2. /\ toSource'[s] = <<>> /\ broken'[s]
        /\ \A d \in Collections : watch'[s][d] = NewWatch
        /\ \A t \in Streams : t # s =>
              toSource'[t] = toSource[t] /\ broken'[t] = broken[t] /\ watch'[t] = watch[t]
    BY <2>1 DEF MCPInv, NetTypes, ConTypes
  <2>3. NewWatch.pending = NoMsg
    BY DEF NewWatch
  <2>4. \A t \in Streams, d \in Collections : Asking(t, d)' <=> Asking(t, d)
    BY <1>4 DEF sinkVars, Asking
  <2>5. ASSUME NEW t \in Streams, NEW i \in 1..Len(toSource'[t])
        PROVE  toSource'[t][i].nonce = watch'[t][toSource'[t][i].coll].pending.nonce
    <3>1. t # s
      BY <2>2
    <3> QED
      BY <1>0, <2>2, <3>1
  <2>6. ASSUME NEW t \in Streams, NEW d \in Collections, Asking(t, d)'
        PROVE  watch'[t][d].pending = NoMsg
    BY <1>0, <2>2, <2>3, <2>4, <2>6
  <2>7. ASSUME NEW t \in Streams, ~broken'[t], NEW i \in 1..Len(toSink'[t])
        PROVE  toSink'[t][i] = watch'[t][toSink'[t][i].coll].pending
    BY <1>0, <2>1, <2>2, <2>7
  <2> QED
    BY <1>b, <2>5, <2>6, <2>7
<1>5. CASE EstablishResourceStream
  <2> DEFINE s == opened'
  <2>1. s \in Streams /\ s > opened
    BY <1>5, MCPSourceAssumption DEF EstablishResourceStream, MCPInv, SinkTypes, Streams
  <2>2. stream' = s /\ UNCHANGED <<watch, toSource, toSink, broken>>
    BY <1>5 DEF EstablishResourceStream, netVars
  <2> HIDE DEF s
  <2>3. \A d \in Collections : watch[s][d] = NewWatch
    BY <2>1 DEF MCPInv, LifeInv
  <2>4. ASSUME NEW t \in Streams, NEW d \in Collections, Asking(t, d)'
        PROVE  watch'[t][d].pending = NoMsg
    BY <2>2, <2>3, <2>4 DEF Asking, NewWatch
  <2> QED
    BY <1>0, <1>b, <2>2, <2>4
<1>6. CASE SendInitialRequest
  <2>1. PICK c \in initial :
           /\ initial' = initial \ {c}
           /\ toSource' = [toSource EXCEPT ![stream] =
                 Append(@, Request(c, 0, FALSE, c \in IncSink))]
    BY <1>6 DEF SendInitialRequest
  <2>2. stream # 0 /\ UNCHANGED <<toSink, broken, watch, stream>>
    BY <1>6 DEF SendInitialRequest, conVars
  <2>3. /\ stream \in Streams /\ c \in Collections
        /\ \A t \in Streams : \A i \in 1..Len(toSource'[t]) :
              \/ i \in 1..Len(toSource[t]) /\ toSource'[t][i] = toSource[t][i]
              \/ t = stream /\ toSource'[t][i] = Request(c, 0, FALSE, c \in IncSink)
    BY <2>1, <2>2, InitialSent
  <2>4. watch[stream][c].pending = NoMsg
    BY <1>0, <2>3 DEF Asking
  <2>5. \A b : Request(c, 0, FALSE, b).coll = c /\ Request(c, 0, FALSE, b).nonce = NoMsg.nonce
    BY DEF Request, NoMsg
  <2>6. \A t \in Streams, d \in Collections : Asking(t, d)' => Asking(t, d)
    BY <2>1, <2>2 DEF Asking
  <2>7. ASSUME NEW t \in Streams, NEW i \in 1..Len(toSource'[t])
        PROVE  toSource'[t][i].nonce = watch'[t][toSource'[t][i].coll].pending.nonce
    <3>1. CASE i \in 1..Len(toSource[t]) /\ toSource'[t][i] = toSource[t][i]
      BY <1>0, <2>2, <3>1
    <3>2. CASE t = stream /\ toSource'[t][i] = Request(c, 0, FALSE, c \in IncSink)
      <4> DEFINE req == Request(c, 0, FALSE, c \in IncSink)
      <4>1. req.coll = c /\ req.nonce = NoMsg.nonce
        BY <2>5
      <4>2. t = stream /\ toSource'[t][i] = req
        BY <3>2
      <4> HIDE DEF req
      <4> QED
        BY <2>2, <2>4, <4>1, <4>2
    <3> QED
      BY <2>3, <3>1, <3>2
  <2> QED
    BY <1>0, <1>b, <2>2, <2>6, <2>7
<1>7. CASE HandleResponse \/ RejectResponse
  <2>1. UNCHANGED <<broken, watch>> /\ \A t \in Streams, d \in Collections : Asking(t, d)' <=> Asking(t, d)
    BY <1>7 DEF HandleResponse, RejectResponse, conVars, Asking
  <2>2. PICK req : Exchanged(req) /\ req.coll = Heard.coll /\ req.nonce = Heard.nonce
    BY <1>7, Handled
  <2>3. /\ stream \in Streams /\ Heard = toSink[stream][1] /\ 1 \in 1..Len(toSink[stream])
        /\ \A t \in Streams : \A i \in 1..Len(toSink'[t]) :
              \E j \in 1..Len(toSink[t]) : toSink'[t][i] = toSink[t][j]
        /\ \A t \in Streams : \A i \in 1..Len(toSource'[t]) :
              \/ i \in 1..Len(toSource[t]) /\ toSource'[t][i] = toSource[t][i]
              \/ t = stream /\ ~broken[stream] /\ toSource'[t][i] = req
    BY <2>2 DEF Exchanged
  <2>4. ~broken[stream] => Heard = watch[stream][Heard.coll].pending
    BY <1>0, <2>3
  <2>5. ASSUME NEW t \in Streams, NEW i \in 1..Len(toSource'[t])
        PROVE  toSource'[t][i].nonce = watch'[t][toSource'[t][i].coll].pending.nonce
    BY <1>0, <2>1, <2>2, <2>3, <2>4
  <2>6. ASSUME NEW t \in Streams, ~broken'[t], NEW i \in 1..Len(toSink'[t])
        PROVE  toSink'[t][i] = watch'[t][toSink'[t][i].coll].pending
    <3>1. PICK j \in 1..Len(toSink[t]) : toSink'[t][i] = toSink[t][j]
      BY <2>3
    <3> QED
      BY <1>0, <2>1, <2>6, <3>1
  <2> QED
    BY <1>0, <1>b, <2>1, <2>5, <2>6
<1>8. CASE SinkStreamEnds
  <2>1. stream' = 0 /\ UNCHANGED <<toSource, broken, watch>>
    BY <1>8 DEF SinkStreamEnds, conVars
  <2>2. toSink' = [toSink EXCEPT ![stream] = <<>>]
    BY <1>8 DEF SinkStreamEnds
  <2>3. \A t \in Streams : toSink'[t] = toSink[t] \/ toSink'[t] = <<>>
    BY <2>2 DEF MCPInv, NetTypes
  <2>4. ASSUME NEW t \in Streams, NEW d \in Collections, Asking(t, d)' PROVE FALSE
    BY <1>0, <2>1, <2>4 DEF Asking
  <2>5. ASSUME NEW t \in Streams, ~broken'[t], NEW i \in 1..Len(toSink'[t])
        PROVE  toSink'[t][i] = watch'[t][toSink'[t][i].coll].pending
    <3>1. toSink'[t] = toSink[t]
      BY <2>3
    <3> QED
      BY <1>0, <2>1, <2>5, <3>1
  <2> QED
    BY <1>0, <1>b, <2>1, <2>4, <2>5
<1>9. ASSUME UNCHANGED <<watch, toSource, toSink, broken, stream, initial>> PROVE NonceInv'
  BY <1>1, <1>9 DEF Asking
<1>10. ASSUME NEW s \in Streams, StreamBreaks(s) PROVE NonceInv'
  <2>1. /\ UNCHANGED <<watch, toSource, toSink, stream, initial>>
        /\ broken' = [broken EXCEPT ![s] = TRUE]
    BY <1>10 DEF StreamBreaks, conVars, sinkVars
  <2>2. \A t \in Streams : ~broken'[t] => ~broken[t]
    BY <2>1 DEF MCPInv, NetTypes
  <2> QED
    BY <1>1, <2>1, <2>2 DEF Asking
<1> QED
  BY <1>2, <1>3, <1>4, <1>5, <1>6, <1>7, <1>8, <1>9, <1>10
  DEF Next, vars, sourceVars, conVars, netVars, sinkVars, SourceRuns, SourceStep, SinkStep,
      TakeReady, ProcessStreamReturns, Publish, ClearSnapshot, AnswerWatch, ClearStatus

-----------------------------------------------------------------------------
(* What the sink holds. *)

(* A change applied to what the sink holds and to what it acknowledged     *)
(* keeps the two together.                                                 *)
LEMMA TrackCovers ==
    ASSUME NEW held, NEW others, NEW want, NEW m, Covers(held, others, want)
    PROVE  Covers(Track(held, m), IF m.inc THEN others \ m.removed ELSE {}, Track(want, m))
<1>1. CASE m.inc
  <2>1. /\ DOMAIN Track(held, m) = (DOMAIN held \cup DOMAIN m.added) \ m.removed
        /\ DOMAIN Track(want, m) = (DOMAIN want \cup DOMAIN m.added) \ m.removed
    BY <1>1 DEF Track
  <2>2. /\ \A n \in DOMAIN Track(held, m) : Track(held, m)[n] =
              IF n \in DOMAIN m.added THEN m.added[n] ELSE held[n]
        /\ \A n \in DOMAIN Track(want, m) : Track(want, m)[n] =
              IF n \in DOMAIN m.added THEN m.added[n] ELSE want[n]
    BY <1>1 DEF Track
  <2>3. DOMAIN Track(want, m) \subseteq DOMAIN Track(held, m)
    BY <2>1 DEF Covers
  <2>4. ASSUME NEW n \in DOMAIN Track(want, m)
        PROVE  Track(held, m)[n] = Track(want, m)[n]
    <3>1. n \in DOMAIN m.added \/ n \in DOMAIN want
      BY <2>1
    <3> QED
      BY <2>2, <2>3, <3>1 DEF Covers
  <2>5. DOMAIN Track(held, m) \subseteq DOMAIN Track(want, m) \cup (others \ m.removed)
    BY <2>1 DEF Covers
  <2> QED
    BY <1>1, <2>3, <2>4, <2>5 DEF Covers
<1>2. CASE ~m.inc
  BY <1>2 DEF Track, Covers
<1> QED
  BY <1>1, <1>2

(* Covering depends on nothing but the resources. *)
LEMMA SameCovers ==
    ASSUME NEW held, NEW others, NEW f, NEW g, Covers(held, others, f), Same(f, g)
    PROVE  Covers(held, others, g)
BY DEF Covers, Same

(* The stream the sink has is one of the streams. *)
LEMMA StreamIsOne ==
    ASSUME MCPInv, stream # 0
    PROVE  stream \in Streams
BY MCPSourceAssumption DEF MCPInv, SinkTypes, Streams

(* Steps that leave the sink and what the source believes alone. *)
LEMMA HeldQuiet ==
    ASSUME MCPInv, UNCHANGED <<stream, toSource, watch, store, inherited, rejected>>,
           openWatches' \subseteq openWatches,
           stream # 0 /\ ~broken'[stream] => ~broken[stream]
    PROVE  HeldInv'
<1> SUFFICES ASSUME stream' # 0, ~broken'[stream'] PROVE StoreInv' /\ NackInv' /\ IdleInv'
  BY DEF HeldInv
<1>1. StoreInv /\ NackInv /\ IdleInv
  BY DEF MCPInv, HeldInv
<1>2. \A c \in Collections : Believed(c)' = Believed(c)
  BY DEF Believed, Acking
<1>3. StoreInv'
  BY <1>1, <1>2 DEF StoreInv
<1>4. NackInv'
  BY <1>1 DEF NackInv
<1>5. IdleInv'
  BY <1>1 DEF IdleInv
<1> QED
  BY <1>3, <1>4, <1>5

(* A response the source has sent is not acknowledged yet. *)
LEMMA HeldPush ==
    ASSUME MCPInv, NEW s \in Streams, PushServerResponse(s), UNCHANGED sinkVars
    PROVE  HeldInv'
<1> DEFINE c == Entry(s).key
<1>1. UNCHANGED <<openWatches, toSource, broken, stream, store, inherited, rejected>>
  BY DEF PushServerResponse, sinkVars, cacheVars
<1>2. c \in Collections /\ HasKey(queue[s].items, c)
  BY Pushed
<1>3. /\ \A t \in Streams, d \in Collections : watch'[t][d].acked = watch[t][d].acked
      /\ \A t \in Streams, d \in Collections :
            t # s \/ d # c => watch'[t][d].pending = watch[t][d].pending
  BY PushedWatch
<1> HIDE DEF c
<1>4. ~HasColl(toSource[s], c)
  BY <1>2 DEF MCPInv, ApartInv
<1> SUFFICES ASSUME stream' # 0, ~broken'[stream'] PROVE StoreInv' /\ NackInv' /\ IdleInv'
  BY DEF HeldInv
<1>5. stream \in Streams /\ StoreInv /\ NackInv /\ IdleInv
  BY <1>1, StreamIsOne DEF MCPInv, HeldInv
<1>6. ASSUME NEW d \in Collections PROVE Believed(d)' = Believed(d)
  <2>1. Acking(d)' <=> Acking(d)
    BY <1>1 DEF Acking
  <2>2. CASE Acking(d)
    <3>1. stream # s \/ d # c
      BY <1>4, <2>2 DEF Acking, HasColl
    <3>2. /\ watch'[stream][d].acked = watch[stream][d].acked
          /\ watch'[stream][d].pending = watch[stream][d].pending
      BY <1>3, <1>5, <3>1
    <3> QED
      BY <1>1, <2>1, <2>2, <3>2 DEF Believed
  <2>3. CASE ~Acking(d)
    <3>1. watch'[stream][d].acked = watch[stream][d].acked
      BY <1>3, <1>5
    <3> QED
      BY <1>1, <2>1, <2>3, <3>1 DEF Believed
  <2> QED
    BY <2>2, <2>3
<1>7. StoreInv'
  BY <1>1, <1>5, <1>6 DEF StoreInv
<1>8. NackInv'
  BY <1>1, <1>5 DEF NackInv
<1>9. IdleInv'
  BY <1>1, <1>5 DEF IdleInv
<1> QED
  BY <1>7, <1>8, <1>9

(* An ACK makes the source believe what the sink has held since it sent it. *)
LEMMA HeldProcess ==
    ASSUME MCPInv, NEW s \in Streams, ProcessClientRequest(s), UNCHANGED sinkVars
    PROVE  HeldInv'
<1> DEFINE k == Asked(s)
           p == Push(s).pending
<1>c. PICK c : c = Req(s).coll
  OBVIOUS
<1>1. /\ UNCHANGED <<stream, store, inherited, rejected, broken>>
      /\ toSource[s] # <<>> /\ toSource' = [toSource EXCEPT ![s] = Tail(@)]
  BY Processed DEF sinkVars
<1>2. /\ c \in Collections /\ k.stream = s /\ k.coll = c
      /\ Req(s) = toSource[s][1] /\ 1 \in 1..Len(toSource[s])
      /\ Req(s).nonce = p.nonce
  BY <1>c, Processed
<1>3. k.version = IF p = NoMsg THEN 0 ELSE p.version
  BY Processed
<1>4. openWatches' \subseteq openWatches \cup {k}
  BY Processed
<1>5. /\ \A t \in Streams, d \in Collections : t # s \/ d # c => watch'[t][d] = watch[t][d]
      /\ watch'[s][c].acked = IF p # NoMsg /\ ~Req(s).nack
                              THEN Track(watch[s][c].acked, p) ELSE watch[s][c].acked
  BY <1>c, ProcessedWatch DEF Push
<1>6. Carries(toSource)
  BY NetCarries DEF MCPInv
<1>7. Takes(toSource, toSource', s)
  BY <1>1, <1>6, NetTail
<1>8. /\ \A t \in Streams : \A d : HasColl(toSource'[t], d) <=>
            HasColl(toSource[t], d) /\ ~(t = s /\ d = c)
      /\ \A t \in Streams : t # s => toSource'[t] = toSource[t]
      /\ \A t \in Streams : \A i \in 1..Len(toSource'[t]) :
            \E j \in 1..Len(toSource[t]) : toSource'[t][i] = toSource[t][j]
      /\ \A t \in Streams : \A j \in 1..Len(toSource[t]) :
            (t = s => j # 1) => \E i \in 1..Len(toSource'[t]) : toSource'[t][i] = toSource[t][j]
  BY <1>7, <1>c DEF Takes, Req
<1>9. p = watch[s][c].pending /\ (p = NoMsg <=> p.nonce = 0)
  BY <1>2, <1>c DEF Push, MCPInv, ConTypes, NoMsg
<1>10. OnceColl(toSource[s])
  BY <1>6 DEF Carries
<1>11. p # NoMsg => Same(Track(watch[s][c].acked, p), Resources(c, p.version))
  BY <1>2, <1>9 DEF MCPInv, PendingInv
<1> HIDE DEF k, p
<1> SUFFICES ASSUME stream' # 0, ~broken'[stream'] PROVE StoreInv' /\ NackInv' /\ IdleInv'
  BY DEF HeldInv
<1>12. stream \in Streams /\ StoreInv /\ NackInv /\ IdleInv
  BY <1>1, StreamIsOne DEF MCPInv, HeldInv
<1>13. ASSUME NEW d \in Collections, stream # s \/ d # c
       PROVE  Believed(d)' = Believed(d)
  <2>1. Acking(d)' <=> Acking(d)
    <3>1. ASSUME Acking(d)' PROVE Acking(d)
      <4>1. PICK i \in 1..Len(toSource'[stream]) :
               /\ toSource'[stream][i].coll = d
               /\ toSource'[stream][i].nonce # 0 /\ ~toSource'[stream][i].nack
        BY <1>1, <3>1 DEF Acking
      <4>2. PICK j \in 1..Len(toSource[stream]) : toSource'[stream][i] = toSource[stream][j]
        BY <1>8, <1>12
      <4> QED
        BY <4>1, <4>2 DEF Acking
    <3>2. ASSUME Acking(d) PROVE Acking(d)'
      <4>1. PICK j \in 1..Len(toSource[stream]) :
               /\ toSource[stream][j].coll = d
               /\ toSource[stream][j].nonce # 0 /\ ~toSource[stream][j].nack
        BY <3>2 DEF Acking
      <4>2. stream = s => j # 1
        BY <1>c, <1>2, <1>13, <4>1
      <4>3. PICK i \in 1..Len(toSource'[stream]) : toSource'[stream][i] = toSource[stream][j]
        BY <1>8, <1>12, <4>2
      <4> QED
        BY <1>1, <4>1, <4>3 DEF Acking
    <3> QED
      BY <3>1, <3>2
  <2>2. watch'[stream][d] = watch[stream][d]
    BY <1>5, <1>12, <1>13
  <2> QED
    BY <1>1, <2>1, <2>2 DEF Believed
<1>14. ASSUME stream = s PROVE Believed(c)' = Believed(c)
  <2>1. ~Acking(c)'
    BY <1>1, <1>8, <1>14 DEF Acking, HasColl
  <2>2. Acking(c) <=> p # NoMsg /\ ~Req(s).nack
    <3>1. ASSUME p # NoMsg, ~Req(s).nack PROVE Acking(c)
      BY <1>c, <1>2, <1>9, <1>14, <3>1 DEF Acking
    <3>2. ASSUME Acking(c) PROVE p # NoMsg /\ ~Req(s).nack
      <4>1. PICK i \in 1..Len(toSource[s]) :
               toSource[s][i].coll = c /\ toSource[s][i].nonce # 0 /\ ~toSource[s][i].nack
        BY <1>14, <3>2 DEF Acking
      <4>2. i = 1
        BY <1>c, <1>2, <1>10, <4>1 DEF OnceColl
      <4> QED
        BY <1>2, <1>9, <4>1, <4>2
    <3> QED
      BY <3>1, <3>2
  <2>3. Believed(c)' = watch'[s][c].acked
    BY <1>1, <1>14, <2>1 DEF Believed
  <2> QED
    BY <1>5, <1>9, <1>14, <2>2, <2>3 DEF Believed
<1>15. StoreInv'
  BY <1>1, <1>12, <1>13, <1>14 DEF StoreInv
<1>16. NackInv'
  <2>1. ASSUME NEW i \in 1..Len(toSource'[stream]), toSource'[stream][i].nack
        PROVE  rejected[toSource'[stream][i].coll]
    <3>1. PICK j \in 1..Len(toSource[stream]) : toSource'[stream][i] = toSource[stream][j]
      BY <1>8, <1>12
    <3> QED
      BY <1>12, <2>1, <3>1 DEF NackInv
  <2> QED
    BY <1>1, <2>1 DEF NackInv
<1>17. ASSUME NEW l \in openWatches', l.stream = stream, l.version # 0
       PROVE  \/ rejected[l.coll]
              \/ Covers(store[l.coll], inherited[l.coll], Resources(l.coll, l.version))
  <2>1. CASE l \in openWatches
    BY <1>12, <1>17, <2>1 DEF IdleInv
  <2>2. CASE l = k
    <3>1. stream = s /\ p # NoMsg /\ l.version = p.version /\ l.coll = c
      BY <1>2, <1>3, <1>17, <2>2
    <3>2. CASE Req(s).nack
      BY <1>c, <1>2, <1>12, <3>1, <3>2 DEF NackInv
    <3>3. CASE ~Req(s).nack
      <4>1. Covers(store[c], inherited[c], Believed(c))
        BY <1>2, <1>12 DEF StoreInv
      <4>2. Believed(c) = Track(watch[s][c].acked, p)
        <5>1. Acking(c)
          BY <1>c, <1>2, <1>9, <3>1, <3>3 DEF Acking
        <5> QED
          BY <1>9, <3>1, <5>1 DEF Believed
      <4>3. Covers(store[c], inherited[c], Resources(c, p.version))
        BY <1>11, <3>1, <4>1, <4>2, SameCovers
      <4> QED
        BY <3>1, <4>3
    <3> QED
      BY <3>2, <3>3
  <2> QED
    BY <1>4, <1>17, <2>1, <2>2
<1>18. IdleInv'
  BY <1>1, <1>17 DEF IdleInv
<1> QED
  BY <1>15, <1>16, <1>18

(* A response that is handled: the sink holds it, and its ACK is under way. *)
LEMMA HeldHandle ==
    ASSUME MCPInv, HandleResponse
    PROVE  HeldInv'
<1>c. PICK c : c = Heard.coll
  OBVIOUS
<1>1. Exchanged(Ack) /\ Ack.coll = c /\ Ack.nonce = Heard.nonce /\ ~Ack.nack
  BY <1>c, Handled
<1>2. /\ stream \in Streams /\ c \in Collections /\ HasColl(toSink[stream], c)
      /\ Heard = toSink[stream][1] /\ 1 \in 1..Len(toSink[stream]) /\ Heard.nonce # 0
      /\ \A t \in Streams : \A d : HasColl(toSource'[t], d) <=>
            HasColl(toSource[t], d) \/ (t = stream /\ d = c /\ ~broken[stream])
      /\ \A t \in Streams : \A i \in 1..Len(toSource'[t]) :
            \/ i \in 1..Len(toSource[t]) /\ toSource'[t][i] = toSource[t][i]
            \/ t = stream /\ ~broken[stream] /\ toSource'[t][i] = Ack
      /\ \A t \in Streams : \A i \in 1..Len(toSource[t]) :
            i \in 1..Len(toSource'[t]) /\ toSource'[t][i] = toSource[t][i]
  BY <1>1, <1>c DEF Exchanged
<1>3. /\ UNCHANGED <<stream, broken, watch, openWatches>>
      /\ store' = [store EXCEPT ![c] = Track(@, Heard)]
      /\ rejected' = [rejected EXCEPT ![c] = FALSE]
      /\ inherited' = [inherited EXCEPT ![c] = IF Heard.inc THEN @ \ Heard.removed ELSE {}]
  BY <1>c DEF HandleResponse, conVars, cacheVars, Heard
<1>4. /\ store'[c] = Track(store[c], Heard)
      /\ inherited'[c] = IF Heard.inc THEN inherited[c] \ Heard.removed ELSE {}
      /\ \A d \in Collections : d # c =>
            store'[d] = store[d] /\ inherited'[d] = inherited[d] /\ rejected'[d] = rejected[d]
  BY <1>2, <1>3 DEF MCPInv, SinkTypes
<1>5. ~HasColl(toSource[stream], c) /\ ~Watched(stream, c)
  BY <1>2 DEF MCPInv, ApartInv
<1> SUFFICES ASSUME stream' # 0, ~broken'[stream'] PROVE StoreInv' /\ NackInv' /\ IdleInv'
  BY DEF HeldInv
<1>6. stream # 0 /\ ~broken[stream] /\ StoreInv /\ NackInv /\ IdleInv
  BY <1>3 DEF MCPInv, HeldInv
<1>7. Heard = watch[stream][c].pending
  BY <1>c, <1>2, <1>6 DEF MCPInv, NonceInv
<1>8. ASSUME NEW d \in Collections
      PROVE  Covers(store'[d], inherited'[d], Believed(d)')
  <2>1. CASE d = c
    <3>1. ~Acking(c)
      BY <1>5 DEF Acking, HasColl
    <3>2. Covers(store[c], inherited[c], watch[stream][c].acked)
      BY <1>2, <1>6, <3>1 DEF StoreInv, Believed
    <3>3. Acking(c)'
      <4>1. PICK i \in 1..Len(toSource'[stream]) : toSource'[stream][i].coll = c
        BY <1>2, <1>6 DEF HasColl
      <4>2. ~(i \in 1..Len(toSource[stream]) /\ toSource'[stream][i] = toSource[stream][i])
        BY <1>5, <4>1 DEF HasColl
      <4>3. toSource'[stream][i] = Ack
        BY <1>2, <4>2
      <4> QED
        BY <1>1, <1>2, <1>3, <4>1, <4>3 DEF Acking
    <3>4. Believed(c)' = Track(watch[stream][c].acked, Heard)
      BY <1>3, <1>7, <3>3 DEF Believed
    <3>5. Covers(Track(store[c], Heard),
                 IF Heard.inc THEN inherited[c] \ Heard.removed ELSE {},
                 Track(watch[stream][c].acked, Heard))
      BY <3>2, TrackCovers
    <3> QED
      BY <1>4, <2>1, <3>4, <3>5
  <2>2. CASE d # c
    <3>1. Acking(d)' <=> Acking(d)
      <4>1. ASSUME Acking(d)' PROVE Acking(d)
        <5>1. PICK i \in 1..Len(toSource'[stream]) :
                 /\ toSource'[stream][i].coll = d
                 /\ toSource'[stream][i].nonce # 0 /\ ~toSource'[stream][i].nack
          BY <1>3, <4>1 DEF Acking
        <5>2. i \in 1..Len(toSource[stream]) /\ toSource'[stream][i] = toSource[stream][i]
          BY <1>c, <1>1, <1>2, <2>2, <5>1
        <5> QED
          BY <5>1, <5>2 DEF Acking
      <4>2. ASSUME Acking(d) PROVE Acking(d)'
        BY <1>2, <1>3, <4>2 DEF Acking
      <4> QED
        BY <4>1, <4>2
    <3>2. Believed(d)' = Believed(d)
      BY <1>3, <3>1 DEF Believed
    <3> QED
      BY <1>4, <1>6, <2>2, <3>2 DEF StoreInv
  <2> QED
    BY <2>1, <2>2
<1>9. StoreInv'
  BY <1>8 DEF StoreInv
<1>10. ASSUME NEW i \in 1..Len(toSource'[stream]), toSource'[stream][i].nack
       PROVE  rejected'[toSource'[stream][i].coll]
  <2>1. i \in 1..Len(toSource[stream]) /\ toSource'[stream][i] = toSource[stream][i]
    BY <1>1, <1>2, <1>10
  <2>2. toSource[stream][i] \in Requests
    BY <1>2, <2>1 DEF MCPInv, NetTypes
  <2>3. toSource[stream][i].coll \in Collections /\ toSource[stream][i].coll # c
    BY <1>5, <2>1, <2>2 DEF HasColl, Requests
  <2>4. rejected[toSource[stream][i].coll]
    BY <1>6, <1>10, <2>1 DEF NackInv
  <2> QED
    BY <1>4, <2>1, <2>3, <2>4
<1>11. NackInv'
  BY <1>3, <1>10 DEF NackInv
<1>12. ASSUME NEW k \in openWatches, k.stream = stream, k.version # 0
       PROVE  \/ rejected'[k.coll]
              \/ Covers(store'[k.coll], inherited'[k.coll], Resources(k.coll, k.version))
  <2>1. k.coll # c
    BY <1>5, <1>12 DEF Watched
  <2>2. k.coll \in Collections
    BY DEF MCPInv, CacheTypes, Watches
  <2> QED
    BY <1>4, <1>6, <1>12, <2>1, <2>2 DEF IdleInv
<1>13. IdleInv'
  BY <1>3, <1>12 DEF IdleInv
<1> QED
  BY <1>9, <1>11, <1>13

(* A response that is rejected: its NACK does not change what is believed. *)
LEMMA HeldReject ==
    ASSUME MCPInv, RejectResponse
    PROVE  HeldInv'
<1>c. PICK c : c = Heard.coll
  OBVIOUS
<1>1. Exchanged(Nack) /\ Nack.coll = c /\ Nack.nack
  BY <1>c, Handled
<1>2. /\ stream \in Streams /\ c \in Collections
      /\ \A t \in Streams : \A i \in 1..Len(toSource'[t]) :
            \/ i \in 1..Len(toSource[t]) /\ toSource'[t][i] = toSource[t][i]
            \/ t = stream /\ ~broken[stream] /\ toSource'[t][i] = Nack
      /\ \A t \in Streams : \A i \in 1..Len(toSource[t]) :
            i \in 1..Len(toSource'[t]) /\ toSource'[t][i] = toSource[t][i]
  BY <1>1, <1>c DEF Exchanged
<1>3. /\ UNCHANGED <<stream, broken, watch, openWatches, store, inherited>>
      /\ rejected' = [rejected EXCEPT ![c] = TRUE]
  BY <1>c DEF RejectResponse, conVars, cacheVars, Heard
<1>4. rejected'[c] /\ \A d \in Collections : rejected[d] => rejected'[d]
  BY <1>2, <1>3 DEF MCPInv, SinkTypes
<1> SUFFICES ASSUME stream' # 0, ~broken'[stream'] PROVE StoreInv' /\ NackInv' /\ IdleInv'
  BY DEF HeldInv
<1>5. StoreInv /\ NackInv /\ IdleInv
  BY <1>3 DEF MCPInv, HeldInv
<1>6. ASSUME NEW d \in Collections PROVE Believed(d)' = Believed(d)
  <2>1. ASSUME Acking(d)' PROVE Acking(d)
    <3>1. PICK i \in 1..Len(toSource'[stream]) :
             /\ toSource'[stream][i].coll = d
             /\ toSource'[stream][i].nonce # 0 /\ ~toSource'[stream][i].nack
      BY <1>3, <2>1 DEF Acking
    <3>2. i \in 1..Len(toSource[stream]) /\ toSource'[stream][i] = toSource[stream][i]
      BY <1>1, <1>2, <3>1
    <3> QED
      BY <3>1, <3>2 DEF Acking
  <2>2. ASSUME Acking(d) PROVE Acking(d)'
    BY <1>2, <1>3, <2>2 DEF Acking
  <2> QED
    BY <1>3, <2>1, <2>2 DEF Believed
<1>7. StoreInv'
  BY <1>3, <1>5, <1>6 DEF StoreInv
<1>8. ASSUME NEW i \in 1..Len(toSource'[stream]), toSource'[stream][i].nack
      PROVE  rejected'[toSource'[stream][i].coll]
  <2>1. CASE i \in 1..Len(toSource[stream]) /\ toSource'[stream][i] = toSource[stream][i]
    <3>1. toSource[stream][i] \in Requests
      BY <1>2, <2>1 DEF MCPInv, NetTypes
    <3>2. toSource[stream][i].coll \in Collections
      BY <3>1 DEF Requests
    <3> QED
      BY <1>4, <1>5, <1>8, <2>1, <3>2 DEF NackInv
  <2>2. CASE toSource'[stream][i] = Nack
    BY <1>1, <1>4, <2>2
  <2> QED
    BY <1>2, <2>1, <2>2
<1>9. NackInv'
  BY <1>3, <1>8 DEF NackInv
<1>10. \A k \in openWatches : k.coll \in Collections
  BY DEF MCPInv, CacheTypes, Watches
<1>11. IdleInv'
  BY <1>3, <1>4, <1>5, <1>10 DEF IdleInv
<1> QED
  BY <1>7, <1>9, <1>11

(* The first requests acknowledge nothing. *)
LEMMA HeldInitial ==
    ASSUME MCPInv, SendInitialRequest
    PROVE  HeldInv'
<1>1. PICK c \in initial :
         toSource' = [toSource EXCEPT ![stream] = Append(@, Request(c, 0, FALSE, c \in IncSink))]
  BY DEF SendInitialRequest
<1>2. /\ stream # 0 /\ UNCHANGED <<stream, broken, watch, openWatches, store, inherited, rejected>>
  BY DEF SendInitialRequest, conVars, cacheVars
<1>a. PICK req : req = Request(c, 0, FALSE, c \in IncSink)
  OBVIOUS
<1>3. req.nonce = 0 /\ ~req.nack
  BY <1>a DEF Request
<1>4. stream \in Streams /\ c \in Collections
  BY <1>1, <1>2, InitialSent
<1>5. ~HasColl(toSource[stream], req.coll) /\ Carries(toSource)
  BY <1>1, <1>2, <1>4, <1>a, NetCarries DEF MCPInv, ApartInv, Asking, Request
<1>6. Sends(toSource, toSource', stream, req)
  BY <1>1, <1>4, <1>5, <1>a, NetAppend
<1>7. /\ \A i \in 1..Len(toSource'[stream]) :
            \/ i \in 1..Len(toSource[stream]) /\ toSource'[stream][i] = toSource[stream][i]
            \/ toSource'[stream][i] = req
      /\ \A i \in 1..Len(toSource[stream]) :
            i \in 1..Len(toSource'[stream]) /\ toSource'[stream][i] = toSource[stream][i]
  BY <1>4, <1>6 DEF Sends
<1> SUFFICES ASSUME stream' # 0, ~broken'[stream'] PROVE StoreInv' /\ NackInv' /\ IdleInv'
  BY DEF HeldInv
<1>8. StoreInv /\ NackInv /\ IdleInv
  BY <1>2 DEF MCPInv, HeldInv
<1>9. ASSUME NEW d \in Collections PROVE Believed(d)' = Believed(d)
  <2>1. ASSUME Acking(d)' PROVE Acking(d)
    <3>1. PICK i \in 1..Len(toSource'[stream]) :
             /\ toSource'[stream][i].coll = d
             /\ toSource'[stream][i].nonce # 0 /\ ~toSource'[stream][i].nack
      BY <1>2, <2>1 DEF Acking
    <3>2. i \in 1..Len(toSource[stream]) /\ toSource'[stream][i] = toSource[stream][i]
      BY <1>3, <1>7, <3>1
    <3> QED
      BY <3>1, <3>2 DEF Acking
  <2>2. ASSUME Acking(d) PROVE Acking(d)'
    BY <1>2, <1>7, <2>2 DEF Acking
  <2> QED
    BY <1>2, <2>1, <2>2 DEF Believed
<1>10. StoreInv'
  BY <1>2, <1>8, <1>9 DEF StoreInv
<1>11. NackInv'
  BY <1>2, <1>3, <1>7, <1>8 DEF NackInv
<1>12. IdleInv'
  BY <1>2, <1>8 DEF IdleInv
<1> QED
  BY <1>10, <1>11, <1>12

(* On a new stream the source believes the sink holds nothing. *)
LEMMA HeldEstablish ==
    ASSUME MCPInv, EstablishResourceStream
    PROVE  HeldInv'
<1>1. opened' \in Streams /\ opened' > opened
  BY MCPSourceAssumption DEF EstablishResourceStream, MCPInv, SinkTypes, Streams
<1>2. /\ stream' = opened' /\ UNCHANGED <<watch, toSource, openWatches, store>>
      /\ inherited' = [c \in Collections |-> DOMAIN store[c]]
  BY DEF EstablishResourceStream, netVars, cacheVars
<1>3. /\ pc[stream'] = "none" /\ toSource[stream'] = <<>>
      /\ \A c \in Collections : watch[stream'][c] = NewWatch
  BY <1>1, <1>2 DEF MCPInv, LifeInv
<1>4. ASSUME NEW c \in Collections PROVE Covers(store'[c], inherited'[c], Believed(c)')
  <2>1. ~Acking(c)'
    BY <1>2, <1>3 DEF Acking
  <2>2. Believed(c)' = Nothing
    BY <1>2, <1>3, <2>1 DEF Believed, NewWatch
  <2> QED
    BY <1>2, <2>2 DEF Covers, Nothing
<1>5. StoreInv'
  BY <1>4 DEF StoreInv
<1>6. NackInv'
  BY <1>2, <1>3 DEF NackInv
<1>7. \A k \in openWatches : k.stream # stream'
  BY <1>3 DEF MCPInv, WatchInv
<1>8. IdleInv'
  BY <1>2, <1>7 DEF IdleInv
<1> QED
  BY <1>5, <1>6, <1>8 DEF HeldInv

(* Every step keeps the sink and what the source believes of it together. *)
LEMMA HeldStep ==
    ASSUME MCPInv, [Next]_vars
    PROVE  HeldInv'
<1>1. ASSUME NEW s \in Streams, CloseConnection(s), UNCHANGED sinkVars PROVE HeldInv'
  <2>1. /\ UNCHANGED <<stream, store, inherited, rejected>>
        /\ toSource' = [toSource EXCEPT ![s] = <<>>]
        /\ broken' = [broken EXCEPT ![s] = TRUE]
        /\ watch' = [watch EXCEPT ![s] = [c \in Collections |-> NewWatch]]
        /\ openWatches' \subseteq openWatches
    BY <1>1 DEF CloseConnection, sinkVars, Uncancelled
  <2> SUFFICES ASSUME stream' # 0, ~broken'[stream'] PROVE StoreInv' /\ NackInv' /\ IdleInv'
    BY DEF HeldInv
  <2>2. stream \in Streams
    BY <2>1, StreamIsOne
  <2>3. /\ stream # s /\ broken'[stream] = broken[stream]
        /\ toSource'[stream] = toSource[stream] /\ watch'[stream] = watch[stream]
    BY <2>1, <2>2 DEF MCPInv, NetTypes, ConTypes
  <2>4. StoreInv /\ NackInv /\ IdleInv
    BY <2>1, <2>3 DEF MCPInv, HeldInv
  <2>5. \A c \in Collections : Believed(c)' = Believed(c)
    BY <2>1, <2>3 DEF Believed, Acking
  <2>6. StoreInv'
    BY <2>1, <2>4, <2>5 DEF StoreInv
  <2>7. NackInv'
    BY <2>1, <2>3, <2>4 DEF NackInv
  <2>8. IdleInv'
    BY <2>1, <2>4 DEF IdleInv
  <2> QED
    BY <2>6, <2>7, <2>8
<1>2. ASSUME NEW s \in Streams, StreamBreaks(s) PROVE HeldInv'
  <2>1. /\ UNCHANGED <<stream, toSource, watch, store, inherited, rejected, openWatches>>
        /\ broken' = [broken EXCEPT ![s] = TRUE]
    BY <1>2 DEF StreamBreaks, conVars, sinkVars, cacheVars
  <2>2. stream # 0 /\ ~broken'[stream] => ~broken[stream]
    BY <2>1, StreamIsOne DEF MCPInv, NetTypes
  <2> QED
    BY <2>1, <2>2, HeldQuiet
<1>3. CASE SinkStreamEnds
  BY <1>3 DEF SinkStreamEnds, HeldInv
<1>4. ASSUME UNCHANGED <<stream, toSource, watch, store, inherited, rejected, broken>>,
             openWatches' \subseteq openWatches
      PROVE  HeldInv'
  BY <1>4, HeldQuiet
<1>5. ASSUME NEW s \in Streams, SourceRuns(s) PROVE HeldInv'
  BY <1>1, <1>4, <1>5, HeldPush, HeldProcess
  DEF SourceRuns, SourceStep, TakeReady, ProcessStreamReturns, sinkVars, cacheVars, netVars
<1>6. ASSUME Publish \/ ClearSnapshot \/ AnswerWatch \/ ClearStatus, UNCHANGED sinkVars
      PROVE  HeldInv'
  BY <1>4, <1>6
  DEF Publish, ClearSnapshot, AnswerWatch, ClearStatus, sinkVars, conVars, netVars
<1>7. CASE UNCHANGED vars
  BY <1>4, <1>7 DEF vars, sourceVars, cacheVars, conVars, netVars, sinkVars
<1> QED
  BY <1>2, <1>3, <1>5, <1>6, <1>7, HeldHandle, HeldReject, HeldInitial, HeldEstablish
  DEF Next, SinkStep

-----------------------------------------------------------------------------
(* The theorems. *)

(* Nothing published, no stream open: the invariant holds. *)
LEMMA MCPInit == Init => MCPInv
<1> SUFFICES ASSUME Init PROVE MCPInv
  OBVIOUS
<1> USE DEF Init, SourceInit
<1>1. \A s \in Streams :
        /\ pc[s] = "none" /\ queue[s] = NewQueue /\ toSource[s] = <<>> /\ toSink[s] = <<>>
        /\ broken[s] = FALSE /\ \A c \in Collections : watch[s][c] = NewWatch
  OBVIOUS
<1>2. NewQueue \in Queues /\ NewQueue.items = <<>> /\ NewQueue.ready = 0
  BY DEF NewQueue, Queues
<1>3. CacheTypes
  BY GenerationsNat DEF CacheTypes
<1>4. QueueTypes
  BY <1>1, <1>2 DEF QueueTypes
<1>5. ConTypes
  <2>1. NewWatch.cancel = FALSE /\ NewWatch.pending = NoMsg
    BY DEF NewWatch
  <2>2. /\ pc \in [Streams -> Phases] /\ streamNonce \in [Streams -> Nat]
        /\ DOMAIN watch = Streams /\ \A s \in Streams : DOMAIN watch[s] = Collections
    BY DEF Phases
  <2>3. \A s \in Streams, c \in Collections :
           watch[s][c].cancel \in BOOLEAN /\ watch[s][c].pending = NoMsg
    BY <1>1, <2>1
  <2> QED
    BY <2>2, <2>3 DEF ConTypes
<1>6. NetTypes
  <2>1. IsSeq(<<>>)
    BY <<>> \in Seq({}) DEF IsSeq
  <2>2. toSource \in [Streams -> Seq(Requests)]
    OBVIOUS
  <2>3. broken \in [Streams -> BOOLEAN]
    OBVIOUS
  <2>4. DOMAIN toSink = Streams
    OBVIOUS
  <2> QED
    BY <1>1, <2>1, <2>2, <2>3, <2>4 DEF NetTypes
<1>7. SinkTypes
  BY MCPSourceAssumption DEF SinkTypes
<1>8. LifeInv
  BY <1>1 DEF LifeInv, Streams
<1>9. WatchInv
  BY DEF WatchInv
<1>10. TokenInv
  BY <1>1, <1>2 DEF TokenInv
<1>11. OnceInv
  BY <1>1, <1>2 DEF OnceInv, OnceColl, OnceKey
<1>12. ApartInv
  BY <1>1, <1>2 DEF ApartInv, Asking, HasColl, Watched, HasKey
<1>13. SomewhereInv
  BY <1>1 DEF SomewhereInv, Serving
<1>14. NonceInv
  BY <1>1 DEF NonceInv, Asking
<1>15. VersionInv
  BY DEF VersionInv
<1>16. PendingInv
  BY <1>1 DEF PendingInv, NewWatch
<1>17. HeldInv
  BY DEF HeldInv
<1> QED
  BY <1>3, <1>4, <1>5, <1>6, <1>7, <1>8, <1>9, <1>10, <1>11, <1>12, <1>13, <1>14, <1>15,
     <1>16, <1>17 DEF MCPInv

(* The invariant holds in every behaviour of source, sink and network. *)
LEMMA MCPInvariant == Spec => []MCPInv
<1>1. MCPInv /\ [Next]_vars => MCPInv'
  BY CacheTypesStep, QueueTypesStep, ConTypesStep, NetTypesStep, SinkTypesStep, LifeStep,
     WatchStep, TokenStep, PlaceStep, NonceStep, VersionStep, PendingStep, HeldStep DEF MCPInv
<1> QED
  BY MCPInit, <1>1, PTL DEF Spec

(* Every field of the source, the streams and the sink keeps its type; the *)
(* queue of responses (source.go's internal.UniqueQueue) never outgrows    *)
(* the ring that is made for one entry per collection, and readyChan never *)
(* blocks Enqueue.                                                         *)
THEOREM MCPTypeCorrect == Spec => []TypeOK
<1>1. MCPInv => TypeOK
  <2> SUFFICES ASSUME MCPInv PROVE TypeOK
    OBVIOUS
  <2>1. snapshot = NoSnapshot \/ \A c \in Collections : snapshot[c] \in Generations(c)
    BY DEF MCPInv, CacheTypes
  <2>2. openWatches \subseteq [stream : Streams, coll : Collections, inc : BOOLEAN,
                               version : UNION {Generations(c) : c \in Collections}]
    <3> SUFFICES ASSUME NEW k \in openWatches
                 PROVE  k \in [stream : Streams, coll : Collections, inc : BOOLEAN,
                               version : UNION {Generations(c) : c \in Collections}]
      OBVIOUS
    <3>1. k \in Watches /\ k.version \in Generations(k.coll)
      BY DEF MCPInv, CacheTypes
    <3>2. k.version \in UNION {Generations(c) : c \in Collections}
      BY <3>1 DEF Watches
    <3> QED
      BY <3>1, <3>2 DEF Watches
  <2>3. pc \in [Streams -> {"none", "select", "dequeue", "closing", "gone"}]
    BY DEF MCPInv, ConTypes, Phases
  <2>4. ASSUME NEW s \in Streams
        PROVE  queue[s].ready \in 0 .. MaxDepth /\ Len(queue[s].items) <= MaxDepth
    <3> DEFINE q == queue[s].items
    <3>1. queue[s] \in Queues /\ OnceKey(q)
      BY DEF MCPInv, QueueTypes, OnceInv
    <3>2. q \in Seq(Items) /\ queue[s].ready \in Nat
      BY <3>1 DEF Queues
    <3>3. queue[s].ready <= Len(q)
      BY <3>2 DEF MCPInv, TokenInv
    <3> HIDE DEF q
    <3>4. MaxDepth \in Nat
      BY MCPSourceAssumption, FS_CardinalityType DEF MaxDepth
    <3>5. Len(q) <= MaxDepth
      <4>1. CASE Collections = {}
        <5>1. \A i \in 1..Len(q) : q[i] \in Items
          BY <3>2
        <5>2. \A i \in 1..Len(q) : q[i].key \in Collections
          BY <5>1 DEF Items
        <5>3. Len(q) = 0
          BY <3>2, <4>1, <5>2
        <5> QED
          BY <3>4, <5>3
      <4>2. CASE Collections # {}
        BY <3>1, <3>2, <4>2, Room
      <4> QED
        BY <4>1, <4>2
    <3>6. Len(q) \in Nat
      BY <3>2
    <3>7. queue[s].ready \in 0 .. MaxDepth
      BY <3>2, <3>3, <3>4, <3>5, <3>6
    <3> QED
      BY <3>5, <3>7 DEF q
  <2>5. ASSUME NEW s \in Streams, NEW c \in Collections
        PROVE  watch[s][c].pending = NoMsg \/ IsMessage(watch[s][c].pending)
    BY DEF MCPInv, ConTypes
  <2>6. ASSUME NEW s \in Streams
        PROVE  toSource[s] \in Seq(Requests) /\ \A i \in DOMAIN toSink[s] : IsMessage(toSink[s][i])
    <3>1. toSource[s] \in Seq(Requests) /\ IsSeq(toSink[s])
      BY DEF MCPInv, NetTypes
    <3>2. DOMAIN toSink[s] = 1..Len(toSink[s])
      BY <3>1 DEF IsSeq
    <3> QED
      BY <3>1, <3>2 DEF MCPInv, NetTypes
  <2>7. stream \in 0 .. opened /\ opened \in 0 .. (MaxBreaks + 1) /\ initial \subseteq Collections
    BY MCPSourceAssumption DEF MCPInv, SinkTypes
  <2> QED
    BY <2>1, <2>2, <2>3, <2>4, <2>5, <2>6, <2>7 DEF TypeOK
<1> QED
  BY MCPInvariant, <1>1, PTL

(* closeConnection (source.go) leaves no watch of its stream in the cache, *)
(* whatever Watch, SetSnapshot, ClearStatus and the cancel functions did   *)
(* before it.                                                              *)
THEOREM NoWatchLeaks == Spec => []NoLeakedWatches
<1>1. MCPInv => NoLeakedWatches
  BY DEF MCPInv, WatchInv, NoLeakedWatches
<1> QED
  BY MCPInvariant, <1>1, PTL

(* processClientRequest (source.go) never takes the branch for a stale     *)
(* nonce: a request always answers the response its collection waits for.  *)
THEOREM AnswersMatch == Spec => []NoStaleRequests
<1>1. MCPInv => NoStaleRequests
  <2> SUFFICES ASSUME MCPInv, NEW s \in Streams, NEW i \in DOMAIN toSource[s]
               PROVE  toSource[s][i].nonce = PendingNonce(watch[s][toSource[s][i].coll])
    BY DEF NoStaleRequests
  <2>1. toSource[s] \in Seq(Requests)
    BY DEF MCPInv, NetTypes
  <2>2. i \in 1..Len(toSource[s])
    BY <2>1
  <2> QED
    BY <2>2 DEF MCPInv, NonceInv, PendingNonce
<1> QED
  BY MCPInvariant, <1>1, PTL

(* A set with at most one element. *)
LEMMA AtMostOne ==
    ASSUME NEW S, \A x, y \in S : x = y
    PROVE  Cardinality(S) = IF S = {} THEN 0 ELSE 1
<1>1. CASE S = {}
  BY <1>1, FS_EmptySet
<1>2. CASE S # {}
  <2>1. PICK x \in S : TRUE
    BY <1>2
  <2>2. S = {x}
    BY <2>1
  <2> QED
    BY <1>2, <2>2, FS_Singleton
<1> QED
  BY <1>1, <1>2

(* On a stream that is up, each collection is in exactly one place between *)
(* the sink's request and its next ACK or NACK, and each queued response   *)
(* has its token in readyChan: none is lost and none is sent twice.        *)
THEOREM OneTurnEach == Spec => []OneTurn
<1>1. MCPInv => OneTurn
  <2> SUFFICES ASSUME MCPInv, NEW s \in Streams
               PROVE  /\ Serving(s) /\ ~broken[s] => \A c \in Collections : Turns(s, c) = 1
                      /\ Len(queue[s].items) =
                            queue[s].ready + (IF pc[s] = "dequeue" THEN 1 ELSE 0)
    BY DEF OneTurn
  <2>1. ASSUME Serving(s), ~broken[s], NEW c \in Collections PROVE Turns(s, c) = 1
    <3> DEFINE ws == {k \in openWatches : k.stream = s /\ k.coll = c}
               es == {i \in DOMAIN queue[s].items : queue[s].items[i].key = c}
    <3>1. /\ DOMAIN toSource[s] = 1..Len(toSource[s])
          /\ DOMAIN toSink[s] = 1..Len(toSink[s])
          /\ DOMAIN queue[s].items = 1..Len(queue[s].items)
      <4>1. /\ toSource[s] \in Seq(Requests) /\ IsSeq(toSink[s]) /\ queue[s] \in Queues
        BY DEF MCPInv, NetTypes, QueueTypes
      <4>2. queue[s].items \in Seq(Items)
        BY <4>1 DEF Queues
      <4> QED
        BY <4>1, <4>2 DEF IsSeq
    <3>2. Cardinality(Of(c, toSource[s])) = IF HasColl(toSource[s], c) THEN 1 ELSE 0
      <4>1. \A i, j \in Of(c, toSource[s]) : i = j
        BY <3>1 DEF Of, MCPInv, OnceInv, OnceColl
      <4>2. Of(c, toSource[s]) = {} <=> ~HasColl(toSource[s], c)
        BY <3>1 DEF Of, HasColl
      <4> QED
        BY <4>1, <4>2, AtMostOne
    <3>3. Cardinality(Of(c, toSink[s])) = IF HasColl(toSink[s], c) THEN 1 ELSE 0
      <4>1. \A i, j \in Of(c, toSink[s]) : i = j
        BY <3>1 DEF Of, MCPInv, OnceInv, OnceColl
      <4>2. Of(c, toSink[s]) = {} <=> ~HasColl(toSink[s], c)
        BY <3>1 DEF Of, HasColl
      <4> QED
        BY <4>1, <4>2, AtMostOne
    <3>4. Cardinality(ws) = IF Watched(s, c) THEN 1 ELSE 0
      <4>1. \A k, l \in ws : k = l
        BY DEF MCPInv, OnceInv
      <4>2. ws = {} <=> ~Watched(s, c)
        BY DEF Watched
      <4> HIDE DEF ws
      <4> QED
        BY <4>1, <4>2, AtMostOne
    <3>5. Cardinality(es) = IF HasKey(queue[s].items, c) THEN 1 ELSE 0
      <4>1. \A i, j \in es : i = j
        BY <3>1 DEF MCPInv, OnceInv, OnceKey
      <4>2. es = {} <=> ~HasKey(queue[s].items, c)
        BY <3>1 DEF HasKey
      <4> HIDE DEF es
      <4> QED
        BY <4>1, <4>2, AtMostOne
    <3>6. Turns(s, c) = (IF Asking(s, c) THEN 1 ELSE 0)
                        + (IF HasColl(toSource[s], c) THEN 1 ELSE 0)
                        + (IF Watched(s, c) THEN 1 ELSE 0)
                        + (IF HasKey(queue[s].items, c) THEN 1 ELSE 0)
                        + (IF HasColl(toSink[s], c) THEN 1 ELSE 0)
      BY <3>2, <3>3, <3>4, <3>5 DEF Turns, Asking
    <3>7. \/ Asking(s, c) \/ HasColl(toSource[s], c) \/ Watched(s, c)
          \/ HasKey(queue[s].items, c) \/ HasColl(toSink[s], c)
      BY <2>1 DEF MCPInv, SomewhereInv
    <3>8. /\ Asking(s, c) => ~HasColl(toSource[s], c) /\ ~Watched(s, c)
                             /\ ~HasKey(queue[s].items, c) /\ ~HasColl(toSink[s], c)
          /\ HasColl(toSource[s], c) => ~Watched(s, c) /\ ~HasKey(queue[s].items, c)
                                        /\ ~HasColl(toSink[s], c)
          /\ Watched(s, c) => ~HasKey(queue[s].items, c) /\ ~HasColl(toSink[s], c)
          /\ HasKey(queue[s].items, c) => ~HasColl(toSink[s], c)
      BY DEF MCPInv, ApartInv
    <3> QED
      BY <3>6, <3>7, <3>8
  <2> QED
    BY <2>1 DEF MCPInv, TokenInv
<1> QED
  BY MCPInvariant, <1>1, PTL

(* A source that waits on the sink's stream waits for the right reason:    *)
(* its watch has the version of the snapshot, and the sink holds that      *)
(* version's resources, deltas and restarts included, unless it rejected   *)
(* them.                                                                   *)
THEOREM IdleMeansHeld == Spec => []SyncedMeansHeld
<1>1. MCPInv => SyncedMeansHeld
  <2> SUFFICES ASSUME MCPInv, NEW k \in openWatches, k.stream = stream, ~broken[stream]
               PROVE  /\ snapshot # NoSnapshot /\ k \notin answering =>
                            k.version = snapshot[k.coll]
                      /\ k.version # 0 => rejected[k.coll] \/ Holds(k.coll, k.version)
    BY DEF SyncedMeansHeld
  <2>1. snapshot # NoSnapshot /\ k \notin answering => k.version = snapshot[k.coll]
    BY DEF MCPInv, VersionInv
  <2>2. stream # 0
    BY DEF MCPInv, CacheTypes, Watches, Streams
  <2>3. k.version # 0 => \/ rejected[k.coll]
                         \/ Covers(store[k.coll], inherited[k.coll], Resources(k.coll, k.version))
    BY <2>2 DEF MCPInv, HeldInv, IdleInv
  <2> QED
    BY <2>1, <2>3 DEF Holds, Covers
<1> QED
  BY MCPInvariant, <1>1, PTL

=============================================================================
