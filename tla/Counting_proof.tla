--------------------------- MODULE Counting_proof ---------------------------
(***************************************************************************)
(* NothingCountsTwice and UndisturbedIsComplete, for every size of the     *)
(* file, the blocks and the window, and any number of sessions.            *)
(*                                                                         *)
(* The bytes between a write of the client and the sum of the server are   *)
(* counted as a set of places, so that a step is a map of places.          *)
(***************************************************************************)
EXTENDS BackupTransfer_proof, FiniteSetTheorems

\* The bytes of one session that are not in the total: byte b of record i is in
\* flight, byte b of what the handler has read is in its hand, at place 0.
InHand(s) == IF s.handler = "adding" THEN 1..s.nr ELSE {}
OnTheWay(s) ==
  {<<0, b>> : b \in InHand(s)}
    \union UNION {{<<i, b>> : b \in 1..s.flight[i]} : i \in DOMAIN s.flight}
Bytes(q)   == UNION {{<<k, y>> : y \in OnTheWay(q[k])} : k \in DOMAIN q}
Pending(q) == Cardinality(Bytes(q))

\* Pieces p have at most n bytes.
AtMost(p, n) ==
  \E at, byte \in [1..n -> Nat] :
    \A i \in DOMAIN p : \A b \in 1..p[i] : \E c \in 1..n : at[c] = i /\ byte[c] = b
-----------------------------------------------------------------------------

LEMMA PairEq == \A a, b, c, d : <<a, b>> = <<c, d>> => a = c /\ b = d
OBVIOUS

LEMMA InOnTheWay ==
  \A s :
    /\ \A i, b : <<i, b>> \in OnTheWay(s) <=>
                   \/ i = 0 /\ b \in InHand(s)
                   \/ i \in DOMAIN s.flight /\ b \in 1..s.flight[i]
    /\ \A y \in OnTheWay(s) : \E i, b : y = <<i, b>>
BY DEF OnTheWay

LEMMA InBytes ==
  \A q :
    /\ \A k, y : <<k, y>> \in Bytes(q) <=> k \in DOMAIN q /\ y \in OnTheWay(q[k])
    /\ \A x \in Bytes(q) : \E k, y : x = <<k, y>>
BY DEF Bytes

LEMMA UpTo == ASSUME NEW n \in Nat PROVE IsFiniteSet(1..n) /\ Cardinality(1..n) = n
BY FS_Interval

LEMMA BytesFinite ==
  ASSUME NEW cap \in Nat, NEW q \in Sessions(cap)
  PROVE  IsFiniteSet(Bytes(q)) /\ Pending(q) \in Nat
<1> DEFINE Places == (0..cap) \X (1..BlockSize)
           All == (1..Len(q)) \X Places
<1>1. q \in Seq(Session) /\ DOMAIN q = 1..Len(q) /\ Len(q) \in Nat
  BY DEF Sessions
<1>2. IsFiniteSet(All)
  <2>1. IsFiniteSet(1..Len(q)) /\ IsFiniteSet(0..cap) /\ IsFiniteSet(1..BlockSize)
    BY <1>1, FS_Interval, SizeAssumption
  <2> QED
    BY <2>1, FS_Product
<1>3. \A k \in DOMAIN q : OnTheWay(q[k]) \subseteq Places
  <2> SUFFICES ASSUME NEW k \in DOMAIN q, NEW i, NEW b, <<i, b>> \in OnTheWay(q[k])
               PROVE  i \in 0..cap /\ b \in 1..BlockSize
    BY InOnTheWay
  <2>1. q[k] \in Session /\ Len(q[k].flight) <= cap
    BY <1>1 DEF Sessions
  <2> DEFINE f == q[k].flight
  <2>2. /\ f \in Seq(1..BlockSize) /\ Len(f) <= cap /\ q[k].nr \in 0..BlockSize
        /\ \A j \in 1..Len(f) : f[j] \in 1..BlockSize
    BY <2>1, ElementOfSeq DEF Session
  <2>3. DOMAIN f = 1..Len(f) /\ Len(f) \in Nat
    BY <2>2, LenProperties
  <2>4. \/ i \in DOMAIN f /\ b \in 1..f[i]
        \/ i = 0 /\ b \in 1..q[k].nr
    BY InOnTheWay DEF InHand
  <2> HIDE DEF f
  <2> QED
    BY <2>2, <2>3, <2>4, SizeAssumption
<1> HIDE DEF Places
<1>4. Bytes(q) \in SUBSET All
  <2> SUFFICES ASSUME NEW k, NEW y, <<k, y>> \in Bytes(q) PROVE <<k, y>> \in All
    BY InBytes
  <2> QED
    BY <1>1, <1>3, InBytes
<1> HIDE DEF All
<1> QED
  BY <1>2, <1>4, FS_Subset, FS_CardinalityType DEF Pending

\* No session has more than before, place by place.
LEMMA FewerPending ==
  ASSUME NEW cap \in Nat, NEW q \in Sessions(cap), NEW r,
         \A k \in DOMAIN r : \/ OnTheWay(r[k]) = {}
                             \/ k \in DOMAIN q /\ OnTheWay(r[k]) \subseteq OnTheWay(q[k])
  PROVE  Pending(r) <= Pending(q)
<1>1. Bytes(r) \in SUBSET Bytes(q)
  <2> SUFFICES ASSUME NEW k, NEW y, <<k, y>> \in Bytes(r) PROVE <<k, y>> \in Bytes(q)
    BY InBytes
  <2> QED
    BY InBytes
<1> QED
  BY <1>1, BytesFinite, FS_Subset DEF Pending

\* In one session bytes change their places.
LEMMA MovedPending ==
  ASSUME NEW cap \in Nat, NEW q \in Sessions(cap), NEW k \in DOMAIN q, NEW r,
         DOMAIN r = DOMAIN q, \A j \in DOMAIN q : j # k => r[j] = q[j],
         NEW f \in [OnTheWay(r[k]) -> OnTheWay(q[k])],
         \A x, y \in OnTheWay(r[k]) : f[x] = f[y] => x = y
  PROVE  Pending(r) <= Pending(q)
<1> DEFINE g == [x \in Bytes(r) |-> IF x[1] = k THEN <<k, f[x[2]]>> ELSE x]
<1>1. \A u \in Bytes(r) : \A j, y : u = <<j, y>> =>
        /\ y \in OnTheWay(r[j]) /\ j \in DOMAIN q
        /\ g[u] = IF j = k THEN <<k, f[y]>> ELSE <<j, y>>
  BY InBytes
<1>2. g \in [Bytes(r) -> Bytes(q)]
  <2> SUFFICES ASSUME NEW u \in Bytes(r) PROVE g[u] \in Bytes(q)
    OBVIOUS
  <2>1. PICK j, y : u = <<j, y>>
    BY InBytes
  <2> QED
    BY <1>1, <2>1, InBytes
<1> HIDE DEF g
<1>3. ASSUME NEW u \in Bytes(r), NEW v \in Bytes(r), g[u] = g[v] PROVE u = v
  <2>1. PICK i, x : u = <<i, x>>
    BY InBytes
  <2>2. PICK j, y : v = <<j, y>>
    BY InBytes
  <2>3. x \in OnTheWay(r[i]) /\ g[u] = IF i = k THEN <<k, f[x]>> ELSE <<i, x>>
    BY <1>1, <2>1
  <2>4. y \in OnTheWay(r[j]) /\ g[v] = IF j = k THEN <<k, f[y]>> ELSE <<j, y>>
    BY <1>1, <2>2
  <2> QED
    BY <1>3, <2>1, <2>2, <2>3, <2>4
<1>4. g \in Injection(Bytes(r), Bytes(q))
  BY <1>2, <1>3 DEF Injection, IsInjective
<1> QED
  BY <1>4, BytesFinite, FS_Injection DEF Pending

\* What a handler had in its hand is in the total.
LEMMA AddedPending ==
  ASSUME NEW cap \in Nat, NEW q \in Sessions(cap), NEW k \in DOMAIN q,
         NEW capr \in Nat, NEW r \in Sessions(capr),
         DOMAIN r = DOMAIN q, \A j \in DOMAIN q : j # k => r[j] = q[j],
         r[k].flight = q[k].flight, q[k].handler = "adding", r[k].handler # "adding"
  PROVE  Pending(r) + q[k].nr <= Pending(q)
<1> SUFFICES ASSUME NEW n, n = q[k].nr PROVE Pending(r) + n <= Pending(q)
  OBVIOUS
<1> DEFINE g == [b \in 1..n |-> <<k, <<0, b>>>>]
           T == {<<k, <<0, b>>>> : b \in 1..n}
<1>1. n \in Nat /\ ~(0 \in DOMAIN q[k].flight)
  <2>1. q[k] \in Session
    BY DEF Sessions
  <2>2. n \in Nat /\ q[k].flight \in Seq(1..BlockSize)
    BY <2>1, SizeAssumption DEF Session
  <2> QED
    BY <2>2, LenProperties
<1>2. IsFiniteSet(T) /\ Cardinality(T) = n
  <2>1. IsFiniteSet(1..n) /\ Cardinality(1..n) = n
    BY <1>1, UpTo
  <2>2. g \in [1..n -> T]
    OBVIOUS
  <2>3. \A b, c \in 1..n : g[b] = g[c] => b = c
    OBVIOUS
  <2>4. \A x \in T : \E b \in 1..n : g[b] = x
    OBVIOUS
  <2> HIDE DEF g, T
  <2>5. g \in Bijection(1..n, T)
    BY <2>2, <2>3, <2>4 DEF Bijection, Injection, Surjection, IsInjective
  <2> QED
    BY <2>1, <2>5, FS_Bijection DEF ExistsBijection
<1>3. IsFiniteSet(Bytes(r)) /\ IsFiniteSet(Bytes(q)) /\ Pending(r) \in Nat
  BY BytesFinite
<1>4. InHand(r[k]) = {} /\ InHand(q[k]) = 1..n
  BY DEF InHand
<1>5. \A i, b : <<i, b>> \in OnTheWay(r[k]) <=>
                  i \in DOMAIN q[k].flight /\ b \in 1..q[k].flight[i]
  BY <1>4, InOnTheWay
<1>6. T \cap Bytes(r) = {}
  <2> SUFFICES ASSUME NEW b \in 1..n, <<k, <<0, b>>>> \in Bytes(r) PROVE FALSE
    OBVIOUS
  <2>1. <<0, b>> \in OnTheWay(r[k])
    BY InBytes
  <2> QED
    BY <1>1, <1>5, <2>1
<1>7. T \union Bytes(r) \in SUBSET Bytes(q)
  <2>1. T \subseteq Bytes(q)
    <3> SUFFICES ASSUME NEW b \in 1..n PROVE <<k, <<0, b>>>> \in Bytes(q)
      OBVIOUS
    <3>1. <<0, b>> \in OnTheWay(q[k])
      BY <1>4, InOnTheWay
    <3> QED
      BY <3>1, InBytes
  <2>2. OnTheWay(r[k]) \subseteq OnTheWay(q[k])
    BY <1>5, InOnTheWay
  <2>3. \A j, y : <<j, y>> \in Bytes(r) => <<j, y>> \in Bytes(q)
    BY <2>2, InBytes
  <2>4. Bytes(r) \subseteq Bytes(q)
    BY <2>3, InBytes
  <2> QED
    BY <2>1, <2>4
<1> HIDE DEF T, g
<1>8. Cardinality(T \union Bytes(r)) = n + Pending(r)
  <2>1. Cardinality(T \union Bytes(r)) =
          Cardinality(T) + Cardinality(Bytes(r)) - Cardinality(T \cap Bytes(r))
    BY <1>2, <1>3, FS_Union
  <2>2. Cardinality(T \cap Bytes(r)) = 0
    BY <1>6, FS_EmptySet
  <2> QED
    BY <1>1, <1>2, <1>3, <2>1, <2>2 DEF Pending
<1>9. Cardinality(T \union Bytes(r)) <= Cardinality(Bytes(q))
  BY <1>3, <1>7, FS_Subset
<1> QED
  BY <1>1, <1>3, <1>8, <1>9 DEF Pending

\* What the client writes is on the way.
LEMMA WrittenPending ==
  ASSUME NEW cap \in Nat, NEW q \in Sessions(cap), NEW k \in DOMAIN q,
         NEW capr \in Nat, NEW r \in Sessions(capr),
         DOMAIN r = DOMAIN q, \A j \in DOMAIN q : j # k => r[j] = q[j],
         r[k].handler = q[k].handler, r[k].nr = q[k].nr,
         NEW p \in Seq(1..BlockSize), r[k].flight = q[k].flight \o p,
         NEW n \in Nat, AtMost(p, n)
  PROVE  Pending(r) <= Pending(q) + n
<1>1. PICK at, byte \in [1..n -> Nat] :
        \A i \in DOMAIN p : \A b \in 1..p[i] : \E c \in 1..n : at[c] = i /\ byte[c] = b
  BY DEF AtMost
<1> DEFINE len == Len(q[k].flight)
           g == [c \in 1..n |-> <<k, <<len + at[c], byte[c]>>>>]
           T == {<<k, <<len + at[c], byte[c]>>>> : c \in 1..n}
<1>2. IsFiniteSet(T) /\ Cardinality(T) <= n
  <2>1. IsFiniteSet(1..n) /\ Cardinality(1..n) = n
    BY UpTo
  <2>2. g \in [1..n -> T] /\ \A x \in T : \E c \in 1..n : g[c] = x
    OBVIOUS
  <2> HIDE DEF g, T
  <2>3. g \in Surjection(1..n, T)
    BY <2>2 DEF Surjection
  <2> QED
    BY <2>1, <2>3, FS_Surjection
<1>3. IsFiniteSet(Bytes(r)) /\ IsFiniteSet(Bytes(q)) /\ Pending(r) \in Nat /\ Pending(q) \in Nat
  BY BytesFinite
<1>4. /\ q[k].flight \in Seq(1..BlockSize) /\ len \in Nat /\ DOMAIN q[k].flight = 1..len
      /\ Len(p) \in Nat /\ DOMAIN p = 1..Len(p) /\ DOMAIN r[k].flight = 1..(len + Len(p))
      /\ \A i \in 1..(len + Len(p)) :
           r[k].flight[i] = IF i <= len THEN q[k].flight[i] ELSE p[i - len]
  <2>1. q[k] \in Session
    BY DEF Sessions
  <2>2. q[k].flight \in Seq(1..BlockSize)
    BY <2>1 DEF Session
  <2> QED
    BY <2>2, LenProperties, ConcatProperties
<1> HIDE DEF len
<1>5. ASSUME NEW i, NEW b, <<i, b>> \in OnTheWay(r[k])
      PROVE  <<i, b>> \in OnTheWay(q[k]) \/ <<k, <<i, b>>>> \in T
  <2>1. InHand(r[k]) = InHand(q[k])
    BY DEF InHand
  <2>2. CASE i = 0 /\ b \in InHand(r[k])
    BY <2>1, <2>2, InOnTheWay
  <2>3. CASE i \in DOMAIN r[k].flight /\ b \in 1..r[k].flight[i]
    <3>1. CASE i <= len
      BY <1>4, <2>3, <3>1, InOnTheWay
    <3>2. CASE ~(i <= len)
      <4>1. i - len \in DOMAIN p /\ b \in 1..p[i - len]
        BY <1>4, <2>3, <3>2
      <4>2. PICK c \in 1..n : at[c] = i - len /\ byte[c] = b
        BY <1>1, <4>1
      <4>3. len + at[c] = i
        BY <1>4, <2>3, <4>2
      <4> QED
        BY <4>2, <4>3
    <3> QED
      BY <3>1, <3>2
  <2> QED
    BY <1>5, <2>2, <2>3, InOnTheWay
<1> HIDE DEF T
<1>6. Bytes(r) \in SUBSET (Bytes(q) \union T)
  <2> SUFFICES ASSUME NEW j, NEW y, <<j, y>> \in Bytes(r) PROVE <<j, y>> \in Bytes(q) \union T
    BY InBytes
  <2>1. j \in DOMAIN q /\ y \in OnTheWay(r[j])
    BY InBytes
  <2>2. CASE j = k
    <3>1. PICK i, b : y = <<i, b>>
      BY <2>1, InOnTheWay
    <3> QED
      BY <1>5, <2>1, <2>2, <3>1, InBytes
  <2>3. CASE j # k
    BY <2>1, <2>3, InBytes
  <2> QED
    BY <2>2, <2>3
<1>7. /\ IsFiniteSet(Bytes(q) \union T) /\ Cardinality(Bytes(q) \union T) <= Pending(q) + n
      /\ Cardinality(Bytes(q) \union T) \in Nat
  <2>1. /\ IsFiniteSet(Bytes(q) \union T)
        /\ Cardinality(Bytes(q) \union T) =
             Cardinality(Bytes(q)) + Cardinality(T) - Cardinality(Bytes(q) \cap T)
    BY <1>2, <1>3, FS_Union
  <2>2. Cardinality(Bytes(q) \cap T) \in Nat /\ Cardinality(T) \in Nat
    BY <1>2, <1>3, FS_Intersection, FS_CardinalityType
  <2>3. Cardinality(Bytes(q) \union T) \in Nat
    BY <2>1, FS_CardinalityType
  <2> QED
    BY <1>2, <1>3, <2>1, <2>2, <2>3 DEF Pending
<1> QED
  <2>1. Cardinality(Bytes(r)) <= Cardinality(Bytes(q) \union T)
    BY <1>6, <1>7, FS_Subset
  <2> QED
    BY <1>3, <1>7, <2>1 DEF Pending

Ones(n) == [c \in 1..n |-> 1]
Self(n) == [c \in 1..n |-> c]

LEMMA OnesAndSelf ==
  ASSUME NEW n \in Nat
  PROVE  /\ Ones(n) \in [1..n -> Nat] /\ Self(n) \in [1..n -> Nat]
         /\ DOMAIN Ones(n) = 1..n
         /\ \A i \in 1..n : Ones(n)[i] = 1 /\ Self(n)[i] = i
BY DEF Ones, Self

\* A buffer goes out byte by byte; of one that does not fit, what has room.
LEMMA PiecesAtMost ==
  ASSUME NEW size \in 1..BlockSize
  PROVE  /\ AtMost(Pieces(size), size)
         /\ Room \in Nat /\ ~Fits(size) => AtMost(SubSeq(Pieces(size), 1, Room), Room)
<1>2. size \in Nat /\ size >= 1
  BY SizeAssumption
<1>3. CASE transport = "tcp"
  <2>1. Pieces(size) = <<size>> /\ DOMAIN <<size>> = {1} /\ <<size>>[1] = size /\ Len(<<size>>) = 1
    BY <1>3 DEF Pieces
  <2>2. /\ Ones(size) \in [1..size -> Nat] /\ Self(size) \in [1..size -> Nat]
        /\ \A b \in 1..size : Ones(size)[b] = 1 /\ Self(size)[b] = b
    BY <1>2, OnesAndSelf
  <2>3. AtMost(Pieces(size), size)
    <3>1. \A i \in DOMAIN Pieces(size) : \A b \in 1..Pieces(size)[i] :
            \E c \in 1..size : Ones(size)[c] = i /\ Self(size)[c] = b
      <4> SUFFICES ASSUME NEW b \in 1..size
                   PROVE  \E c \in 1..size : Ones(size)[c] = 1 /\ Self(size)[c] = b
        BY <2>1
      <4> QED
        BY <2>2
    <3> QED
      BY <2>2, <3>1 DEF AtMost
  <2>4. ASSUME Room \in Nat, ~Fits(size) PROVE AtMost(SubSeq(Pieces(size), 1, Room), Room)
    <3>1. Room = 0
      BY <2>1, <2>4 DEF Fits
    <3>2. SubSeq(<<size>>, 1, 0) = <<>> /\ DOMAIN <<>> = {}
      OBVIOUS
    <3> QED
      BY <2>1, <3>1, <3>2, OnesAndSelf DEF AtMost
  <2> QED
    BY <2>3, <2>4
<1>4. CASE transport # "tcp"
  <2>1. Pieces(size) = Ones(size) /\ Ones(size) \in Seq({1}) /\ Len(Ones(size)) = size
    BY <1>2, <1>4 DEF Pieces, Ones
  <2>4. \A p : \A n \in Nat : DOMAIN p = 1..n /\ (\A i \in 1..n : p[i] = 1) => AtMost(p, n)
    <3> SUFFICES ASSUME NEW p, NEW n \in Nat, DOMAIN p = 1..n, \A i \in 1..n : p[i] = 1
                 PROVE  AtMost(p, n)
      OBVIOUS
    <3>1. /\ Ones(n) \in [1..n -> Nat] /\ Self(n) \in [1..n -> Nat]
          /\ \A i \in 1..n : Self(n)[i] = i /\ Ones(n)[i] = 1
      BY OnesAndSelf
    <3>2. \A i \in DOMAIN p : \A b \in 1..p[i] : b = 1 /\ i \in 1..n
      OBVIOUS
    <3> QED
      BY <3>1, <3>2 DEF AtMost
  <2>5. AtMost(Pieces(size), size)
    BY <1>2, <2>1, <2>4, OnesAndSelf
  <2>6. ASSUME Room \in Nat, ~Fits(size) PROVE AtMost(SubSeq(Pieces(size), 1, Room), Room)
    <3> SUFFICES ASSUME NEW n \in Nat, n = Room, n <= size
                 PROVE  AtMost(SubSeq(Ones(size), 1, n), n)
      BY <1>2, <2>1, <2>6 DEF Fits
    <3>1. \A i \in 1..n : Ones(size)[i] = 1
      BY <1>2, OnesAndSelf
    <3>2. /\ SubSeq(Ones(size), 1, n) \in Seq({1}) /\ Len(SubSeq(Ones(size), 1, n)) = n
          /\ \A i \in 1..n : SubSeq(Ones(size), 1, n)[i] = Ones(size)[i]
      BY <1>2, <2>1, <3>1, SubSeqProperties
    <3>3. DOMAIN SubSeq(Ones(size), 1, n) = 1..n
      BY <3>2, LenProperties
    <3> QED
      BY <2>4, <3>1, <3>2, <3>3
  <2> QED
    BY <2>5, <2>6
<1> QED
  BY <1>3, <1>4
-----------------------------------------------------------------------------
(* What is in the total, or can still get there, was written. *)

\* The sessions that cannot write another "fin".
Notified == IF client \in {"handshake", "sending", "notifying"}
            THEN Len(sessions) - 1 ELSE Len(sessions)
Supply   == offset + FinSize * Notified

CountInv ==
  /\ total + Pending(sessions) <= Supply
  /\ \A k \in DOMAIN sessions :
       sessions[k].handler = "adding" => sessions[k].seen + Pending(sessions) <= Supply
  /\ row <= Supply

LEMMA Times ==
  /\ \A n \in Nat : FinSize * n \in Nat /\ FinSize * (n + 1) = FinSize * n + FinSize
  /\ \A m, n \in Nat : m <= n => FinSize * m <= FinSize * n
BY SizeAssumption

CountTypeOK ==
  /\ Capacity \in Nat /\ sessions \in Sessions(Capacity) /\ sessions \in Seq(Session)
  /\ Len(sessions) \in Nat /\ DOMAIN sessions = 1..Len(sessions)
  /\ Notified \in Nat /\ Supply \in Nat /\ Pending(sessions) \in Nat
  /\ total \in Nat /\ row \in Int /\ offset \in Nat
  /\ \A k \in DOMAIN sessions : sessions[k].nr \in Nat /\ sessions[k].seen \in Nat

LEMMA CountTypes == BackupTypeOK => CountTypeOK
<1> SUFFICES ASSUME BackupTypeOK PROVE CountTypeOK
  OBVIOUS
<1>1. Capacity \in Nat /\ sessions \in Sessions(Capacity)
  BY SizeAssumption DEF Capacity, BackupTypeOK
<1>2. sessions \in Seq(Session)
  BY <1>1 DEF Sessions
<1>3. Len(sessions) \in Nat /\ DOMAIN sessions = 1..Len(sessions)
  BY <1>2, LenProperties
<1>4. \A k \in DOMAIN sessions : sessions[k].nr \in Nat /\ sessions[k].seen \in Nat
  <2>1. \A k \in 1..Len(sessions) : sessions[k] \in Session
    BY <1>2, ElementOfSeq
  <2> QED
    BY <1>3, <2>1, SizeAssumption DEF Session
<1>5. Notified \in Nat
  <2>1. client \in {"handshake", "sending", "notifying"} => Len(sessions) # 0
    BY <1>2, EmptySeq DEF BackupTypeOK
  <2> QED
    BY <1>3, <2>1 DEF Notified
<1>6. offset \in Nat /\ total \in Nat /\ row \in Int
  BY SizeAssumption DEF BackupTypeOK, NoRow
<1>7. FinSize * Notified \in Nat
  BY <1>5, Times
<1>8. Supply \in Nat
  BY <1>6, <1>7 DEF Supply
<1>9. Pending(sessions) \in Nat
  BY <1>1, BytesFinite
<1> QED
  BY <1>1, <1>2, <1>3, <1>4, <1>5, <1>6, <1>8, <1>9 DEF CountTypeOK

\* A step that puts at most n bytes on the way, for which it is written.
LEMMA CountsOn ==
  ASSUME BackupTypeOK, BackupTypeOK', CountInv, NEW n \in Nat,
         Pending(sessions') <= Pending(sessions) + n, Supply' >= Supply + n,
         UNCHANGED <<total, row>>,
         \A k \in DOMAIN sessions' : sessions'[k].handler = "adding" =>
           k \in DOMAIN sessions /\ sessions[k].handler = "adding"
             /\ sessions'[k].seen = sessions[k].seen
  PROVE  CountInv'
<1>0. CountTypeOK /\ CountTypeOK'
  BY CountTypes, PTL
<1>1. Supply \in Nat /\ Pending(sessions) \in Nat /\ total \in Nat /\ row \in Int
  BY <1>0 DEF CountTypeOK
<1>2. Supply' \in Nat /\ Pending(sessions') \in Nat
  BY <1>0 DEF CountTypeOK
<1>3. \A k \in DOMAIN sessions : sessions[k].seen \in Nat
  BY <1>0 DEF CountTypeOK
<1>4. total' + Pending(sessions') <= Supply' /\ row' <= Supply'
  BY <1>1, <1>2 DEF CountInv
<1>5. ASSUME NEW k \in DOMAIN sessions', sessions'[k].handler = "adding"
      PROVE  sessions'[k].seen + Pending(sessions') <= Supply'
  <2>1. sessions[k].seen + Pending(sessions) <= Supply /\ sessions[k].seen \in Nat
    BY <1>3, <1>5 DEF CountInv
  <2> QED
    BY <1>1, <1>2, <1>5, <2>1
<1> QED
  BY <1>4, <1>5 DEF CountInv

\* Nothing comes on the way: sessions go on, lose what they have, or are new.
LEMMA QuietCounts ==
  ASSUME BackupTypeOK, BackupTypeOK', CountInv, Supply' >= Supply, UNCHANGED <<total, row>>,
         \A k \in DOMAIN sessions' :
           \/ sessions'[k].flight = <<>> /\ sessions'[k].handler # "adding"
           \/ /\ k \in DOMAIN sessions /\ sessions'[k].flight \in {sessions[k].flight, <<>>}
              /\ \/ sessions'[k].handler # "adding"
                 \/ /\ sessions[k].handler = "adding"
                    /\ sessions'[k].nr = sessions[k].nr /\ sessions'[k].seen = sessions[k].seen
  PROVE  CountInv'
<1>0. CountTypeOK /\ CountTypeOK'
  BY CountTypes, PTL
<1>1. Pending(sessions') <= Pending(sessions)
  <2>1. ASSUME NEW k \in DOMAIN sessions'
        PROVE  \/ OnTheWay(sessions'[k]) = {}
               \/ /\ k \in DOMAIN sessions
                  /\ OnTheWay(sessions'[k]) \subseteq OnTheWay(sessions[k])
    <3>1. DOMAIN <<>> = {}
      OBVIOUS
    <3>2. CASE sessions'[k].flight = <<>> /\ sessions'[k].handler # "adding"
      BY <3>1, <3>2, InOnTheWay DEF InHand
    <3>3. CASE k \in DOMAIN sessions /\ ~(sessions'[k].flight = <<>> /\ sessions'[k].handler # "adding")
      <4>1. InHand(sessions'[k]) \subseteq InHand(sessions[k])
        BY <3>3 DEF InHand
      <4>2. sessions'[k].flight \in {sessions[k].flight, <<>>}
        BY <3>3
      <4>3. \A i, b : <<i, b>> \in OnTheWay(sessions'[k]) => <<i, b>> \in OnTheWay(sessions[k])
        BY <3>1, <4>1, <4>2, InOnTheWay
      <4>4. OnTheWay(sessions'[k]) \subseteq OnTheWay(sessions[k])
        BY <4>3, InOnTheWay
      <4> QED
        BY <3>3, <4>4
    <3> QED
      BY <3>2, <3>3
  <2> QED
    BY <1>0, <2>1, FewerPending DEF CountTypeOK
<1>2. Pending(sessions) \in Nat /\ Pending(sessions') \in Nat /\ Supply \in Nat /\ Supply' \in Nat
  BY <1>0 DEF CountTypeOK
<1> QED
  BY <1>1, <1>2, CountsOn

\* As long as there are as many sessions, only the file and "fin" make more.
LEMMA SupplyGrows ==
  ASSUME BackupTypeOK, BackupTypeOK', DOMAIN sessions' = DOMAIN sessions
  PROVE  /\ Len(sessions') = Len(sessions) /\ Len(sessions) \in Nat /\ FinSize \in Nat
         /\ offset \in Nat /\ offset' \in Nat /\ Supply \in Nat /\ Supply' \in Nat
         /\ Notified' = Notified => Supply' = Supply + (offset' - offset)
         /\ Notified' = Notified + 1 => Supply' = Supply + (offset' - offset) + FinSize
<1>0. CountTypeOK /\ CountTypeOK'
  BY CountTypes, PTL
<1>1. /\ Len(sessions) \in Nat /\ DOMAIN sessions = 1..Len(sessions)
      /\ Len(sessions') \in Nat /\ DOMAIN sessions' = 1..Len(sessions')
      /\ Notified \in Nat /\ Notified' \in Nat /\ offset \in Nat /\ offset' \in Nat
      /\ Supply \in Nat /\ Supply' \in Nat
  BY <1>0 DEF CountTypeOK
<1>2. Len(sessions') = Len(sessions)
  BY <1>1
<1>3. PICK a \in Nat : a = FinSize * Notified
  BY <1>1, Times
<1>4. PICK b \in Nat : b = FinSize * Notified'
  BY <1>1, Times
<1>5. Supply = offset + a /\ Supply' = offset' + b
  BY <1>3, <1>4 DEF Supply
<1>6. Notified' = Notified => b = a
  BY <1>3, <1>4
<1>7. Notified' = Notified + 1 => b = a + FinSize
  BY <1>1, <1>3, <1>4, Times
<1>8. FinSize \in Nat
  BY SizeAssumption
<1>9. Notified' = Notified => Supply' = Supply + (offset' - offset)
  BY <1>1, <1>5, <1>6
<1>10. Notified' = Notified + 1 => Supply' = Supply + (offset' - offset) + FinSize
  BY <1>1, <1>5, <1>7, <1>8
<1> QED
  BY <1>1, <1>2, <1>8, <1>9, <1>10

\* A write of the client, also of a part.
LEMMA WriteCounts ==
  ASSUME BackupTypeOK, BackupTypeOK', CountInv, client \in {"sending", "notifying"},
         NEW p \in Seq(1..BlockSize), NEW n \in Nat, AtMost(p, n),
         \/ sessions' = Written(p)
         \/ sessions' = [Written(p) EXCEPT ![Cur].closed = TRUE],
         Supply' >= Supply + n, UNCHANGED <<total, row>>
  PROVE  CountInv'
<1>0. CountTypeOK /\ CountTypeOK'
  BY CountTypes, PTL
<1>1. Cur \in DOMAIN sessions /\ sessions[Cur] \in Session /\ sessions \in Seq(Session)
  BY <1>0, CurIsThere DEF CountTypeOK
<1>2. /\ DOMAIN sessions' = DOMAIN sessions
      /\ \A k \in DOMAIN sessions : k # Cur => sessions'[k] = sessions[k]
      /\ sessions'[Cur].flight = sessions[Cur].flight \o p
      /\ sessions'[Cur].handler = sessions[Cur].handler
      /\ sessions'[Cur].nr = sessions[Cur].nr /\ sessions'[Cur].seen = sessions[Cur].seen
  <2> DEFINE s == [sessions[Cur] EXCEPT !.flight = @ \o p]
             c == [s EXCEPT !.closed = TRUE]
  <2>1. /\ s.flight = sessions[Cur].flight \o p /\ s.handler = sessions[Cur].handler
        /\ s.nr = sessions[Cur].nr /\ s.seen = sessions[Cur].seen
        /\ c.flight = s.flight /\ c.handler = s.handler /\ c.nr = s.nr /\ c.seen = s.seen
    BY <1>1 DEF Session
  <2>2. Written(p) = [sessions EXCEPT ![Cur] = s]
    BY <1>1 DEF Written
  <2>3. [Written(p) EXCEPT ![Cur].closed = TRUE] = [sessions EXCEPT ![Cur] = c]
    BY <1>1, <2>2
  <2> HIDE DEF s, c
  <2>4. \/ sessions' = [sessions EXCEPT ![Cur] = s]
        \/ sessions' = [sessions EXCEPT ![Cur] = c]
    BY <2>2, <2>3
  <2> QED
    BY <1>1, <2>1, <2>4
<1> HIDE DEF Cur
<1>3. Pending(sessions') <= Pending(sessions) + n
  <2>1. /\ Capacity \in Nat /\ sessions \in Sessions(Capacity)
        /\ Capacity' \in Nat /\ sessions' \in Sessions(Capacity')
    BY <1>0 DEF CountTypeOK
  <2> QED
    BY <1>1, <1>2, <2>1, WrittenPending
<1> QED
  BY <1>2, <1>3, CountsOn

\* Closing a session, with or without what is on its way.
LEMMA ClosedCounts ==
  ASSUME BackupTypeOK, BackupTypeOK', CountInv, Cur \in DOMAIN sessions,
         sessions' \in {sessions, Closed, Lost}, UNCHANGED offset,
         Notified' \in {Notified, Notified + 1},
         UNCHANGED <<total, row>>
  PROVE  CountInv'
<1>0. CountTypeOK /\ CountTypeOK'
  BY CountTypes, PTL
<1>1. sessions \in Seq(Session) /\ sessions[Cur] \in Session /\ offset \in Nat /\ offset' \in Nat
  BY <1>0 DEF CountTypeOK
<1>2. /\ DOMAIN sessions' = DOMAIN sessions
      /\ \A k \in DOMAIN sessions' :
           /\ sessions'[k].flight \in {sessions[k].flight, <<>>}
           /\ sessions'[k].handler = sessions[k].handler
           /\ sessions'[k].nr = sessions[k].nr /\ sessions'[k].seen = sessions[k].seen
  <2> DEFINE s == [sessions[Cur] EXCEPT !.closed = TRUE]
             e == [s EXCEPT !.flight = <<>>]
  <2>1. /\ s.flight = sessions[Cur].flight /\ e.flight = <<>>
        /\ s.handler = sessions[Cur].handler /\ s.nr = sessions[Cur].nr
        /\ s.seen = sessions[Cur].seen
        /\ e.handler = s.handler /\ e.nr = s.nr /\ e.seen = s.seen
    BY <1>1 DEF Session
  <2>2. Closed = [sessions EXCEPT ![Cur] = s]
    BY DEF Closed
  <2>3. Lost = [sessions EXCEPT ![Cur] = e]
    BY <1>1, <2>2 DEF Lost
  <2> HIDE DEF s, e
  <2> QED
    BY <1>1, <2>1, <2>2, <2>3
<1>3. Supply' >= Supply
  BY <1>1, <1>2, SupplyGrows
<1> QED
  BY <1>2, <1>3, QuietCounts

LEMMA ClientCounts ==
  ASSUME BackupTypeOK, BackupTypeOK', CountInv, ClientStep \/ Kill
  PROVE  CountInv'
<1>0. CountTypeOK /\ CountTypeOK'
  BY CountTypes, PTL
<1>1. CASE Dial
  <2> DEFINE new == [flight |-> <<>>, closed |-> FALSE, stalled |-> FALSE,
                     handler |-> "reading", nr |-> 0, seen |-> 0]
  <2>1. new.flight = <<>> /\ new.handler = "reading"
    OBVIOUS
  <2>2. /\ sessions' = Append(sessions, new) /\ client = "dialing" /\ client' = "handshake"
        /\ UNCHANGED <<offset, total, row>>
    BY <1>1 DEF Dial
  <2> HIDE DEF new
  <2>3. /\ sessions \in Seq(Session) /\ Len(sessions) \in Nat /\ DOMAIN sessions = 1..Len(sessions)
        /\ Len(sessions') \in Nat /\ DOMAIN sessions' = 1..Len(sessions')
    BY <1>0 DEF CountTypeOK
  <2>4. /\ Len(sessions') = Len(sessions) + 1
        /\ \A k \in DOMAIN sessions' : \/ k \in DOMAIN sessions /\ sessions'[k] = sessions[k]
                                       \/ sessions'[k] = new
    BY <2>2, <2>3
  <2>5. Notified' = Notified
    BY <2>2, <2>3, <2>4 DEF Notified
  <2>6. Supply' = Supply /\ Supply \in Nat
    BY <1>0, <2>2, <2>5 DEF Supply, CountTypeOK
  <2> QED
    BY <2>1, <2>2, <2>4, <2>6, QuietCounts
<1>2. CASE Handshake
  <2>1. /\ UNCHANGED <<sessions, offset, total, row>>
        /\ client = "handshake" /\ client' = "sending"
    BY <1>2 DEF Handshake
  <2>2. Supply' = Supply /\ Supply \in Nat
    BY <1>0, <2>1 DEF Supply, Notified, CountTypeOK
  <2> QED
    BY <2>1, <2>2, QuietCounts
<1>3. CASE Send
  <2>1. Block \in 0..BlockSize /\ Block \in Nat /\ offset \in Nat
    BY SizeAssumption DEF Block, BackupTypeOK
  <2>2. /\ client = "sending" /\ client' \in {"sending", "notifying"}
        /\ offset' = offset + Block /\ UNCHANGED <<total, row>>
    BY <1>3 DEF Send
  <2>3. CASE Block = 0
    <3>1. UNCHANGED sessions
      BY <1>3, <2>3 DEF Send
    <3>2. offset' >= offset /\ Notified' = Notified
      BY <2>1, <2>2, <2>3, <3>1 DEF Notified
    <3>3. Supply' = Supply /\ Supply \in Nat
      BY <1>0, <2>1, <2>2, <2>3, <3>2 DEF Supply, CountTypeOK
    <3> QED
      BY <2>2, <3>1, <3>3, QuietCounts
  <2>4. CASE Block # 0
    <3>1. Block \in 1..BlockSize
      BY <2>1, <2>4, SizeAssumption
    <3>2. sessions' = Written(Pieces(Block)) /\ Pieces(Block) \in Seq(1..BlockSize)
          /\ AtMost(Pieces(Block), Block)
      BY <1>3, <2>4, <3>1, PiecesType, PiecesAtMost DEF Send
    <3>3. DOMAIN sessions' = DOMAIN sessions
      BY <1>0, <3>2 DEF Written, CountTypeOK
    <3>4. Len(sessions') = Len(sessions)
      BY <3>3, SupplyGrows
    <3>5. Notified' = Notified
      BY <2>2, <3>4 DEF Notified
    <3>6. Supply' >= Supply + Block
      BY <2>1, <2>2, <3>3, <3>5, SupplyGrows
    <3> QED
      BY <2>1, <2>2, <3>2, <3>6, WriteCounts
  <2> QED
    BY <2>3, <2>4
<1>4. CASE Notify
  <2>1. FinSize \in 1..BlockSize /\ FinSize \in Nat
    BY SizeAssumption
  <2>2. /\ client = "notifying" /\ client' = "receiving" /\ UNCHANGED <<offset, total, row>>
        /\ sessions' = Written(Pieces(FinSize)) /\ Pieces(FinSize) \in Seq(1..BlockSize)
        /\ AtMost(Pieces(FinSize), FinSize)
    BY <1>4, <2>1, PiecesType, PiecesAtMost DEF Notify
  <2>3. DOMAIN sessions' = DOMAIN sessions
    BY <1>0, <2>2 DEF Written, CountTypeOK
  <2>4. Len(sessions') = Len(sessions) /\ Len(sessions) \in Nat
    BY <2>3, SupplyGrows
  <2>5. Notified' = Notified + 1
    BY <2>2, <2>4 DEF Notified
  <2>6. Supply' >= Supply + FinSize
    BY <2>2, <2>3, <2>5, SupplyGrows
  <2> QED
    BY <2>1, <2>2, <2>6, WriteCounts
<1>5. CASE Receive \/ Reset \/ IdleTimesOut
  <2>1. /\ client \in {"handshake", "sending", "notifying", "receiving"}
        /\ client' \in {"done", "dialing"} /\ UNCHANGED <<offset, total, row>>
        /\ sessions' \in {Closed, Lost}
    BY <1>5 DEF Receive, Reset, IdleTimesOut
  <2>2. Cur \in DOMAIN sessions /\ DOMAIN sessions' = DOMAIN sessions
    BY <1>0, <2>1, CurIsThere DEF Closed, Lost, CountTypeOK
  <2>3. Len(sessions') = Len(sessions) /\ Len(sessions) \in Nat
    BY <2>2, SupplyGrows
  <2>4. Notified' \in {Notified, Notified + 1}
    BY <2>1, <2>3 DEF Notified
  <2> QED
    BY <2>1, <2>2, <2>4, ClosedCounts
<1>6. CASE WriteTimesOut
  <2> DEFINE size == IF client = "sending" THEN Block ELSE FinSize
             part == SubSeq(Pieces(size), 1, Room)
  <2>1. /\ client \in {"sending", "notifying"} /\ size > 0 /\ ~Fits(size)
        /\ sessions' = [Written(part) EXCEPT ![Cur].closed = TRUE]
        /\ offset' = IF client = "sending" THEN offset + Room ELSE offset
        /\ client' = "dialing" /\ UNCHANGED <<total, row>>
    BY <1>6 DEF WriteTimesOut
  <2>2. size \in 1..BlockSize /\ offset \in Nat /\ size \in Nat
    BY <2>1, SizeAssumption DEF Block, BackupTypeOK
  <2>3. Room \in Nat
    BY <2>1, CurIsThere
  <2>4. client # "sending" => size = FinSize
    BY <2>1
  <2> HIDE DEF size
  <2>5. part \in Seq(1..BlockSize) /\ Room < size /\ AtMost(part, Room)
    BY <2>1, <2>2, <2>3, PartType, PiecesAtMost
  <2> HIDE DEF part
  <2>6. DOMAIN sessions' = DOMAIN sessions
    BY <1>0, <2>1 DEF Written, CountTypeOK
  <2>7. Len(sessions') = Len(sessions) /\ Len(sessions) \in Nat
    BY <2>6, SupplyGrows
  <2>8. Notified' = Notified + 1
    BY <2>1, <2>7 DEF Notified
  <2>9. Supply' >= Supply + Room
    BY <2>1, <2>2, <2>3, <2>4, <2>5, <2>6, <2>8, SupplyGrows
  <2> QED
    BY <2>1, <2>3, <2>5, <2>9, WriteCounts
<1>7. CASE Kill
  <2>1. /\ client \notin {"done", "killed"} /\ client' = "killed" /\ UNCHANGED <<offset, total, row>>
        /\ client = "dialing" => sessions' = sessions
        /\ sessions' \in {sessions, Closed, Lost}
    BY <1>7 DEF Kill
  <2>2. DOMAIN sessions' = DOMAIN sessions
    BY <1>0, <2>1 DEF Closed, Lost, CountTypeOK
  <2>3. Len(sessions') = Len(sessions) /\ Len(sessions) \in Nat
    BY <2>2, SupplyGrows
  <2>4. Notified' \in {Notified, Notified + 1}
    BY <2>1, <2>3 DEF Notified
  <2>5. CASE client = "dialing"
    <3>1. Supply' >= Supply
      BY <2>1, <2>2, <2>4, SupplyGrows
    <3> QED
      BY <2>1, <2>5, <3>1, QuietCounts
  <2>6. CASE client # "dialing"
    <3>1. client \in {"handshake", "sending", "notifying", "receiving"}
      BY <2>1, <2>6 DEF BackupTypeOK
    <3> QED
      BY <2>1, <2>4, <3>1, CurIsThere, ClosedCounts
  <2> QED
    BY <2>5, <2>6
<1> QED
  BY <1>1, <1>2, <1>3, <1>4, <1>5, <1>6, <1>7 DEF ClientStep

\* A handler: what it reads stays on the way, what it adds comes off it.
LEMMA ServerCounts ==
  ASSUME BackupTypeOK, BackupTypeOK', CountInv,
         NEW k \in DOMAIN sessions, ServerStep(k) \/ GoOn(k)
  PROVE  CountInv'
<1>0. CountTypeOK /\ CountTypeOK'
  BY CountTypes, PTL
<1>1. /\ sessions \in Seq(Session) /\ sessions[k] \in Session /\ Capacity \in Nat
      /\ sessions \in Sessions(Capacity) /\ Capacity' \in Nat /\ sessions' \in Sessions(Capacity')
      /\ total \in Nat /\ Supply \in Nat /\ row \in Int
      /\ Pending(sessions) \in Nat /\ Pending(sessions') \in Nat
  BY <1>0 DEF CountTypeOK
<1>2. UNCHANGED <<offset, client>>
  BY DEF ServerStep, Read, Add, ReadFails, Record, GoOn, sides
<1>3. DOMAIN sessions' = DOMAIN sessions /\ \A j \in DOMAIN sessions : j # k => sessions'[j] = sessions[j]
  BY <1>1 DEF ServerStep, Read, Add, ReadFails, Record, GoOn, Handler
<1>4. Supply' = Supply
  <2>1. Len(sessions') = Len(sessions)
    BY <1>3, SupplyGrows
  <2> QED
    BY <1>2, <2>1 DEF Supply, Notified
<1>5. ASSUME NEW state, sessions' = Handler(k, state)
      PROVE  /\ sessions'[k].flight = sessions[k].flight /\ sessions'[k].handler = state
  BY <1>1, <1>5 DEF Handler, Session
<1>6. CASE Read(k)
  <2> DEFINE f == sessions[k].flight
  <2>1. PICK n \in ReadLens(k) :
          sessions' = [sessions EXCEPT
            ![k].handler = "adding", ![k].seen = total,
            ![k].nr = IF transport = "tcp" THEN Head(f) ELSE n,
            ![k].flight = SubSeq(@, n + 1, Len(@))]
    BY <1>6 DEF Read
  <2>2. /\ sessions[k].handler = "reading" /\ UNCHANGED <<total, row>>
        /\ sessions'[k].handler = "adding" /\ sessions'[k].seen = total
        /\ sessions'[k].nr = IF transport = "tcp" THEN Head(f) ELSE n
        /\ sessions'[k].flight = SubSeq(f, n + 1, Len(f))
    BY <1>1, <1>6, <2>1 DEF Read, sides, Session
  <2>3. /\ f \in Seq(1..BlockSize) /\ n \in DOMAIN f /\ DOMAIN f = 1..Len(f) /\ Len(f) \in Nat
        /\ n \in Nat /\ \A i \in 1..Len(f) : f[i] \in 1..BlockSize
        /\ transport = "tcp" => n = 1
    <3>1. f \in Seq(1..BlockSize)
      BY <1>1 DEF Session
    <3>2. DOMAIN f = 1..Len(f) /\ Len(f) \in Nat /\ \A i \in 1..Len(f) : f[i] \in 1..BlockSize
      BY <3>1, LenProperties, ElementOfSeq
    <3> HIDE DEF f
    <3>3. n \in DOMAIN f /\ n <= IF transport = "tcp" THEN 1 ELSE BlockSize
      BY DEF ReadLens, f
    <3> QED
      BY <3>1, <3>2, <3>3
  <2>4. /\ DOMAIN sessions'[k].flight = 1..(Len(f) - n)
        /\ \A i \in 1..(Len(f) - n) : sessions'[k].flight[i] = f[n + i]
    <3> DEFINE r == SubSeq(f, n + 1, Len(f))
    <3> HIDE DEF f
    <3>1. \A i \in (n + 1)..Len(f) : f[i] \in 1..BlockSize
      BY <2>3
    <3>2. /\ r \in Seq(1..BlockSize) /\ Len(r) = Len(f) - n
          /\ \A i \in 1..(Len(f) - n) : r[i] = f[n + i]
      BY <2>3, <3>1, SubSeqProperties
    <3> HIDE DEF r
    <3>3. DOMAIN r = 1..(Len(f) - n)
      BY <3>2, LenProperties
    <3> QED
      BY <2>2, <3>2, <3>3 DEF r
  <2>5. Pending(sessions') <= Pending(sessions)
    <3> DEFINE New == OnTheWay(sessions'[k])
               Old == OnTheWay(sessions[k])
               nr == sessions'[k].nr
               g == [y \in New |-> IF y[1] # 0 THEN <<n + y[1], y[2]>>
                                   ELSE IF transport = "tcp" THEN <<1, y[2]>> ELSE <<y[2], 1>>]
    <3>1. /\ \A i, b : <<i, b>> \in Old <=> i \in 1..Len(f) /\ b \in 1..f[i]
          /\ \A i, b : <<i, b>> \in New <=>
               \/ i = 0 /\ b \in 1..nr
               \/ i \in 1..(Len(f) - n) /\ b \in 1..f[n + i]
          /\ \A y \in New : \E i, b : y = <<i, b>>
      <4>1. InHand(sessions[k]) = {} /\ InHand(sessions'[k]) = 1..nr
        BY <2>2 DEF InHand
      <4>2. \A i, b : <<i, b>> \in Old <=> i \in 1..Len(f) /\ b \in 1..f[i]
        BY <2>3, <4>1, InOnTheWay
      <4>3. \A i, b : <<i, b>> \in New <=>
               \/ i = 0 /\ b \in 1..nr
               \/ i \in 1..(Len(f) - n) /\ b \in 1..f[n + i]
        BY <2>4, <4>1, InOnTheWay
      <4> QED
        BY <4>2, <4>3, InOnTheWay
    <3>2. \A y \in New : \A i, b : y = <<i, b>> =>
            g[y] = IF i # 0 THEN <<n + i, b>>
                   ELSE IF transport = "tcp" THEN <<1, b>> ELSE <<b, 1>>
      OBVIOUS
    <3>3. transport = "tcp" => n = 1 /\ nr = f[1]
      BY <2>2, <2>3
    <3>4. transport # "tcp" => nr = n
      BY <2>2
    <3>5. DOMAIN g = New
      OBVIOUS
    <3>6. g = [y \in DOMAIN g |-> g[y]]
      OBVIOUS
    <3> HIDE DEF g, New, Old, nr, f
    <3>7. ASSUME NEW y \in New PROVE g[y] \in Old
      <4>1. PICK i, b : y = <<i, b>>
        BY <3>1
      <4>2. \/ i = 0 /\ b \in 1..nr
            \/ i \in 1..(Len(f) - n) /\ b \in 1..f[n + i]
        BY <3>1, <4>1
      <4>3. g[y] = IF i # 0 THEN <<n + i, b>>
                   ELSE IF transport = "tcp" THEN <<1, b>> ELSE <<b, 1>>
        BY <3>2, <4>1
      <4>4. CASE i = 0 /\ transport = "tcp"
        <5>1. 1 \in 1..Len(f) /\ b \in 1..f[1]
          BY <2>3, <3>3, <4>2, <4>4
        <5> QED
          BY <3>1, <4>3, <4>4, <5>1
      <4>5. CASE i = 0 /\ transport # "tcp"
        <5>1. b \in 1..Len(f) /\ 1 \in 1..f[b]
          BY <2>3, <3>4, <4>2, <4>5
        <5> QED
          BY <3>1, <4>3, <4>5, <5>1
      <4>6. CASE i # 0
        <5>1. n + i \in 1..Len(f) /\ b \in 1..f[n + i]
          BY <2>3, <4>2, <4>6
        <5> QED
          BY <3>1, <4>3, <4>6, <5>1
      <4> QED
        BY <4>4, <4>5, <4>6
    <3>8. ASSUME NEW y \in New, NEW z \in New, g[y] = g[z] PROVE y = z
      <4>1. PICK i, b : y = <<i, b>>
        BY <3>1
      <4>2. PICK j, c : z = <<j, c>>
        BY <3>1
      <4>3. /\ (i = 0 /\ b \in 1..nr) \/ i \in 1..(Len(f) - n)
            /\ (j = 0 /\ c \in 1..nr) \/ j \in 1..(Len(f) - n)
        BY <3>1, <4>1, <4>2
      <4>4. /\ g[y] = IF i # 0 THEN <<n + i, b>>
                      ELSE IF transport = "tcp" THEN <<1, b>> ELSE <<b, 1>>
            /\ g[z] = IF j # 0 THEN <<n + j, c>>
                      ELSE IF transport = "tcp" THEN <<1, c>> ELSE <<c, 1>>
        BY <3>2, <4>1, <4>2
      <4>5. CASE i # 0 /\ j # 0
        <5>1. <<n + i, b>> = <<n + j, c>>
          BY <3>8, <4>4, <4>5
        <5>2. n + i = n + j /\ b = c
          BY <5>1, Zenon
        <5> QED
          BY <2>3, <4>1, <4>2, <4>3, <4>5, <5>2
      <4>6. CASE i = 0 /\ j = 0
        BY <3>8, <4>1, <4>2, <4>4, <4>6, PairEq
      <4>7. CASE i # 0 /\ j = 0
        <5>1. n + i = 1 \/ (transport # "tcp" /\ n + i = c)
          BY <3>8, <4>4, <4>7, PairEq
        <5> QED
          BY <2>3, <3>4, <4>3, <4>7, <5>1
      <4>8. CASE i = 0 /\ j # 0
        <5>1. n + j = 1 \/ (transport # "tcp" /\ n + j = b)
          BY <3>8, <4>4, <4>8, PairEq
        <5> QED
          BY <2>3, <3>4, <4>3, <4>8, <5>1
      <4> QED
        BY <4>5, <4>6, <4>7, <4>8
    <3>9. g \in [New -> Old]
      BY <3>5, <3>6, <3>7
    <3>10. Pending(sessions') <= Pending(sessions)
      BY <1>1, <1>3, <3>8, <3>9, MovedPending DEF New, Old
    <3> QED
      BY <3>10
  <2>6. ASSUME NEW j \in DOMAIN sessions', sessions'[j].handler = "adding"
        PROVE  sessions'[j].seen + Pending(sessions') <= Supply'
    <3>1. CASE j = k
      BY <1>1, <1>4, <2>2, <2>5, <3>1 DEF CountInv
    <3>2. CASE j # k
      <4>1. sessions[j].seen \in Nat /\ sessions[j].seen + Pending(sessions) <= Supply
        BY <1>0, <1>3, <2>6, <3>2 DEF CountInv, CountTypeOK
      <4> QED
        BY <1>1, <1>3, <1>4, <2>5, <3>2, <4>1
    <3> QED
      BY <3>1, <3>2
  <2>7. total' + Pending(sessions') <= Supply' /\ row' <= Supply'
    BY <1>1, <1>4, <2>2, <2>5 DEF CountInv
  <2> QED
    BY <2>6, <2>7 DEF CountInv
<1>7. CASE Add(k)
  <2>1. /\ sessions[k].handler = "adding" /\ total' = sessions[k].seen + sessions[k].nr
        /\ sessions' = Handler(k, IF sessions[k].nr < BlockSize THEN "ended" ELSE "reading")
        /\ row' = row
    BY <1>7 DEF Add
  <2>2. sessions'[k].flight = sessions[k].flight /\ sessions'[k].handler # "adding"
    BY <1>5, <2>1
  <2>3. Pending(sessions') + sessions[k].nr <= Pending(sessions)
    BY <1>1, <1>3, <2>1, <2>2, AddedPending
  <2>4. sessions[k].seen \in Nat /\ sessions[k].nr \in Nat
    BY <1>0 DEF CountTypeOK
  <2>5. total' + Pending(sessions') <= Supply' /\ row' <= Supply'
    BY <1>1, <1>4, <2>1, <2>3, <2>4 DEF CountInv
  <2>6. ASSUME NEW j \in DOMAIN sessions', sessions'[j].handler = "adding"
        PROVE  sessions'[j].seen + Pending(sessions') <= Supply'
    <3>1. j # k /\ j \in DOMAIN sessions /\ sessions'[j] = sessions[j]
      BY <1>3, <2>2, <2>6
    <3>2. sessions[j].seen \in Nat /\ sessions[j].seen + Pending(sessions) <= Supply
      BY <1>0, <2>6, <3>1 DEF CountInv, CountTypeOK
    <3> QED
      BY <1>1, <1>4, <2>3, <2>4, <3>1, <3>2
  <2> QED
    BY <2>5, <2>6 DEF CountInv
<1>8. CASE ReadFails(k)
  <2>1. sessions' = Handler(k, "ended") /\ UNCHANGED <<total, row>>
    BY <1>8 DEF ReadFails, sides
  <2> QED
    BY <1>1, <1>3, <1>4, <1>5, <2>1, QuietCounts
<1>9. CASE Record(k)
  <2>1. /\ sessions' = Handler(k, "recorded") /\ total' = total
        /\ row' = IF row = NoRow THEN total ELSE row
    BY <1>9 DEF Record
  <2>2. sessions'[k].flight = sessions[k].flight /\ sessions'[k].handler # "adding"
    BY <1>5, <2>1
  <2>3. Pending(sessions') <= Pending(sessions)
    <3>1. \A j \in DOMAIN sessions' : OnTheWay(sessions'[j]) \subseteq OnTheWay(sessions[j])
      <4>1. \A i, b : <<i, b>> \in OnTheWay(sessions'[k]) => <<i, b>> \in OnTheWay(sessions[k])
        BY <2>2, InOnTheWay DEF InHand
      <4>2. OnTheWay(sessions'[k]) \subseteq OnTheWay(sessions[k])
        BY <4>1, InOnTheWay
      <4> QED
        BY <1>3, <4>2
    <3> QED
      BY <1>1, <1>3, <3>1, FewerPending
  <2>4. total' + Pending(sessions') <= Supply' /\ row' <= Supply'
    BY <1>1, <1>4, <2>1, <2>3 DEF CountInv
  <2>5. ASSUME NEW j \in DOMAIN sessions', sessions'[j].handler = "adding"
        PROVE  sessions'[j].seen + Pending(sessions') <= Supply'
    <3>1. j # k /\ j \in DOMAIN sessions /\ sessions'[j] = sessions[j]
      BY <1>3, <2>2, <2>5
    <3>2. sessions[j].seen \in Nat /\ sessions[j].seen + Pending(sessions) <= Supply
      BY <1>0, <2>5, <3>1 DEF CountInv, CountTypeOK
    <3> QED
      BY <1>1, <1>4, <2>3, <3>1, <3>2
  <2> QED
    BY <2>4, <2>5 DEF CountInv
<1>10. CASE GoOn(k)
  <2>1. /\ sessions' = [sessions EXCEPT ![k].stalled = FALSE] /\ UNCHANGED <<total, row>>
    BY <1>10 DEF GoOn, sides
  <2>2. /\ sessions'[k].flight = sessions[k].flight /\ sessions'[k].handler = sessions[k].handler
        /\ sessions'[k].nr = sessions[k].nr /\ sessions'[k].seen = sessions[k].seen
    BY <1>1, <2>1 DEF Session
  <2> QED
    BY <1>1, <1>3, <1>4, <2>1, <2>2, QuietCounts
<1> QED
  BY <1>6, <1>7, <1>8, <1>9, <1>10 DEF ServerStep

LEMMA NetworkCounts ==
  ASSUME BackupTypeOK, BackupTypeOK', CountInv, Fail \/ Heal
  PROVE  CountInv'
<1>1. UNCHANGED <<offset, client, total, row>>
  BY DEF Fail, Heal, sides
<1>2. /\ DOMAIN sessions' = DOMAIN sessions
      /\ \A k \in DOMAIN sessions :
           /\ sessions'[k].flight = sessions[k].flight
           /\ sessions'[k].handler = sessions[k].handler
           /\ sessions'[k].nr = sessions[k].nr /\ sessions'[k].seen = sessions[k].seen
  <2>1. CASE Fail
    <3>1. \A k \in DOMAIN sessions : sessions[k] \in Session
      BY DEF BackupTypeOK, Sessions
    <3> QED
      BY <2>1, <3>1 DEF Fail, Session
  <2>2. CASE Heal
    BY <2>2 DEF Heal
  <2> QED
    BY <2>1, <2>2
<1>3. Supply' = Supply /\ Supply \in Nat
  <2>1. Len(sessions') = Len(sessions)
    BY <1>2, SupplyGrows
  <2> QED
    BY <1>1, <1>2, <2>1, SupplyGrows DEF Supply, Notified
<1> QED
  BY <1>1, <1>2, <1>3, QuietCounts

LEMMA InitCounts == Init => CountInv
<1> SUFFICES ASSUME Init PROVE CountInv
  OBVIOUS
<1>1. sessions = <<>> /\ offset = 0 /\ total = 0 /\ row = NoRow /\ client = "dialing"
  BY DEF Init
<1>2. DOMAIN sessions = {} /\ Len(sessions) = 0
  BY <1>1
<1>3. \A x : x \notin Bytes(sessions)
  BY <1>2, InBytes
<1>4. Pending(sessions) = 0
  BY <1>3, FS_EmptySet DEF Pending
<1>5. Supply = 0
  BY <1>1, <1>2, SizeAssumption DEF Supply, Notified
<1> QED
  BY <1>1, <1>2, <1>4, <1>5 DEF CountInv, NoRow

LEMMA CountInvSuffices == BackupTypeOK /\ CountInv => NothingCountsTwice
<1> SUFFICES ASSUME BackupTypeOK, CountInv PROVE NothingCountsTwice
  OBVIOUS
<1>1. /\ Supply \in Nat /\ Pending(sessions) \in Nat /\ total \in Nat /\ row \in Int
      /\ Len(sessions) \in Nat /\ Notified \in Nat /\ offset \in Nat
  BY CountTypes DEF CountTypeOK
<1>2. Notified <= Len(sessions)
  BY <1>1 DEF Notified
<1>3. FinSize * Notified <= FinSize * Len(sessions)
  BY <1>1, <1>2, Times
<1>4. Supply <= Sent /\ Sent \in Nat
  <2>1. FinSize * Notified \in Nat /\ FinSize * Len(sessions) \in Nat
    BY <1>1, Times
  <2>2. \A a, b, o \in Nat : a <= b => o + a <= o + b
    OBVIOUS
  <2> QED
    BY <1>1, <1>3, <2>1, <2>2 DEF Supply, Sent
<1> QED
  BY <1>1, <1>4 DEF CountInv, NothingCountsTwice

\* NothingCountsTwice, for every size of the file, the blocks and the window,
\* and any number of sessions and outages: what the goroutines add up, however
\* they overlap, was written by the client, each block once and one "fin" per
\* session (offset is kept between sessions, total shared).
THEOREM NothingEverCountsTwice == Spec => []NothingCountsTwice
<1>1. BackupTypeOK /\ BackupTypeOK' /\ CountInv /\ [Next]_vars => CountInv'
  <2> SUFFICES ASSUME BackupTypeOK, BackupTypeOK', CountInv, [Next]_vars PROVE CountInv'
    OBVIOUS
  <2>1. CASE UNCHANGED vars
    BY <2>1 DEF vars, CountInv, Supply, Notified
  <2> QED
    BY <2>1, ClientCounts, ServerCounts, NetworkCounts DEF Next
<1> QED
  BY <1>1, InitCounts, CountInvSuffices, BackupTypes, PTL DEF Spec
-----------------------------------------------------------------------------
(* Over TCP, without outages: the file goes through one session, and a     *)
(* second one, if there is one, comes when it is counted.                  *)

\* In flight: n bytes of the file in full blocks; or its last n bytes, with
\* "fin" after them when it is written.
FullBlocks(q, n) == (\A i \in DOMAIN q : q[i] = BlockSize) /\ n = BlockSize * Len(q)
LastAre(q, n, fins, m, left) ==
  /\ n = BlockSize * m + left
  /\ Len(q) = m + (IF left = 0 THEN 0 ELSE 1) + fins
  /\ \A i \in 1..m : q[i] = BlockSize
  /\ left # 0 => q[m + 1] = left
  /\ fins = 1 => q[Len(q)] = FinSize
LastBlocks(q, n, fins) ==
  \E m \in Nat, left \in 0..(BlockSize - 1) : LastAre(q, n, fins, m, left)

LEMMA BlockTimes ==
  /\ BlockSize \in Nat /\ BlockSize >= 1 /\ FinSize \in 1..(BlockSize - 1)
  /\ BlockSize * 0 = 0
  /\ \A n \in Nat : /\ BlockSize * n \in Nat
                    /\ BlockSize * (n + 1) = BlockSize * n + BlockSize
BY SizeAssumption

\* A number of bytes that full blocks have.
InBlocks(n) == \E j \in Nat : n = BlockSize * j

LEMMA FileEnds ==
  ASSUME chunk \in Nat, NEW n \in Nat, InBlocks(n), NEW left \in 0..(BlockSize - 1), chunk = n + left
  PROVE  EndsWithBlock <=> left = 0
<1>1. PICK j \in Nat : n = BlockSize * j
  BY DEF InBlocks
<1>2. ASSUME left = 0 PROVE EndsWithBlock
  <2>1. PICK e \in Nat : BlockSize = 1 + e
    <3>1. BlockSize - 1 \in Nat /\ BlockSize = 1 + (BlockSize - 1)
      BY BlockTimes
    <3> QED
      BY <3>1
  <2>2. PICK f \in Nat : f = e * j
    OBVIOUS
  <2>3. BlockSize * j = j + f
    BY <2>1, <2>2
  <2>4. chunk = BlockSize * j /\ j \in 0..chunk
    BY <1>1, <1>2, <2>3
  <2> QED
    BY <2>4 DEF EndsWithBlock
<1>3. ASSUME left # 0, EndsWithBlock PROVE FALSE
  <2>1. PICK k \in Nat : chunk = BlockSize * k
    BY <1>3 DEF EndsWithBlock
  <2>2. CASE k <= j
    <3>1. PICK d \in Nat : j = k + d
      <4>1. j - k \in Nat /\ j = k + (j - k)
        BY <2>2
      <4> QED
        BY <4>1
    <3>2. PICK x \in Nat, y \in Nat : x = BlockSize * k /\ y = BlockSize * d
      BY BlockTimes
    <3>3. BlockSize * j = x + y
      BY <3>1, <3>2, BlockTimes
    <3> QED
      BY <1>1, <1>3, <2>1, <3>2, <3>3
  <2>3. CASE ~(k <= j)
    <3>1. PICK d \in Nat : k = j + 1 + d
      <4>1. k - j - 1 \in Nat /\ k = j + 1 + (k - j - 1)
        BY <2>3
      <4> QED
        BY <4>1
    <3>2. PICK x \in Nat, y \in Nat : x = BlockSize * j /\ y = BlockSize * d
      BY BlockTimes
    <3>3. BlockSize * k = x + BlockSize + y
      BY <3>1, <3>2, BlockTimes
    <3> QED
      BY <1>1, <2>1, <3>2, <3>3, BlockTimes
  <2> QED
    BY <2>2, <2>3
<1> QED
  BY <1>2, <1>3

LEMMA FullAppend ==
  ASSUME NEW q \in Seq(Nat), NEW n, FullBlocks(q, n)
  PROVE  /\ n \in Nat
         /\ FullBlocks(q \o <<BlockSize>>, n + BlockSize)
         /\ LastBlocks(q, n, 0)
         /\ \A s \in 1..(BlockSize - 1) : LastBlocks(q \o <<s>>, n + s, 0)
<1>1. Len(q) \in Nat /\ DOMAIN q = 1..Len(q) /\ n \in Nat
  BY BlockTimes DEF FullBlocks
<1>2. ASSUME NEW x \in Nat
      PROVE  /\ Len(q \o <<x>>) = Len(q) + 1 /\ DOMAIN (q \o <<x>>) = 1..(Len(q) + 1)
             /\ (q \o <<x>>)[Len(q) + 1] = x
             /\ \A i \in 1..Len(q) : (q \o <<x>>)[i] = q[i]
  OBVIOUS
<1>3. FullBlocks(q \o <<BlockSize>>, n + BlockSize)
  BY <1>1, <1>2, BlockTimes DEF FullBlocks
<1>4. LastBlocks(q, n, 0)
  <2>1. 0 \in 0..(BlockSize - 1) /\ n = BlockSize * Len(q) + 0
    BY <1>1, BlockTimes DEF FullBlocks
  <2>2. LastAre(q, n, 0, Len(q), 0)
    BY <1>1, <2>1 DEF FullBlocks, LastAre
  <2> QED
    BY <1>1, <2>1, <2>2 DEF LastBlocks
<1>5. ASSUME NEW s \in 1..(BlockSize - 1) PROVE LastBlocks(q \o <<s>>, n + s, 0)
  <2>1. /\ s \in 0..(BlockSize - 1) /\ s \in Nat /\ s # 0 /\ n + s = BlockSize * Len(q) + s
    BY <1>1, BlockTimes DEF FullBlocks
  <2>2. LastAre(q \o <<s>>, n + s, 0, Len(q), s)
    BY <1>1, <1>2, <2>1 DEF FullBlocks, LastAre
  <2> QED
    BY <1>1, <2>1, <2>2 DEF LastBlocks
<1> QED
  BY <1>1, <1>3, <1>4, <1>5

LEMMA LastAppend ==
  ASSUME NEW q \in Seq(Nat), NEW n, LastBlocks(q, n, 0)
  PROVE  LastBlocks(q \o <<FinSize>>, n, 1)
<1>1. PICK m \in Nat, left \in 0..(BlockSize - 1) : LastAre(q, n, 0, m, left)
  BY DEF LastBlocks
<1>2. FinSize \in Nat
  BY SizeAssumption
<1>3. /\ Len(q \o <<FinSize>>) = Len(q) + 1 /\ Len(q) \in Nat
      /\ (q \o <<FinSize>>)[Len(q) + 1] = FinSize
      /\ \A i \in 1..Len(q) : (q \o <<FinSize>>)[i] = q[i]
  BY <1>2
<1>4. LastAre(q \o <<FinSize>>, n, 1, m, left)
  BY <1>1, <1>3 DEF LastAre
<1> QED
  BY <1>4 DEF LastBlocks

\* The server reads a full block, or what is left, or "fin" after all of it.
LEMMA BlockRead ==
  ASSUME NEW q \in Seq(Nat), q # <<>>, NEW n
  PROVE  /\ FullBlocks(q, n) =>
              q[1] = BlockSize /\ FullBlocks(SubSeq(q, 2, Len(q)), n - BlockSize)
         /\ \A fins \in {0, 1} : LastBlocks(q, n, fins) =>
              \/ q[1] = BlockSize /\ LastBlocks(SubSeq(q, 2, Len(q)), n - BlockSize, fins)
              \/ q[1] = n /\ n \in 1..(BlockSize - 1)
              \/ q[1] = FinSize /\ n = 0 /\ fins = 1 /\ SubSeq(q, 2, Len(q)) = <<>>
<1> DEFINE r == SubSeq(q, 2, Len(q))
<1>1. /\ Len(q) \in Nat /\ Len(q) >= 1 /\ DOMAIN q = 1..Len(q)
      /\ Len(r) = Len(q) - 1 /\ DOMAIN r = 1..(Len(q) - 1) /\ r \in Seq(Nat)
      /\ \A i \in 1..(Len(q) - 1) : r[i] = q[i + 1]
  <2>1. Len(q) \in Nat /\ Len(q) >= 1 /\ DOMAIN q = 1..Len(q)
    BY EmptySeq, LenProperties
  <2>2. \A i \in 2..Len(q) : q[i] \in Nat
    BY <2>1, ElementOfSeq
  <2>3. /\ r \in Seq(Nat)
        /\ Len(r) = IF 2 <= Len(q) THEN Len(q) - 2 + 1 ELSE 0
        /\ \A i \in 1..(Len(q) - 2 + 1) : r[i] = q[2 + i - 1]
    <3>1. 2 \in Int /\ Len(q) \in Int
      BY <2>1
    <3> QED
      BY <2>2, <3>1, SubSeqProperties
  <2>4. DOMAIN r = 1..Len(r)
    BY <2>3, LenProperties
  <2> QED
    BY <2>1, <2>3, <2>4
<1> HIDE DEF r
<1>2. ASSUME FullBlocks(q, n) PROVE q[1] = BlockSize /\ FullBlocks(r, n - BlockSize)
  <2>1. BlockSize * Len(q) = BlockSize * Len(r) + BlockSize
    <3>1. Len(r) \in Nat /\ Len(q) = Len(r) + 1
      BY <1>1
    <3> QED
      BY <3>1, BlockTimes
  <2>2. BlockSize * Len(r) \in Nat
    <3>1. Len(r) \in Nat
      BY <1>1
    <3> QED
      BY <3>1, BlockTimes
  <2>3. n - BlockSize = BlockSize * Len(r)
    <3>1. n = BlockSize * Len(q)
      BY <1>2 DEF FullBlocks
    <3> QED
      BY <2>1, <2>2, <3>1, BlockTimes
  <2>4. \A i \in DOMAIN q : q[i] = BlockSize
    BY <1>2 DEF FullBlocks
  <2>5. q[1] = BlockSize
    BY <1>1, <2>4
  <2>6. \A i \in DOMAIN r : r[i] = BlockSize
    <3>1. \A i \in DOMAIN r : i \in 1..(Len(q) - 1) /\ i + 1 \in DOMAIN q
      BY <1>1
    <3> QED
      BY <1>1, <2>4, <3>1
  <2> QED
    BY <2>3, <2>5, <2>6 DEF FullBlocks
<1>3. ASSUME NEW fins \in {0, 1}, LastBlocks(q, n, fins)
      PROVE  \/ q[1] = BlockSize /\ LastBlocks(r, n - BlockSize, fins)
             \/ q[1] = n /\ n \in 1..(BlockSize - 1)
             \/ q[1] = FinSize /\ n = 0 /\ fins = 1 /\ r = <<>>
  <2>1. PICK m \in Nat, left \in 0..(BlockSize - 1) : LastAre(q, n, fins, m, left)
    BY <1>3 DEF LastBlocks
  <2>2. CASE m = 0
    <3>1. n = left /\ Len(q) = (IF left = 0 THEN 0 ELSE 1) + fins
      BY <2>1, <2>2, BlockTimes DEF LastAre
    <3>2. CASE left # 0
      BY <2>1, <2>2, <3>1, <3>2 DEF LastAre
    <3>3. CASE left = 0
      <4>1. Len(q) = 1 /\ fins = 1 /\ q[1] = FinSize /\ Len(r) = 0
        BY <1>1, <2>1, <3>1, <3>3 DEF LastAre
      <4> QED
        BY <1>1, <3>1, <3>3, <4>1, EmptySeq
    <3> QED
      BY <3>2, <3>3
  <2>3. CASE m # 0
    <3> SUFFICES ASSUME NEW k \in Nat, m = k + 1
                 PROVE  q[1] = BlockSize /\ LastBlocks(r, n - BlockSize, fins)
      <4>1. m - 1 \in Nat /\ m = (m - 1) + 1
        BY <2>3
      <4> QED
        BY <4>1
    <3>1. n - BlockSize = BlockSize * k + left
      <4>1. PICK a \in Nat : a = BlockSize * k /\ BlockSize * (k + 1) = a + BlockSize
        BY BlockTimes
      <4>2. n = BlockSize * (k + 1) + left
        BY <2>1 DEF LastAre
      <4>3. n = a + BlockSize + left
        BY <4>1, <4>2
      <4>4. n - BlockSize = a + left
        BY <4>3, BlockTimes
      <4> QED
        BY <4>1, <4>4
    <3>2. LastAre(r, n - BlockSize, fins, k, left)
      <4>1. Len(q) = k + 1 + (IF left = 0 THEN 0 ELSE 1) + fins
        BY <2>1 DEF LastAre
      <4>2. Len(r) = k + (IF left = 0 THEN 0 ELSE 1) + fins
        BY <1>1, <4>1
      <4>3. \A i \in 1..k : r[i] = BlockSize
        <5>1. \A i \in 1..k : i \in 1..(Len(q) - 1) /\ i + 1 \in 1..m
          BY <1>1, <4>1
        <5> QED
          BY <1>1, <2>1, <5>1 DEF LastAre
      <4>4. left # 0 => r[k + 1] = left
        <5> SUFFICES ASSUME left # 0 PROVE r[k + 1] = left
          OBVIOUS
        <5>1. k + 1 \in 1..(Len(q) - 1)
          BY <1>1, <4>1
        <5> QED
          BY <1>1, <2>1, <5>1 DEF LastAre
      <4>5. fins = 1 => r[Len(r)] = FinSize
        <5> SUFFICES ASSUME fins = 1 PROVE r[Len(r)] = FinSize
          OBVIOUS
        <5>1. Len(r) \in 1..(Len(q) - 1) /\ Len(r) + 1 = Len(q)
          BY <1>1, <4>1
        <5> QED
          BY <1>1, <2>1, <5>1 DEF LastAre
      <4> QED
        BY <3>1, <4>2, <4>3, <4>4, <4>5 DEF LastAre
    <3>3. q[1] = BlockSize
      BY <2>1 DEF LastAre
    <3> QED
      BY <3>2, <3>3 DEF LastBlocks
  <2> QED
    BY <2>2, <2>3
<1> QED
  BY <1>2, <1>3 DEF r

\* Before the first session; while the first one is read, with all that is
\* written and not yet counted in flight; when the handler has the last buffer
\* in its hand; when it has counted the file, and "fin" unless a short block has
\* ended the session; and when only "fin" is sent in a second session.
Undisturbed == transport = "tcp" /\ outages = 0 /\ client # "killed"
NotDialed == sessions = <<>> /\ client = "dialing" /\ offset = 0 /\ total = 0 /\ row = NoRow
Taken == IF sessions[1].handler = "adding" THEN total + sessions[1].nr ELSE total
InFlight ==
  \/ client \in {"handshake", "sending"} /\ FullBlocks(sessions[1].flight, offset - Taken)
  \/ client = "notifying" /\ offset = chunk /\ LastBlocks(sessions[1].flight, chunk - Taken, 0)
  \/ client = "receiving" /\ offset = chunk /\ LastBlocks(sessions[1].flight, chunk - Taken, 1)
Coming ==
  /\ Len(sessions) = 1 /\ row = NoRow /\ ~sessions[1].closed /\ ~sessions[1].stalled
  /\ \/ sessions[1].handler = "reading"
     \/ /\ sessions[1].handler = "adding"
        /\ sessions[1].nr = BlockSize /\ sessions[1].seen = total
  /\ InFlight /\ InBlocks(Taken)
LastRead ==
  /\ Len(sessions) = 1 /\ row = NoRow /\ ~sessions[1].stalled /\ offset = chunk
  /\ sessions[1].handler = "adding" /\ sessions[1].nr < BlockSize
  /\ \/ /\ ~EndsWithBlock /\ client \in {"notifying", "receiving"}
        /\ sessions[1].seen + sessions[1].nr = chunk
     \/ /\ EndsWithBlock /\ client = "receiving" /\ sessions[1].flight = <<>>
        /\ sessions[1].seen + sessions[1].nr = chunk + FinSize
Counted ==
  /\ Len(sessions) = 1 /\ ~sessions[1].stalled /\ offset = chunk
  /\ HasEnded(1) /\ row \in {NoRow, total}
  /\ \/ /\ ~EndsWithBlock /\ total = chunk
        /\ client \in {"notifying", "receiving", "dialing", "done"}
     \/ /\ EndsWithBlock /\ total = chunk + FinSize
        /\ client \in {"receiving", "done"} /\ sessions[1].flight = <<>>
FinComes ==
  /\ sessions[2].handler = "reading" /\ ~sessions[2].closed /\ total = chunk
  /\ \/ client \in {"handshake", "sending", "notifying"} /\ sessions[2].flight = <<>>
     \/ client = "receiving" /\ sessions[2].flight = <<FinSize>>
FinRead ==
  /\ sessions[2].handler = "adding" /\ sessions[2].nr = FinSize /\ sessions[2].seen = chunk
  /\ total = chunk /\ client = "receiving" /\ sessions[2].flight = <<>>
FinCounted ==
  /\ HasEnded(2) /\ total = chunk + FinSize
  /\ client \in {"receiving", "done"} /\ sessions[2].flight = <<>>
Again ==
  /\ Len(sessions) = 2 /\ ~EndsWithBlock /\ offset = chunk
  /\ HasEnded(1) /\ ~sessions[1].stalled /\ ~sessions[2].stalled
  /\ row \in {NoRow, chunk, chunk + FinSize}
  /\ FinComes \/ FinRead \/ FinCounted
Whole == Undisturbed => NotDialed \/ Coming \/ LastRead \/ Counted \/ Again

LEMMA OneIsNotEmpty ==
  ASSUME NEW S, NEW q \in Seq(S), Len(q) = 1
  PROVE  q # <<>> /\ 1 \in 1..Len(q)
<1>1. Len(<<>>) = 0
  OBVIOUS
<1> QED
  BY <1>1

LEMMA SessionOne ==
  ASSUME BackupTypeOK, Len(sessions) = 1
  PROVE  /\ Cur = 1 /\ DOMAIN sessions = {1} /\ sessions[1] \in Session
         /\ sessions[1].flight \in Seq(Nat)
<1>1. sessions \in Seq(Session)
  BY DEF BackupTypeOK, Sessions
<1>2. Cur = 1 /\ DOMAIN sessions = {1} /\ sessions[1] \in Session
  BY <1>1 DEF Cur
<1>3. Seq(1..BlockSize) \subseteq Seq(Nat)
  <2>1. 1..BlockSize \subseteq Nat
    OBVIOUS
  <2> QED
    BY <2>1, SeqMonotonic
<1> QED
  BY <1>2, <1>3 DEF Session

\* What the client changes of its session: it writes a record, or closes it.
LEMMA CurChanges ==
  ASSUME sessions \in Seq(Session), sessions # <<>>, NEW x \in Nat,
         sessions' = Closed \/ sessions' = Written(<<x>>)
  PROVE  /\ Len(sessions') = Len(sessions)
         /\ \A k \in 1..Len(sessions) :
              /\ sessions'[k].handler = sessions[k].handler
              /\ sessions'[k].nr = sessions[k].nr /\ sessions'[k].seen = sessions[k].seen
              /\ sessions'[k].stalled = sessions[k].stalled
         /\ sessions' = Closed => sessions'[Cur].flight = sessions[Cur].flight
         /\ sessions' = Written(<<x>>) =>
              /\ sessions'[Cur].flight = sessions[Cur].flight \o <<x>>
              /\ sessions'[Cur].closed = sessions[Cur].closed
<1>1. Len(sessions) \in Nat /\ Cur \in 1..Len(sessions) /\ DOMAIN sessions = 1..Len(sessions)
  BY EmptySeq DEF Cur
<1>2. \A k \in 1..Len(sessions) : sessions[k] \in Session
  BY <1>1
<1> DEFINE w == [sessions[Cur] EXCEPT !.flight = @ \o <<x>>]
           c == [sessions[Cur] EXCEPT !.closed = TRUE]
<1>3. /\ w.handler = sessions[Cur].handler /\ w.seen = sessions[Cur].seen
      /\ w.nr = sessions[Cur].nr /\ w.stalled = sessions[Cur].stalled
      /\ w.closed = sessions[Cur].closed /\ w.flight = sessions[Cur].flight \o <<x>>
      /\ c.handler = sessions[Cur].handler /\ c.seen = sessions[Cur].seen
      /\ c.nr = sessions[Cur].nr /\ c.stalled = sessions[Cur].stalled
      /\ c.flight = sessions[Cur].flight
  BY <1>1, <1>2 DEF Session
<1>4. /\ sessions' = Closed => sessions' = [sessions EXCEPT ![Cur] = c]
      /\ sessions' = Written(<<x>>) => sessions' = [sessions EXCEPT ![Cur] = w]
  BY <1>1 DEF Closed, Written
<1> HIDE DEF w, c
<1>5. /\ Len(sessions') = Len(sessions)
      /\ \A k \in 1..Len(sessions) : k # Cur => sessions'[k] = sessions[k]
      /\ sessions' = Closed => sessions'[Cur] = c
      /\ sessions' = Written(<<x>>) => sessions'[Cur] = w
  BY <1>1, <1>4
<1> QED
  BY <1>1, <1>3, <1>5

\* The file of an undisturbed transfer, as the client goes on.
LEMMA ClientWhole ==
  ASSUME BackupTypeOK, Undisturbed, Undisturbed', Whole, ClientStep
  PROVE  Whole'
<1>1. /\ chunk' = chunk /\ chunk \in Nat /\ offset \in 0..chunk /\ total \in Nat
      /\ total' = total /\ row' = row
  BY SizeAssumption DEF BackupTypeOK, ClientStep, Dial, Handshake, Send, Notify, Receive,
                        WriteTimesOut, Reset, IdleTimesOut, fixed
<1>0. (EndsWithBlock' <=> EndsWithBlock) /\ FinSize \in 1..(BlockSize - 1) /\ BlockSize \in Nat
  BY <1>1, BlockTimes DEF EndsWithBlock
<1>2. CASE NotDialed
  <2>1. Dial
    BY <1>2 DEF NotDialed, ClientStep, Handshake, Send, Notify, Receive, WriteTimesOut,
                Reset, IdleTimesOut
  <2> DEFINE new == [flight |-> <<>>, closed |-> FALSE, stalled |-> FALSE,
                     handler |-> "reading", nr |-> 0, seen |-> 0]
  <2>2. sessions' = <<new>> /\ client' = "handshake" /\ offset' = 0
    BY <1>2, <2>1 DEF NotDialed, Dial
  <2>3. Len(sessions') = 1 /\ sessions'[1] = new
    BY <2>2
  <2>4. FullBlocks(<<>>, 0)
    BY BlockTimes DEF FullBlocks
  <2>5. InBlocks(0)
    BY BlockTimes DEF InBlocks
  <2>6. Coming'
    BY <1>1, <1>2, <2>2, <2>3, <2>4, <2>5 DEF NotDialed, Coming, InFlight, Taken
  <2> QED
    BY <2>6 DEF Whole
<1>3. CASE Coming
  <2>0. /\ Cur = 1 /\ DOMAIN sessions = {1} /\ sessions[1] \in Session
        /\ sessions[1].flight \in Seq(Nat) /\ Len(sessions) = 1 /\ row = NoRow
        /\ ~sessions[1].stalled /\ ~HasEnded(1) /\ client # "dialing"
    BY <1>3, SessionOne DEF Coming, InFlight, HasEnded
  <2>1. Handshake \/ Send \/ Notify
    BY <2>0 DEF Undisturbed, ClientStep, Dial, Receive, WriteTimesOut, Reset, IdleTimesOut
  <2>2. CASE Handshake
    BY <1>1, <1>3, <2>2 DEF Handshake, Coming, InFlight, Taken, Whole
  <2>3. ASSUME NEW x \in Nat, sessions' = Written(<<x>>)
        PROVE  /\ Len(sessions') = 1 /\ ~sessions'[1].closed /\ ~sessions'[1].stalled
               /\ sessions'[1].flight = sessions[1].flight \o <<x>>
               /\ sessions'[1].handler = sessions[1].handler
               /\ sessions'[1].nr = sessions[1].nr /\ sessions'[1].seen = sessions[1].seen
               /\ Taken' = Taken
    <3>1. sessions \in Seq(Session) /\ sessions # <<>>
      <4>1. sessions \in Seq(Session)
        BY DEF BackupTypeOK, Sessions
      <4> QED
        BY <2>0, <4>1, OneIsNotEmpty
    <3>2. /\ Len(sessions') = 1 /\ ~sessions'[1].closed /\ ~sessions'[1].stalled
          /\ sessions'[1].flight = sessions[1].flight \o <<x>>
          /\ sessions'[1].handler = sessions[1].handler
          /\ sessions'[1].nr = sessions[1].nr /\ sessions'[1].seen = sessions[1].seen
      <4>1. 1 \in 1..Len(sessions) /\ ~sessions[1].closed /\ Cur = 1
        BY <1>3, <2>0 DEF Coming
      <4> QED
        BY <2>0, <2>3, <3>1, <4>1, CurChanges
    <3> QED
      BY <1>1, <3>2 DEF Taken
  <2>4. CASE Send
    <3>0. Block \in 0..BlockSize /\ client = "sending" /\ BlockSize \in Nat
      BY <1>1, <2>4, BlockTimes DEF Block, Send
    <3>1. FullBlocks(sessions[1].flight, offset - Taken)
      BY <1>3, <3>0 DEF Coming, InFlight
    <3>2. Taken \in Nat
      BY <1>1, <2>0 DEF Taken, Session
    <3>3. CASE Block = 0
      <4>1. offset = chunk /\ offset' = chunk
        BY <1>1, <2>4, <3>0, <3>3, BlockTimes DEF Block, Send
      <4>2. client' = "notifying" /\ sessions' = sessions
        BY <2>4, <3>3, BlockTimes DEF Send
      <4>3. LastBlocks(sessions[1].flight, chunk - Taken, 0)
        BY <2>0, <3>1, <4>1, FullAppend
      <4> QED
        BY <1>1, <1>3, <4>1, <4>2, <4>3 DEF Coming, InFlight, Taken, Whole
    <3>4. CASE Block = BlockSize
      <4>1. /\ sessions' = Written(<<BlockSize>>) /\ client' = "sending"
            /\ offset' = offset + BlockSize
        BY <2>4, <3>0, <3>4, BlockTimes DEF Undisturbed, Send, Pieces
      <4>2. FullBlocks(sessions[1].flight \o <<BlockSize>>, offset - Taken + BlockSize)
        BY <2>0, <3>1, FullAppend
      <4>3. offset' - Taken = offset - Taken + BlockSize
        BY <1>1, <3>0, <3>2, <4>1
      <4>4. FullBlocks(sessions'[1].flight, offset' - Taken')
        BY <2>3, <3>0, <4>1, <4>2, <4>3
      <4> QED
        BY <1>1, <1>3, <2>3, <3>0, <4>1, <4>4 DEF Coming, InFlight, Whole
    <3>5. CASE Block \in 1..(BlockSize - 1)
      <4>1. /\ sessions' = Written(<<Block>>) /\ client' = "notifying"
            /\ offset' = offset + Block
        BY <2>4, <3>0, <3>5 DEF Undisturbed, Send, Pieces
      <4>2. offset' = chunk
        BY <1>1, <3>0, <3>5, <4>1 DEF Block
      <4>3. LastBlocks(sessions[1].flight \o <<Block>>, offset - Taken + Block, 0)
        BY <2>0, <3>1, <3>5, FullAppend
      <4>4. chunk - Taken = offset - Taken + Block
        BY <1>1, <3>0, <3>2, <4>1, <4>2
      <4>5. LastBlocks(sessions'[1].flight, chunk' - Taken', 0)
        <5>1. Block \in Nat
          BY <3>0
        <5>2. sessions'[1].flight = sessions[1].flight \o <<Block>> /\ Taken' = Taken
          BY <2>3, <4>1, <5>1
        <5> QED
          BY <1>1, <4>3, <4>4, <5>2
      <4> QED
        BY <1>1, <1>3, <2>3, <3>0, <4>1, <4>2, <4>5 DEF Coming, InFlight, Whole
    <3> QED
      BY <3>0, <3>3, <3>4, <3>5
  <2>5. CASE Notify
    <3>1. /\ client = "notifying" /\ client' = "receiving" /\ offset' = offset
          /\ sessions' = Written(<<FinSize>>) /\ FinSize \in Nat
      BY <2>5, BlockTimes DEF Undisturbed, Notify, Pieces
    <3>2. offset = chunk /\ LastBlocks(sessions[1].flight, chunk - Taken, 0)
      BY <1>3, <3>1 DEF Coming, InFlight
    <3>3. LastBlocks(sessions[1].flight \o <<FinSize>>, chunk - Taken, 1)
      BY <2>0, <3>2, LastAppend
    <3>4. LastBlocks(sessions'[1].flight, chunk' - Taken', 1)
      BY <1>1, <2>3, <3>1, <3>3
    <3> QED
      BY <1>1, <1>3, <2>3, <3>1, <3>2, <3>4 DEF Coming, InFlight, Whole
  <2> QED
    BY <2>1, <2>2, <2>4, <2>5
<1>4. CASE LastRead
  <2>0. /\ Cur = 1 /\ DOMAIN sessions = {1} /\ sessions[1] \in Session /\ 1 \in 1..Len(sessions)
        /\ sessions \in Seq(Session) /\ sessions # <<>> /\ ~HasEnded(1) /\ Len(sessions) = 1
    BY <1>4, SessionOne DEF LastRead, HasEnded, BackupTypeOK, Sessions
  <2>1. Notify
    <3>1. client \in {"notifying", "receiving"} /\ transport = "tcp"
      BY <1>4 DEF LastRead, Undisturbed
    <3>2. ~Dial /\ ~Handshake /\ ~Send
      BY <3>1 DEF Dial, Handshake, Send
    <3>3. ~Receive /\ ~Reset
      BY <2>0 DEF Receive, Reset
    <3>4. ~IdleTimesOut
      BY <3>1 DEF IdleTimesOut
    <3>5. ~WriteTimesOut
      BY <1>4, <2>0, <3>1 DEF LastRead, WriteTimesOut
    <3> QED
      BY <3>2, <3>3, <3>4, <3>5 DEF ClientStep
  <2>2. /\ client = "notifying" /\ client' = "receiving" /\ offset' = offset
        /\ sessions' = Written(<<FinSize>>) /\ FinSize \in Nat
    BY <1>0, <2>1 DEF Undisturbed, Notify, Pieces
  <2>3. /\ Len(sessions') = Len(sessions) /\ sessions'[1].handler = sessions[1].handler
        /\ sessions'[1].nr = sessions[1].nr /\ sessions'[1].seen = sessions[1].seen
        /\ sessions'[1].stalled = sessions[1].stalled
    BY <2>0, <2>2, CurChanges
  <2> QED
    BY <1>0, <1>1, <1>4, <2>2, <2>3 DEF LastRead, Whole
<1>5. CASE Counted
  <2>0. /\ Cur = 1 /\ Len(sessions) = 1 /\ sessions \in Seq(Session) /\ sessions # <<>>
        /\ 1 \in 1..Len(sessions) /\ transport = "tcp"
    <3>1. Len(sessions) = 1 /\ transport = "tcp"
      BY <1>5 DEF Counted, Undisturbed
    <3>2. sessions \in Seq(Session)
      BY DEF BackupTypeOK, Sessions
    <3> QED
      BY <3>1, <3>2, SessionOne, OneIsNotEmpty
  <2>1. ~Handshake /\ ~Send /\ ~IdleTimesOut /\ ~WriteTimesOut
    BY <1>5, <2>0 DEF Counted, Handshake, Send, IdleTimesOut, WriteTimesOut
  <2>2. CASE Dial
    <3> DEFINE new == [flight |-> <<>>, closed |-> FALSE, stalled |-> FALSE,
                       handler |-> "reading", nr |-> 0, seen |-> 0]
    <3>1. /\ client = "dialing" /\ client' = "handshake" /\ offset' = offset
          /\ sessions' = Append(sessions, new)
      BY <2>2 DEF Dial
    <3>2. /\ new.flight = <<>> /\ ~new.closed /\ ~new.stalled /\ new.handler = "reading"
      OBVIOUS
    <3> HIDE DEF new
    <3>3. Len(sessions') = 2 /\ sessions'[1] = sessions[1] /\ sessions'[2] = new
      BY <2>0, <3>1
    <3>4. FinComes'
      BY <1>1, <1>5, <3>1, <3>2, <3>3 DEF Counted, FinComes
    <3> QED
      BY <1>0, <1>1, <1>5, <3>1, <3>2, <3>3, <3>4 DEF Counted, Again, HasEnded, Whole
  <2>3. CASE Notify \/ Receive \/ Reset
    <3>1. /\ sessions' = Closed \/ sessions' = Written(<<FinSize>>)
          /\ FinSize \in Nat /\ offset' = offset
      BY <1>0, <2>0, <2>3 DEF Notify, Receive, Reset, Pieces
    <3>2. /\ Len(sessions') = 1 /\ sessions'[1].handler = sessions[1].handler
          /\ sessions'[1].stalled = sessions[1].stalled
          /\ sessions' = Closed => sessions'[1].flight = sessions[1].flight
      BY <2>0, <3>1, CurChanges
    <3>3. CASE ~EndsWithBlock
      <4>1. client' \in {"notifying", "receiving", "dialing", "done"}
        BY <2>3 DEF Notify, Receive, Reset
      <4> QED
        BY <1>0, <1>1, <1>5, <3>1, <3>2, <3>3, <4>1 DEF Counted, HasEnded, Whole
    <3>4. CASE EndsWithBlock
      <4>1. client' = "done" /\ sessions' = Closed
        BY <1>5, <2>0, <2>3, <3>4 DEF Counted, Notify, Receive, Reset
      <4> QED
        BY <1>0, <1>1, <1>5, <3>1, <3>2, <3>4, <4>1 DEF Counted, HasEnded, Whole
    <3> QED
      BY <3>3, <3>4
  <2> QED
    BY <2>1, <2>2, <2>3 DEF ClientStep
<1>6. CASE Again
  <2>0. /\ Cur = 2 /\ Len(sessions) = 2 /\ sessions \in Seq(Session) /\ sessions # <<>>
        /\ 1 \in 1..Len(sessions) /\ 2 \in 1..Len(sessions) /\ transport = "tcp"
    <3>1. Len(sessions) = 2 /\ transport = "tcp"
      BY <1>6 DEF Again, Undisturbed
    <3>2. sessions \in Seq(Session)
      BY DEF BackupTypeOK, Sessions
    <3>3. sessions # <<>>
      <4>1. Len(<<>>) = 0
        OBVIOUS
      <4> QED
        BY <3>1, <4>1
    <3> QED
      BY <3>1, <3>2, <3>3 DEF Cur
  <2>1. ~Dial /\ ~IdleTimesOut /\ ~WriteTimesOut
    BY <1>6, <2>0 DEF Again, FinComes, FinRead, FinCounted, Dial, IdleTimesOut, WriteTimesOut
  <2>2. ~Reset
    BY <1>6, <2>0 DEF Again, FinComes, FinRead, FinCounted, Reset, HasEnded
  <2>3. CASE Handshake \/ Send
    <3>1. Block = 0
      BY <1>0, <1>1, <1>6 DEF Again, Block
    <3>2. /\ sessions' = sessions /\ offset' = offset /\ client \in {"handshake", "sending"}
          /\ client' \in {"sending", "notifying"}
      BY <1>0, <1>1, <2>3, <3>1 DEF Handshake, Send
    <3>3. FinComes'
      BY <1>1, <1>6, <3>2 DEF Again, FinComes, FinRead, FinCounted
    <3> QED
      BY <1>0, <1>1, <1>6, <3>2, <3>3 DEF Again, HasEnded, Whole
  <2>4. CASE Notify
    <3>1. /\ client = "notifying" /\ client' = "receiving" /\ offset' = offset
          /\ sessions' = Written(<<FinSize>>) /\ FinSize \in Nat
      BY <1>0, <2>0, <2>4 DEF Notify, Pieces
    <3>2. FinComes
      BY <1>6, <3>1 DEF Again, FinRead, FinCounted
    <3>3. /\ Len(sessions') = 2
          /\ sessions'[1].handler = sessions[1].handler /\ sessions'[2].handler = sessions[2].handler
          /\ sessions'[1].stalled = sessions[1].stalled /\ sessions'[2].stalled = sessions[2].stalled
          /\ sessions'[2].flight = sessions[2].flight \o <<FinSize>>
          /\ sessions'[2].closed = sessions[2].closed
      BY <2>0, <3>1, CurChanges
    <3>4. sessions'[2].flight = <<FinSize>>
      BY <3>1, <3>2, <3>3 DEF FinComes
    <3>5. FinComes'
      BY <1>1, <3>1, <3>2, <3>3, <3>4 DEF FinComes
    <3> QED
      BY <1>0, <1>1, <1>6, <3>1, <3>3, <3>5 DEF Again, HasEnded, Whole
  <2>5. CASE Receive
    <3>1. /\ client' = "done" /\ offset' = offset /\ sessions' = Closed /\ HasEnded(2)
      BY <2>0, <2>5 DEF Receive
    <3>2. FinCounted
      BY <1>6, <3>1 DEF Again, FinComes, FinRead, HasEnded
    <3>3. /\ Len(sessions') = 2 /\ 0 \in Nat
          /\ sessions'[1].handler = sessions[1].handler /\ sessions'[2].handler = sessions[2].handler
          /\ sessions'[1].stalled = sessions[1].stalled /\ sessions'[2].stalled = sessions[2].stalled
          /\ sessions'[2].flight = sessions[2].flight
      BY <2>0, <3>1, CurChanges
    <3>4. FinCounted'
      BY <1>1, <3>1, <3>2, <3>3 DEF FinCounted, HasEnded
    <3> QED
      BY <1>0, <1>1, <1>6, <3>1, <3>3, <3>4 DEF Again, HasEnded, Whole
  <2> QED
    BY <2>1, <2>2, <2>3, <2>4, <2>5 DEF ClientStep
<1> QED
  BY <1>2, <1>3, <1>4, <1>5, <1>6 DEF Whole

\* As the handlers go on.
LEMMA ServerWhole ==
  ASSUME BackupTypeOK, Undisturbed, Whole, NEW k \in DOMAIN sessions,
         ServerStep(k) \/ GoOn(k)
  PROVE  Whole'
<1>1. /\ sessions \in Seq(Session) /\ sessions[k] \in Session
      /\ chunk' = chunk /\ chunk \in Nat /\ offset' = offset /\ offset \in 0..chunk
      /\ client' = client /\ total \in Nat /\ transport = "tcp"
  <2>1. /\ sessions \in Seq(Session) /\ chunk \in Nat /\ offset \in 0..chunk /\ total \in Nat
    BY SizeAssumption DEF BackupTypeOK, Sessions
  <2>2. UNCHANGED <<fixed, offset, client>>
    BY DEF ServerStep, Read, Add, ReadFails, Record, GoOn, sides
  <2> QED
    BY <2>1, <2>2 DEF fixed, Undisturbed
<1>0. (EndsWithBlock' <=> EndsWithBlock) /\ FinSize \in 1..(BlockSize - 1) /\ BlockSize \in Nat
  BY <1>1, BlockTimes DEF EndsWithBlock
<1>2. CASE NotDialed
  BY <1>2 DEF NotDialed
<1>3. ASSUME NEW state, sessions' = Handler(k, state)
      PROVE  /\ DOMAIN sessions' = DOMAIN sessions /\ Len(sessions') = Len(sessions)
             /\ \A j \in DOMAIN sessions : j # k => sessions'[j] = sessions[j]
             /\ sessions'[k].handler = state
             /\ sessions'[k].flight = sessions[k].flight
             /\ sessions'[k].closed = sessions[k].closed
             /\ sessions'[k].stalled = sessions[k].stalled
             /\ sessions'[k].nr = sessions[k].nr /\ sessions'[k].seen = sessions[k].seen
  <2> DEFINE s == [sessions[k] EXCEPT !.handler = state]
  <2>1. sessions' = [sessions EXCEPT ![k] = s]
    BY <1>3 DEF Handler
  <2>2. /\ s.handler = state /\ s.flight = sessions[k].flight /\ s.closed = sessions[k].closed
        /\ s.stalled = sessions[k].stalled
        /\ s.nr = sessions[k].nr /\ s.seen = sessions[k].seen
    BY <1>1 DEF Session
  <2> HIDE DEF s
  <2> QED
    BY <1>1, <2>1, <2>2
<1>4. CASE Read(k)
  <2>1. PICK n \in ReadLens(k) :
          sessions' = [sessions EXCEPT
             ![k].handler = "adding", ![k].seen = total,
             ![k].nr = IF transport = "tcp" THEN Head(sessions[k].flight) ELSE n,
             ![k].flight = SubSeq(@, n + 1, Len(@))]
    BY <1>4 DEF Read
  <2> DEFINE f == sessions[k].flight
             s == [sessions[k] EXCEPT !.handler = "adding", !.seen = total,
                                      !.nr = Head(f), !.flight = SubSeq(f, 2, Len(f))]
  <2>2. n = 1 /\ f # <<>> /\ f \in Seq(1..BlockSize)
    BY <1>1, <2>1 DEF ReadLens, Session
  <2>3. sessions' = [sessions EXCEPT ![k] = s]
    <3>1. sessions' = [sessions EXCEPT
             ![k].handler = "adding", ![k].seen = total,
             ![k].nr = Head(sessions[k].flight),
             ![k].flight = SubSeq(@, 2, Len(@))]
      BY <1>1, <2>1, <2>2
    <3> QED
      BY <1>1, <3>1
  <2>4. /\ s.handler = "adding" /\ s.seen = total /\ s.nr = f[1]
        /\ s.flight = SubSeq(f, 2, Len(f))
        /\ s.closed = sessions[k].closed /\ s.stalled = sessions[k].stalled
    BY <1>1, <2>2 DEF Session
  <2> HIDE DEF s, f
  <2>5. /\ DOMAIN sessions' = DOMAIN sessions /\ Len(sessions') = Len(sessions)
        /\ \A j \in DOMAIN sessions : j # k => sessions'[j] = sessions[j]
        /\ sessions'[k] = s
    BY <1>1, <2>3
  <2>6. total' = total /\ row' = row /\ sessions[k].handler = "reading"
    BY <1>4 DEF Read, sides
  <2>7. CASE LastRead \/ Counted
    BY <1>1, <2>6, <2>7, SessionOne DEF LastRead, Counted, HasEnded
  <2>8. CASE Again
    <3>1. k = 2 /\ FinComes /\ Len(sessions) = 2
      <4>1. k \in {1, 2}
        BY <2>8 DEF Again
      <4> QED
        BY <2>6, <2>8, <4>1 DEF Again, HasEnded, FinRead, FinCounted
    <3>2. f = <<FinSize>> /\ client = "receiving"
      BY <2>2, <3>1 DEF FinComes, f
    <3>3. s.nr = FinSize /\ s.flight = <<>>
      <4>1. Len(f) = 1 /\ f[1] = FinSize
        BY <3>2
      <4>2. SubSeq(f, 2, Len(f)) = <<>>
        BY <1>0, <3>2
      <4> QED
        BY <2>4, <4>1, <4>2
    <3>4. sessions'[1] = sessions[1] /\ sessions'[2] = s /\ Len(sessions') = 2
      BY <2>5, <2>8, <3>1 DEF Again
    <3>5. FinRead'
      BY <1>1, <2>4, <2>6, <3>1, <3>2, <3>3, <3>4 DEF FinComes, FinRead
    <3> QED
      BY <1>0, <1>1, <2>4, <2>6, <2>8, <3>1, <3>4, <3>5 DEF Again, HasEnded, Whole
  <2>9. CASE Coming
    <3>1. k = 1 /\ f \in Seq(Nat) /\ Len(sessions) = 1 /\ Taken = total
      BY <2>6, <2>9, SessionOne DEF Coming, Taken, f
    <3>2. Taken' = total + f[1] /\ sessions'[1].nr = f[1]
      BY <2>4, <2>5, <2>6, <3>1 DEF Taken
    <3>3. f[1] \in 1..BlockSize
      <4>1. Len(f) \in Nat \ {0}
        BY <2>2, EmptySeq
      <4>2. 1 \in 1..Len(f)
        BY <4>1
      <4> QED
        BY <2>2, <4>2, ElementOfSeq
    <3>4. \A fins \in {0, 1} : LastBlocks(f, chunk - total, fins) =>
            \/ f[1] = BlockSize /\ LastBlocks(SubSeq(f, 2, Len(f)), chunk - total - BlockSize, fins)
            \/ f[1] = chunk - total /\ chunk - total \in 1..(BlockSize - 1)
            \/ f[1] = FinSize /\ chunk - total = 0 /\ fins = 1 /\ SubSeq(f, 2, Len(f)) = <<>>
      BY <2>2, <3>1, BlockRead
    <3>5. FullBlocks(f, offset - total) =>
            f[1] = BlockSize /\ FullBlocks(SubSeq(f, 2, Len(f)), offset - total - BlockSize)
      BY <2>2, <3>1, BlockRead
    <3>6. CASE f[1] = BlockSize
      <4>1. /\ chunk' - Taken' = chunk - total - BlockSize
            /\ offset' - Taken' = offset - total - BlockSize
        BY <1>1, <3>2, <3>6, BlockTimes
      <4>2. sessions'[1].flight = SubSeq(f, 2, Len(f))
        BY <2>4, <2>5, <3>1
      <4>3. FullBlocks(f, offset - total) => FullBlocks(sessions'[1].flight, offset' - Taken')
        BY <3>5, <4>1, <4>2
      <4>4. \A fins \in {0, 1} : LastBlocks(f, chunk - total, fins) =>
              LastBlocks(sessions'[1].flight, chunk' - Taken', fins)
        <5>1. BlockSize # FinSize /\ BlockSize \notin 1..(BlockSize - 1)
          BY BlockTimes
        <5> QED
          BY <3>4, <3>6, <4>1, <4>2, <5>1
      <4>5. InFlight'
        BY <1>1, <2>9, <3>1, <4>3, <4>4 DEF Coming, InFlight, f
      <4>6. InBlocks(Taken)'
        <5>1. PICK j \in Nat : total = BlockSize * j
          BY <2>9, <3>1 DEF Coming, InBlocks
        <5>2. Taken' = BlockSize * (j + 1) /\ j + 1 \in Nat
          BY <3>2, <3>6, <5>1, BlockTimes
        <5> QED
          BY <5>2 DEF InBlocks
      <4>7. Coming'
        BY <2>4, <2>5, <2>6, <2>9, <3>1, <3>2, <3>6, <4>5, <4>6 DEF Coming
      <4> QED
        BY <4>7 DEF Whole
    <3>7. CASE f[1] # BlockSize
      <4>1. f[1] < BlockSize
        BY <3>3, <3>7, BlockTimes
      <4>2. PICK fins \in {0, 1} :
               /\ client = (IF fins = 1 THEN "receiving" ELSE "notifying") /\ offset = chunk
               /\ LastBlocks(f, chunk - total, fins)
        BY <2>9, <3>1, <3>5, <3>7 DEF Coming, InFlight, f
      <4>3. InBlocks(total)
        BY <2>9, <3>1 DEF Coming
      <4>4. /\ Len(sessions') = 1 /\ sessions'[1] = s /\ s.nr = f[1] /\ s.nr < BlockSize
            /\ s.seen = total /\ row' = NoRow /\ ~s.stalled
        BY <2>4, <2>5, <2>6, <2>9, <3>1, <4>1 DEF Coming
      <4>5. CASE f[1] = chunk - total /\ chunk - total \in 1..(BlockSize - 1)
        <5>1. ~EndsWithBlock
          <6>1. chunk = total + (chunk - total) /\ chunk - total \in 0..(BlockSize - 1)
                /\ chunk - total # 0
            BY <1>1, <4>5
          <6> QED
            BY <1>1, <4>3, <6>1, FileEnds
        <5>2. s.seen + s.nr = chunk
          BY <1>1, <4>4, <4>5
        <5> QED
          BY <1>0, <1>1, <2>4, <4>2, <4>4, <5>1, <5>2 DEF LastRead, Whole
      <4>6. CASE f[1] = FinSize /\ chunk - total = 0 /\ fins = 1 /\ SubSeq(f, 2, Len(f)) = <<>>
        <5>1. EndsWithBlock
          <6>1. chunk = total + 0 /\ 0 \in 0..(BlockSize - 1)
            BY <1>1, <4>6, BlockTimes
          <6> QED
            BY <1>1, <4>3, <6>1, FileEnds
        <5>2. s.seen + s.nr = chunk + FinSize
          BY <1>0, <1>1, <4>4, <4>6
        <5> QED
          BY <1>0, <1>1, <2>4, <4>2, <4>4, <4>6, <5>1, <5>2 DEF LastRead, Whole
      <4> QED
        BY <3>4, <3>7, <4>2, <4>5, <4>6
    <3> QED
      BY <3>6, <3>7
  <2> QED
    BY <1>2, <2>7, <2>8, <2>9 DEF Whole
<1>5. CASE Add(k)
  <2>1. /\ sessions[k].handler = "adding" /\ total' = sessions[k].seen + sessions[k].nr
        /\ sessions' = Handler(k, IF sessions[k].nr < BlockSize THEN "ended" ELSE "reading")
        /\ row' = row
    BY <1>5 DEF Add
  <2>2. sessions[k].nr \in Nat /\ sessions[k].seen \in Nat
    BY <1>1 DEF Session
  <2>3. sessions'[k].handler # "adding"
    BY <1>3, <2>1
  <2>4. CASE Counted
    BY <2>1, <2>4, SessionOne DEF Counted, HasEnded
  <2>5. CASE LastRead
    <3>1. k = 1 /\ DOMAIN sessions = {1}
      BY <2>5, SessionOne DEF LastRead
    <3>2. HasEnded(1)' /\ row' = NoRow /\ ~sessions'[1].stalled /\ Len(sessions') = 1
      BY <1>3, <2>1, <2>5, <3>1 DEF LastRead, HasEnded
    <3> QED
      BY <1>0, <1>1, <1>3, <2>1, <2>5, <3>1, <3>2 DEF LastRead, Counted, Whole
  <2>6. CASE Coming
    <3>1. k = 1 /\ DOMAIN sessions = {1}
      BY <2>6, SessionOne DEF Coming
    <3>2. /\ sessions[1].nr = BlockSize /\ sessions[1].seen = total
          /\ Taken = total + BlockSize
      BY <2>1, <2>6, <3>1 DEF Coming, Taken
    <3>3. sessions'[1].handler = "reading"
      <4>1. ~(sessions[1].nr < BlockSize)
        BY <3>2, BlockTimes
      <4>2. sessions' = Handler(k, "reading")
        BY <2>1, <3>1, <4>1
      <4> QED
        BY <1>3, <3>1, <4>2
    <3>4. Taken' = Taken
      BY <2>1, <3>1, <3>2, <3>3 DEF Taken
    <3> QED
      BY <1>1, <1>3, <2>1, <2>6, <3>1, <3>3, <3>4 DEF Coming, InFlight, Whole
  <2>7. CASE Again
    <3>1. k = 2 /\ FinRead /\ Len(sessions) = 2 /\ DOMAIN sessions = {1, 2}
      <4>1. k \in {1, 2} /\ DOMAIN sessions = {1, 2}
        BY <1>1, <2>7 DEF Again
      <4> QED
        BY <2>1, <2>7, <4>1 DEF Again, HasEnded, FinComes, FinCounted
    <3>2. total' = chunk + FinSize
      BY <2>1, <3>1 DEF FinRead
    <3>3. /\ sessions'[2].handler = "ended" /\ sessions'[2].flight = <<>>
          /\ sessions'[2].stalled = sessions[2].stalled
          /\ sessions'[1] = sessions[1] /\ Len(sessions') = 2
      BY <1>0, <1>3, <2>1, <3>1 DEF FinRead
    <3>4. FinCounted'
      BY <1>1, <3>1, <3>2, <3>3 DEF FinRead, FinCounted, HasEnded
    <3> QED
      BY <1>0, <1>1, <2>1, <2>7, <3>3, <3>4 DEF Again, HasEnded, Whole
  <2> QED
    BY <1>2, <2>4, <2>5, <2>6, <2>7 DEF Whole
<1>6. CASE ReadFails(k) \/ Record(k)
  <2>1. PICK state \in {"ended", "recorded"} : sessions' = Handler(k, state)
    BY <1>6 DEF ReadFails, Record
  <2>2. /\ total' = total /\ row' \in {row, total}
        /\ sessions[k].handler \in {"reading", "ended"}
        /\ ReadFails(k) => sessions[k].handler = "reading"
        /\ Record(k) => state = "recorded"
    BY <1>3, <1>6, <2>1 DEF ReadFails, Record, sides
  <2>3. CASE Counted
    <3>1. k = 1
      BY <2>3, SessionOne DEF Counted
    <3>2. HasEnded(1)' /\ ~sessions'[1].stalled /\ Len(sessions') = 1 /\ row' \in {NoRow, total'}
          /\ sessions'[1].flight = sessions[1].flight
      BY <1>3, <2>1, <2>2, <2>3, <3>1 DEF Counted, HasEnded
    <3> QED
      BY <1>0, <1>1, <2>2, <2>3, <3>2 DEF Counted, Whole
  <2>4. CASE LastRead
    BY <2>2, <2>4, SessionOne DEF LastRead
  <2>5. CASE Coming
    <3>1. k = 1 /\ sessions[1].flight \in Seq(Nat)
      BY <2>5, SessionOne DEF Coming
    <3>2. sessions[1].flight = <<>> /\ client = "receiving"
      BY <1>1, <1>6, <2>2, <2>5, <3>1 DEF Coming, ReadFails, Record
    <3>3. LastBlocks(<<>>, chunk - Taken, 1)
      BY <2>5, <3>2 DEF Coming, InFlight
    <3> QED
      BY <3>3 DEF LastBlocks, LastAre
  <2>6. CASE Again
    <3>1. k \in {1, 2} /\ DOMAIN sessions = {1, 2} /\ Len(sessions) = 2
      BY <1>1, <2>6 DEF Again
    <3>2. Record(k)
      <4>1. ASSUME ReadFails(k) PROVE FALSE
        <5>1. k = 2 /\ FinComes
          BY <2>2, <2>6, <3>1, <4>1 DEF Again, HasEnded, FinRead, FinCounted
        <5>2. ~sessions[2].stalled /\ ~sessions[2].closed
          BY <2>6, <5>1 DEF Again, FinComes
        <5>3. client = "receiving" /\ sessions[2].flight = <<>>
          BY <4>1, <5>1, <5>2 DEF ReadFails
        <5> QED
          BY <5>1, <5>3 DEF FinComes
      <4> QED
        BY <1>6, <4>1
    <3>3. /\ sessions[k].handler = "ended" /\ sessions'[k].handler = "recorded"
          /\ \A j \in {1, 2} : /\ j # k => sessions'[j] = sessions[j]
                              /\ sessions'[j].stalled = sessions[j].stalled
                              /\ sessions'[j].flight = sessions[j].flight
                              /\ sessions'[j].closed = sessions[j].closed
          /\ Len(sessions') = 2
      <4>1. sessions[k].handler = "ended"
        BY <3>2 DEF Record
      <4> QED
        BY <1>3, <2>1, <2>2, <3>1, <3>2, <4>1
    <3>4. total \in {chunk, chunk + FinSize} /\ row' \in {NoRow, chunk, chunk + FinSize}
      BY <2>2, <2>6 DEF Again, FinComes, FinRead, FinCounted
    <3>5. HasEnded(1)' /\ (HasEnded(2) => HasEnded(2)') /\ (k = 2 => FinCounted)
      BY <2>6, <3>1, <3>3 DEF Again, HasEnded, FinComes, FinRead
    <3>6. (FinComes \/ FinRead \/ FinCounted)'
      <4>1. CASE k = 2
        BY <1>1, <2>2, <3>3, <3>5, <4>1 DEF FinCounted
      <4>2. CASE k = 1
        BY <1>1, <2>2, <2>6, <3>3, <4>2 DEF Again, FinComes, FinRead, FinCounted, HasEnded
      <4> QED
        BY <3>1, <4>1, <4>2
    <3> QED
      BY <1>0, <1>1, <2>6, <3>3, <3>4, <3>5, <3>6 DEF Again, Whole
  <2> QED
    BY <1>2, <2>3, <2>4, <2>5, <2>6 DEF Whole
<1>7. CASE GoOn(k)
  <2>1. sessions[k].stalled
    BY <1>7 DEF GoOn
  <2>2. CASE Coming \/ LastRead \/ Counted
    BY <2>1, <2>2, SessionOne DEF Coming, LastRead, Counted
  <2>3. CASE Again
    <3>1. k \in {1, 2}
      BY <1>1, <2>3 DEF Again
    <3> QED
      BY <2>1, <2>3, <3>1 DEF Again
  <2> QED
    BY <1>2, <2>2, <2>3 DEF Whole
<1> QED
  BY <1>4, <1>5, <1>6, <1>7 DEF ServerStep

\* UndisturbedIsComplete, for every size of the file, the blocks and the window:
\* the blocks are read in the order they were written, and the first read that
\* does not fill the buffer is the short end of the file, or "fin" if the file
\* ends with a full block.  So the session which ends for it has counted the
\* file, and nothing more; only "fin" can follow, in one more session, and only
\* after a short end (send, handleConn).
THEOREM UndisturbedTransfersComplete == Spec => []UndisturbedIsComplete
<1>1. Init => Whole
  BY DEF Init, Whole, NotDialed
<1>2. BackupTypeOK /\ BackupTypeOK' /\ Whole /\ [Next]_vars => Whole'
  <2> SUFFICES ASSUME BackupTypeOK, BackupTypeOK', Whole, [Next]_vars, Undisturbed' PROVE Whole'
    BY DEF Whole
  <2>1. CASE UNCHANGED vars
    BY <2>1 DEF vars, fixed, Undisturbed, Whole, NotDialed, Coming, InFlight, Taken, LastRead, Counted,
                Again, FinComes, FinRead, FinCounted, HasEnded, EndsWithBlock
  <2>2. CASE ClientStep
    <3>1. Undisturbed
      BY <2>2 DEF Undisturbed, ClientStep, Dial, Handshake, Send, Notify, Receive,
                  WriteTimesOut, Reset, IdleTimesOut, fixed
    <3> QED
      BY <2>2, <3>1, ClientWhole
  <2>3. CASE Kill
    BY <2>3 DEF Kill, Undisturbed
  <2>4. ASSUME NEW k \in DOMAIN sessions, ServerStep(k) \/ GoOn(k) PROVE Whole'
    <3>1. Undisturbed
      BY <2>4 DEF Undisturbed, ServerStep, Read, Add, ReadFails, Record, GoOn, sides, fixed
    <3> QED
      BY <2>4, <3>1, ServerWhole
  <2>5. CASE Fail
    <3>1. outages \in Nat /\ outages' = outages + 1
      BY <2>5, SizeAssumption DEF Fail, BackupTypeOK
    <3> QED
      BY <3>1 DEF Undisturbed
  <2>6. CASE Heal
    BY <2>6 DEF Heal, sides, fixed, Undisturbed, Whole, NotDialed, Coming, InFlight, Taken,
                LastRead, Counted, Again, FinComes, FinRead, FinCounted, HasEnded, EndsWithBlock
  <2> QED
    BY <2>1, <2>2, <2>3, <2>4, <2>5, <2>6 DEF Next
<1>3. Whole => UndisturbedIsComplete
  BY DEF Whole, Undisturbed, NotDialed, Coming, InFlight, LastRead, Counted, Again, FinComes,
         FinRead, FinCounted, Complete, UndisturbedIsComplete
<1> QED
  BY <1>1, <1>2, <1>3, BackupTypes, PTL DEF Spec
=============================================================================
