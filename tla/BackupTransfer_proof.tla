------------------------ MODULE BackupTransfer_proof ------------------------
(***************************************************************************)
(* Proofs about BackupTransfer, for every size of the file, the blocks and *)
(* the window, and any number of sessions and outages.                     *)
(***************************************************************************)
EXTENDS BackupTransfer, SequenceTheorems, TLAPS

\* One session changes, the others stay.
LEMMA SetSession ==
  ASSUME NEW c, sessions \in Sessions(c), NEW k \in DOMAIN sessions,
         NEW s \in Session, Len(s.flight) <= c
  PROVE  /\ [sessions EXCEPT ![k] = s] \in Sessions(c)
         /\ [sessions EXCEPT ![k] = s] # <<>>
<1>1. sessions \in Seq(Session) /\ \A i \in DOMAIN sessions : Len(sessions[i].flight) <= c
  BY DEF Sessions
<1>2. [sessions EXCEPT ![k] = s] \in Seq(Session) /\ [sessions EXCEPT ![k] = s] # <<>>
  BY <1>1, SMT
<1>3. \A i \in DOMAIN sessions : Len([sessions EXCEPT ![k] = s][i].flight) <= c
  BY <1>1
<1> QED
  BY <1>2, <1>3 DEF Sessions

\* The session of the client, when it has one, is one of the list.
LEMMA CurIsThere ==
  ASSUME BackupTypeOK, client \in {"handshake", "sending", "notifying", "receiving"}
  PROVE  /\ Cur \in DOMAIN sessions /\ sessions[Cur] \in Session /\ Room \in Nat
         /\ Len(sessions[Cur].flight) <= Capacity
<1>1. sessions \in Seq(Session) /\ sessions # <<>>
  BY DEF BackupTypeOK, Sessions
<1>2. Cur \in DOMAIN sessions /\ sessions[Cur] \in Session
  BY <1>1 DEF Cur
<1>3. Len(sessions[Cur].flight) <= Capacity
  BY <1>2 DEF BackupTypeOK, Sessions
<1>4. Capacity \in Nat /\ Len(sessions[Cur].flight) \in Nat
  BY <1>2, SizeAssumption DEF Session, Capacity
<1> QED
  BY <1>2, <1>3, <1>4 DEF Room

\* The session is closed, with or without what is on its way.
LEMMA ClosedType ==
  ASSUME BackupTypeOK, client \in {"handshake", "sending", "notifying", "receiving"}
  PROVE  /\ Closed \in Sessions(Capacity) /\ Closed # <<>>
         /\ Lost \in Sessions(Capacity) /\ Lost # <<>>
<1> DEFINE s == [sessions[Cur] EXCEPT !.closed = TRUE]
           e == [s EXCEPT !.flight = <<>>]
<1>1. Cur \in DOMAIN sessions /\ sessions[Cur] \in Session /\ sessions \in Sessions(Capacity)
  BY CurIsThere DEF BackupTypeOK
<1>2. s \in Session /\ Len(s.flight) <= Capacity
  BY <1>1, CurIsThere DEF Session
<1>3. e \in Session /\ Len(e.flight) <= Capacity
  <2>1. Capacity \in Nat /\ <<>> \in Seq(1..BlockSize) /\ Len(<<>>) = 0
    BY SizeAssumption DEF Capacity
  <2>2. e.flight = <<>>
    BY <1>2 DEF Session
  <2>3. e \in Session
    BY <1>2, <2>1 DEF Session
  <2> QED
    BY <2>1, <2>2, <2>3
<1>4. Closed = [sessions EXCEPT ![Cur] = s] /\ Lost = [sessions EXCEPT ![Cur] = e]
  <2>1. sessions \in Seq(Session)
    BY <1>1 DEF Sessions
  <2> QED
    BY <1>1, <2>1 DEF Closed, Lost, Session
<1> HIDE DEF s, e
<1> QED
  BY <1>1, <1>2, <1>3, <1>4, SetSession

\* Pieces that have room are in flight when they are written.
LEMMA WrittenType ==
  ASSUME BackupTypeOK, client \in {"sending", "notifying"},
         NEW p \in Seq(1..BlockSize), Len(p) <= Room
  PROVE  /\ Written(p) \in Sessions(Capacity) /\ Written(p) # <<>>
         /\ [Written(p) EXCEPT ![Cur].closed = TRUE] \in Sessions(Capacity)
         /\ [Written(p) EXCEPT ![Cur].closed = TRUE] # <<>>
<1> DEFINE s == [sessions[Cur] EXCEPT !.flight = @ \o p]
           c == [s EXCEPT !.closed = TRUE]
<1>1. Cur \in DOMAIN sessions /\ sessions[Cur] \in Session /\ sessions \in Sessions(Capacity)
  BY CurIsThere DEF BackupTypeOK
<1>2. /\ sessions[Cur].flight \o p \in Seq(1..BlockSize)
      /\ Len(sessions[Cur].flight \o p) <= Capacity
  <2>1. Capacity \in Nat /\ sessions[Cur].flight \in Seq(1..BlockSize)
    BY <1>1, SizeAssumption DEF Capacity, Session
  <2>2. Len(sessions[Cur].flight \o p) = Len(sessions[Cur].flight) + Len(p)
    BY <2>1, ConcatProperties
  <2> QED
    BY <2>1, <2>2, ConcatProperties DEF Room
<1>3. s \in Session /\ c \in Session /\ Len(s.flight) <= Capacity /\ Len(c.flight) <= Capacity
  BY <1>1, <1>2 DEF Session
<1>4. Written(p) = [sessions EXCEPT ![Cur] = s]
  BY <1>1 DEF Written
<1>5. [Written(p) EXCEPT ![Cur].closed = TRUE] = [sessions EXCEPT ![Cur] = c]
  <2>1. sessions \in Seq(Session)
    BY <1>1 DEF Sessions
  <2> QED
    BY <1>1, <2>1 DEF Written, Session
<1> HIDE DEF s, c
<1>6. [sessions EXCEPT ![Cur] = s] \in Sessions(Capacity) /\ [sessions EXCEPT ![Cur] = s] # <<>>
  BY <1>1, <1>3, SetSession
<1>7. [sessions EXCEPT ![Cur] = c] \in Sessions(Capacity) /\ [sessions EXCEPT ![Cur] = c] # <<>>
  BY <1>1, <1>3, SetSession
<1> QED
  BY <1>4, <1>5, <1>6, <1>7

\* A buffer, or as much of it as has room, goes out in pieces.
LEMMA PiecesType ==
  ASSUME NEW size \in 1..BlockSize
  PROVE  /\ Pieces(size) \in Seq(1..BlockSize)
         /\ Len(Pieces(size)) <= size
<1>1. size \in Nat /\ 1 \in 1..BlockSize
  BY SizeAssumption
<1>2. CASE transport = "tcp"
  BY <1>1, <1>2 DEF Pieces
<1>3. CASE transport # "tcp"
  <2>1. Pieces(size) = [i \in 1..size |-> 1]
    BY <1>3 DEF Pieces
  <2>2. [i \in 1..size |-> 1] \in Seq(1..BlockSize)
    BY <1>1
  <2> QED
    BY <1>1, <2>1, <2>2
<1> QED
  BY <1>2, <1>3

\* As long as a block does not fit, the room is less than the block.
LEMMA PartType ==
  ASSUME BackupTypeOK, client \in {"sending", "notifying"},
         Room \in Nat, NEW size \in 1..BlockSize, ~Fits(size)
  PROVE  SubSeq(Pieces(size), 1, Room) \in Seq(1..BlockSize) /\ Room < size
<1>1. Pieces(size) \in Seq(1..BlockSize) /\ Len(Pieces(size)) <= size
  BY PiecesType
<1>2. Room < Len(Pieces(size)) /\ Len(Pieces(size)) \in Nat
  BY <1>1 DEF Fits
<1>3. \A i \in 1..Room : Pieces(size)[i] \in 1..BlockSize
  <2> DEFINE p == Pieces(size)
  <2>1. \A i \in 1..Len(p) : p[i] \in 1..BlockSize
    BY <1>1, ElementOfSeq
  <2> HIDE DEF p
  <2>2. \A i \in 1..Room : i \in 1..Len(p)
    BY <1>2 DEF p
  <2> QED
    BY <2>1, <2>2 DEF p
<1> QED
  BY <1>1, <1>2, <1>3, SubSeqProperties

\* Which transport it is does not change, nor how much it takes.
LEMMA CapacityStays == UNCHANGED fixed => Capacity' = Capacity
BY DEF fixed, Capacity

\* Each step of the client keeps the types.
LEMMA ClientTypes == BackupTypeOK /\ (ClientStep \/ Kill) => BackupTypeOK'
<1> SUFFICES ASSUME BackupTypeOK, ClientStep \/ Kill PROVE BackupTypeOK'
  OBVIOUS
<1>0. UNCHANGED fixed /\ Capacity' = Capacity
  <2>1. UNCHANGED fixed
    BY DEF ClientStep, Dial, Handshake, Send, Notify, Receive, WriteTimesOut, Reset,
           IdleTimesOut, Kill
  <2> QED
    BY <2>1, CapacityStays
<1>1. CASE Dial
  <2> DEFINE new == [flight |-> <<>>, closed |-> FALSE, stalled |-> FALSE,
                     handler |-> "reading", nr |-> 0, seen |-> 0]
  <2>1. new \in Session /\ Len(new.flight) <= Capacity
    BY SizeAssumption DEF Session, Capacity
  <2>2. sessions' = Append(sessions, new)
    BY <1>1 DEF Dial
  <2>3. sessions' \in Sessions(Capacity) /\ sessions' # <<>>
    <3>1. /\ sessions \in Seq(Session)
          /\ \A k \in DOMAIN sessions : Len(sessions[k].flight) <= Capacity
      BY DEF BackupTypeOK, Sessions
    <3>2. sessions' \in Seq(Session) /\ sessions' # <<>>
      BY <2>1, <2>2, <3>1, AppendProperties
    <3> HIDE DEF new
    <3>3. \A k \in DOMAIN sessions' : Len(sessions'[k].flight) <= Capacity
      BY <2>1, <2>2, <3>1
    <3> QED
      BY <3>2, <3>3 DEF Sessions
  <2> QED
    BY <1>0, <1>1, <2>3 DEF Dial, fixed, BackupTypeOK
<1>2. CASE Handshake
  BY <1>0, <1>2 DEF Handshake, fixed, BackupTypeOK
<1>3. CASE Send
  <2>1. Block \in 0..BlockSize /\ offset + Block \in 0..chunk
    BY SizeAssumption DEF Block, BackupTypeOK
  <2>2. sessions' \in Sessions(Capacity) /\ sessions' # <<>>
    <3>1. CASE Block = 0
      BY <1>3, <3>1 DEF Send, BackupTypeOK
    <3>2. CASE Block # 0
      <4>1. Block \in 1..BlockSize
        BY <2>1, <3>2, SizeAssumption
      <4>2. /\ Pieces(Block) \in Seq(1..BlockSize) /\ Len(Pieces(Block)) <= Room
            /\ sessions' = Written(Pieces(Block)) /\ client = "sending"
        BY <1>3, <3>2, <4>1, PiecesType DEF Send, Fits
      <4> QED
        BY <4>2, WrittenType
    <3> QED
      BY <3>1, <3>2
  <2> QED
    BY <1>0, <1>3, <2>1, <2>2 DEF Send, fixed, BackupTypeOK
<1>4. CASE Notify
  <2>1. FinSize \in 1..BlockSize
    BY SizeAssumption
  <2>2. sessions' \in Sessions(Capacity) /\ sessions' # <<>>
    BY <1>4, <2>1, PiecesType, WrittenType DEF Notify, Fits
  <2> QED
    BY <1>0, <1>4, <2>2 DEF Notify, fixed, BackupTypeOK
<1>5. CASE Receive \/ Reset \/ IdleTimesOut
  <2>1. sessions' \in Sessions(Capacity) /\ sessions' # <<>>
    BY <1>5, ClosedType DEF Receive, Reset, IdleTimesOut
  <2> QED
    BY <1>0, <1>5, <2>1 DEF Receive, Reset, IdleTimesOut, fixed, BackupTypeOK
<1>6. CASE WriteTimesOut
  <2> DEFINE size == IF client = "sending" THEN Block ELSE FinSize
             part == SubSeq(Pieces(size), 1, Room)
  <2>1. /\ client \in {"sending", "notifying"} /\ size > 0 /\ ~Fits(size)
        /\ sessions' = [Written(part) EXCEPT ![Cur].closed = TRUE]
        /\ offset' = IF client = "sending" THEN offset + Room ELSE offset
    BY <1>6 DEF WriteTimesOut
  <2>2. Block \in 0..BlockSize /\ offset + Block \in 0..chunk
    BY SizeAssumption DEF Block, BackupTypeOK
  <2>3. size \in 1..BlockSize
    BY <2>1, <2>2, SizeAssumption
  <2>4. Room \in Nat
    BY <2>1, CurIsThere
  <2>5. offset' \in 0..chunk
    <3>1. client = "sending" => Room < Block
      BY <2>1, <2>3, <2>4, PartType
    <3> QED
      <4>1. chunk \in Nat /\ offset \in 0..chunk /\ Block \in Nat /\ offset + Block <= chunk
        BY <2>2, SizeAssumption DEF BackupTypeOK
      <4>2. client = "sending" => offset' = offset + Room
        BY <2>1
      <4>3. client # "sending" => offset' = offset
        BY <2>1
      <4> QED
        BY <2>4, <3>1, <4>1, <4>2, <4>3
  <2> HIDE DEF size
  <2>6. part \in Seq(1..BlockSize) /\ Len(part) <= Room
    BY <2>1, <2>3, <2>4, PartType
  <2> HIDE DEF part
  <2>7. sessions' \in Sessions(Capacity)
    BY <2>1, <2>6, WrittenType
  <2> QED
    BY <1>0, <1>6, <2>5, <2>7 DEF WriteTimesOut, fixed, BackupTypeOK
<1>7. CASE Kill
  <2>1. sessions' \in Sessions(Capacity)
    BY <1>7, ClosedType DEF Kill, BackupTypeOK
  <2> QED
    BY <1>0, <1>7, <2>1 DEF Kill, fixed, BackupTypeOK
<1> QED
  BY <1>1, <1>2, <1>3, <1>4, <1>5, <1>6, <1>7 DEF ClientStep

\* Each step of a handler keeps the types.
LEMMA ServerTypes ==
  ASSUME BackupTypeOK, NEW k \in DOMAIN sessions, ServerStep(k) \/ GoOn(k)
  PROVE  BackupTypeOK'
<1>0. UNCHANGED fixed /\ Capacity' = Capacity
  <2>1. UNCHANGED fixed
    BY DEF ServerStep, Read, Add, ReadFails, Record, GoOn, sides
  <2> QED
    BY <2>1, CapacityStays
<1>1. /\ sessions \in Sessions(Capacity) /\ sessions \in Seq(Session)
      /\ sessions[k] \in Session /\ Len(sessions[k].flight) <= Capacity
  BY DEF BackupTypeOK, Sessions
<1>2. ASSUME NEW state \in {"reading", "ended", "recorded"}
      PROVE  Handler(k, state) \in Sessions(Capacity) /\ Handler(k, state) # <<>>
  <2> DEFINE s == [sessions[k] EXCEPT !.handler = state]
  <2>1. s \in Session /\ Len(s.flight) <= Capacity
    BY <1>1 DEF Session
  <2>2. Handler(k, state) = [sessions EXCEPT ![k] = s]
    BY <1>1 DEF Handler, Session
  <2> HIDE DEF s
  <2>3. [sessions EXCEPT ![k] = s] \in Sessions(Capacity) /\ [sessions EXCEPT ![k] = s] # <<>>
    BY <1>1, <2>1, SetSession
  <2> QED
    BY <2>2, <2>3
<1>3. CASE Read(k)
  <2> DEFINE f == sessions[k].flight
             got(n) == IF transport = "tcp" THEN Head(f) ELSE n
  <2>1. PICK n \in ReadLens(k) :
          sessions' = [sessions EXCEPT
            ![k].handler = "adding", ![k].seen = total,
            ![k].nr = got(n), ![k].flight = SubSeq(@, n + 1, Len(@))]
    BY <1>3 DEF Read
  <2>2. f \in Seq(1..BlockSize) /\ n \in 1..Len(f) /\ Len(f) \in Nat
    BY <1>1, <2>1 DEF ReadLens, Session
  <2>3. got(n) \in 0..BlockSize
    <3>1. CASE transport = "tcp"
      BY <2>2, <3>1, SizeAssumption
    <3>2. CASE transport # "tcp"
      BY <2>1, <2>2, <3>2, SizeAssumption DEF ReadLens
    <3> QED
      BY <3>1, <3>2
  <2>4. SubSeq(f, n + 1, Len(f)) \in Seq(1..BlockSize) /\ Len(SubSeq(f, n + 1, Len(f))) <= Len(f)
    <3> HIDE DEF f
    <3>1. \A i \in 1..Len(f) : f[i] \in 1..BlockSize
      BY <2>2, ElementOfSeq
    <3>2. \A i \in (n + 1)..Len(f) : i \in 1..Len(f)
      BY <2>2
    <3> QED
      BY <2>2, <3>1, <3>2, SubSeqProperties
  <2> DEFINE rest == SubSeq(f, n + 1, Len(f))
             s == [sessions[k] EXCEPT !.handler = "adding", !.seen = total,
                                      !.nr = got(n), !.flight = rest]
  <2>5. s \in Session /\ Len(s.flight) <= Capacity
    <3>1. Len(rest) <= Capacity
      <4>1. Capacity \in Nat
        BY SizeAssumption DEF Capacity
      <4> QED
        BY <1>1, <2>2, <2>4, <4>1
    <3>2. rest \in Seq(1..BlockSize) /\ total \in Nat
      BY <2>4 DEF BackupTypeOK
    <3> HIDE DEF rest, got
    <3> QED
      BY <1>1, <2>3, <3>1, <3>2 DEF Session
  <2>6. sessions' = [sessions EXCEPT ![k] = s]
    <3> HIDE DEF got
    <3> QED
      BY <1>1, <2>1 DEF Session
  <2> HIDE DEF s
  <2>7. sessions' \in Sessions(Capacity) /\ sessions' # <<>>
    BY <1>1, <2>5, <2>6, SetSession
  <2> QED
    BY <1>0, <1>3, <2>7 DEF Read, sides, fixed, BackupTypeOK
<1>4. CASE Add(k)
  <2>1. sessions' \in Sessions(Capacity) /\ sessions' # <<>>
    BY <1>2, <1>4 DEF Add
  <2>2. total' \in Nat
    BY <1>1, <1>4, SizeAssumption DEF Add, Session
  <2> QED
    BY <1>0, <1>4, <2>1, <2>2 DEF Add, fixed, BackupTypeOK
<1>5. CASE ReadFails(k)
  <2>1. sessions' \in Sessions(Capacity) /\ sessions' # <<>>
    BY <1>2, <1>5 DEF ReadFails
  <2> QED
    BY <1>0, <1>5, <2>1 DEF ReadFails, sides, fixed, BackupTypeOK
<1>6. CASE Record(k)
  <2>1. sessions' \in Sessions(Capacity) /\ sessions' # <<>>
    BY <1>2, <1>6 DEF Record
  <2> QED
    BY <1>0, <1>6, <2>1 DEF Record, fixed, BackupTypeOK
<1>7. CASE GoOn(k)
  <2> DEFINE s == [sessions[k] EXCEPT !.stalled = FALSE]
  <2>1. s \in Session /\ Len(s.flight) <= Capacity
    BY <1>1 DEF Session
  <2>2. sessions' = [sessions EXCEPT ![k] = s]
    BY <1>1, <1>7 DEF GoOn, Session
  <2> HIDE DEF s
  <2>3. sessions' \in Sessions(Capacity) /\ sessions' # <<>>
    BY <1>1, <2>1, <2>2, SetSession
  <2> QED
    BY <1>0, <1>7, <2>3 DEF GoOn, sides, fixed, BackupTypeOK
<1> QED
  BY <1>3, <1>4, <1>5, <1>6, <1>7 DEF ServerStep

\* An outage stalls all sessions at once.
LEMMA NetworkTypes == BackupTypeOK /\ (Fail \/ Heal) => BackupTypeOK'
<1> SUFFICES ASSUME BackupTypeOK, Fail \/ Heal PROVE BackupTypeOK'
  OBVIOUS
<1>0. UNCHANGED fixed /\ Capacity' = Capacity
  <2>1. UNCHANGED fixed
    BY DEF Fail, Heal, sides
  <2> QED
    BY <2>1, CapacityStays
<1>1. CASE Fail
  <2> DEFINE Stalled(k) == [sessions[k] EXCEPT !.stalled = TRUE]
  <2>1. \A k \in 1..Len(sessions) : Stalled(k) \in Session /\ Len(Stalled(k).flight) <= Capacity
    <3>1. \A k \in 1..Len(sessions) : sessions[k] \in Session /\ Len(sessions[k].flight) <= Capacity
      BY DEF BackupTypeOK, Sessions
    <3> QED
      BY <3>1 DEF Session
  <2>2. sessions' = [k \in 1..Len(sessions) |-> Stalled(k)] /\ Len(sessions) \in Nat
    BY <1>1 DEF Fail, BackupTypeOK, Sessions
  <2> HIDE DEF Stalled
  <2>3. sessions' \in Sessions(Capacity) /\ (sessions # <<>> => sessions' # <<>>)
    <3>1. sessions' \in Seq(Session) /\ DOMAIN sessions' = 1..Len(sessions)
      BY <2>1, <2>2
    <3>2. sessions # <<>> => sessions' # <<>>
      BY <2>2 DEF BackupTypeOK, Sessions
    <3>3. \A k \in DOMAIN sessions' : Len(sessions'[k].flight) <= Capacity
      BY <2>1, <2>2
    <3> QED
      BY <3>1, <3>2, <3>3 DEF Sessions
  <2> QED
    <3>1. outages \in 0..MaxOutages /\ outages < MaxOutages /\ outages' = outages + 1
      BY <1>1, Zenon DEF Fail, BackupTypeOK
    <3>2. outages' \in 0..MaxOutages
      BY <3>1, SizeAssumption
    <3>3. network' = FALSE
      BY <1>1, Zenon DEF Fail
    <3>4. UNCHANGED <<fixed, offset, client, total, row>>
      BY <1>1 DEF Fail, sides
    <3> QED
      BY <1>0, <2>3, <3>2, <3>3, <3>4 DEF fixed, BackupTypeOK
<1>2. CASE Heal
  BY <1>0, <1>2 DEF Heal, sides, fixed, BackupTypeOK
<1> QED
  BY <1>1, <1>2

\* Whatever happens to a transfer, its state keeps its types: the offset stays
\* in the file, a client that uses a session has one, and no session has more
\* on its way than it takes.
THEOREM BackupTypes == Spec => []BackupTypeOK
<1>1. Init => BackupTypeOK
  BY SizeAssumption DEF Init, BackupTypeOK, Sessions
<1>2. BackupTypeOK /\ [Next]_vars => BackupTypeOK'
  <2>1. BackupTypeOK /\ UNCHANGED vars => BackupTypeOK'
    BY CapacityStays DEF vars, fixed, BackupTypeOK
  <2> QED
    BY <2>1, ClientTypes, ServerTypes, NetworkTypes DEF Next
<1> QED
  BY <1>1, <1>2, PTL DEF Spec
=============================================================================
