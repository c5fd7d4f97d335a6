--------------------------- MODULE BackupTransfer ---------------------------
(***************************************************************************)
(* benchmark/tcp and benchmark/quic: the emergency backup of a host pair.  *)
(* The client sends a file and dials again when that fails; the server has *)
(* a goroutine per session, all of which add to one counter, and each of   *)
(* which records the counter in the database when its session ends.        *)
(*                                                                         *)
(* Over TLS and TCP a read returns a record as it was written.  A stream   *)
(* of QUIC knows bytes only, so that a read may return any number of them; *)
(* and closing it does not stop the other side from writing.               *)
(*                                                                         *)
(* The network between them is down while no route works.  A session that  *)
(* was open then stalls: it goes on when TCP sends again, some time after  *)
(* the network is up, and what arrived before is read before.              *)
(*                                                                         *)
(* Read and the load in total += nr are one step: what other goroutines do *)
(* between them might as well come before the read.                        *)
(*                                                                         *)
(* An operator named Slip... is no part of the model: it is the definition *)
(* after it with a mistake, which a property of the module has to notice.  *)
(***************************************************************************)
EXTENDS Integers, SequencesExt

CONSTANTS
  Chunks,     \* sizes the file may have (-chunk)
  BlockSize,  \* the length of both buffers
  FinSize,    \* the length of "fin"
  Window,     \* records, or as many bytes, it takes before a write waits
  MaxOutages  \* bound: how often the network goes down

VARIABLES
  transport, \* "tcp" or "quic"
  chunk,     \* the size of the file
  offset,    \* of the client: what it has written
  client,    \* what the client is doing
  sessions,  \* in the order they were dialed; the client uses the last
  total,     \* of the server, shared by its goroutines
  row,       \* received_data_size_byte of the pair, or NoRow
  network,   \* there is a route that works
  outages    \* how often there was none

fixed == <<transport, chunk>>
vars  == <<fixed, offset, client, sessions, total, row, network, outages>>
sides == <<fixed, offset, client, total, row>>

ASSUME SizeAssumption ==
  /\ BlockSize \in Nat /\ FinSize \in 1..(BlockSize - 1)
  /\ Chunks \subseteq Nat \ {0}
  /\ Window \in Nat \ {0} /\ MaxOutages \in Nat

NoRow == -1
Session == [flight : Seq(1..BlockSize),  \* records or bytes, not yet read
            closed : BOOLEAN,            \* by the client
            stalled : BOOLEAN,
            handler : {"reading", "adding", "ended", "recorded"},
            nr : 0..BlockSize, seen : Nat]  \* what it read, and total at the time

Capacity == IF transport = "tcp" THEN Window ELSE Window * BlockSize
Sessions(cap) == {q \in Seq(Session) : \A k \in DOMAIN q : Len(q[k].flight) <= cap}

BackupTypeOK ==
  /\ transport \in {"tcp", "quic"}
  /\ chunk \in Chunks /\ offset \in 0..chunk
  /\ client \in {"dialing", "handshake", "sending", "notifying", "receiving", "done", "killed"}
  /\ client \in {"handshake", "sending", "notifying", "receiving"} => sessions # <<>>
  /\ sessions \in Sessions(Capacity)
  /\ total \in Nat /\ row \in Nat \union {NoRow}
  /\ network \in BOOLEAN /\ outages \in 0..MaxOutages

Init ==
  /\ transport \in {"tcp", "quic"}
  /\ chunk \in Chunks /\ offset = 0
  /\ client = "dialing" /\ sessions = <<>>
  /\ total = 0 /\ row = NoRow
  /\ network = TRUE /\ outages = 0

-----------------------------------------------------------------------------
(* The client. *)

Cur       == Len(sessions)
HasEnded(k) == sessions[k].handler \in {"ended", "recorded"}
Closed    == [sessions EXCEPT ![Cur].closed = TRUE]
Lost      == [Closed EXCEPT ![Cur].flight = <<>>]

\* How a buffer travels: as a record or as bytes.
Pieces(size) == IF transport = "tcp" THEN <<size>> ELSE [i \in 1..size |-> 1]
Room == Capacity - Len(sessions[Cur].flight)
Fits(size) == Len(Pieces(size)) <= Room
Written(pieces) == [sessions EXCEPT ![Cur].flight = @ \o pieces]

\* What the next read of the file gives.
Block == IF chunk - offset < BlockSize THEN chunk - offset ELSE BlockSize

\* Slip: every session sends the file from its start.
SlipDial ==
  /\ client = "dialing" /\ network
  /\ sessions' = Append(sessions, [flight |-> <<>>, closed |-> FALSE, stalled |-> FALSE,
                                   handler |-> "reading", nr |-> 0, seen |-> 0])
  /\ client' = "handshake" /\ offset' = 0
  /\ UNCHANGED <<fixed, total, row, network, outages>>

\* tls.Dial, quic.DialAddr: the connection is there, and the server has
\* accepted it.
Dial ==
  /\ client = "dialing" /\ network
  /\ sessions' = Append(sessions, [flight |-> <<>>, closed |-> FALSE, stalled |-> FALSE,
                                   handler |-> "reading", nr |-> 0, seen |-> 0])
  /\ client' = "handshake"
  /\ UNCHANGED <<fixed, offset, total, row, network, outages>>
Handshake ==
  /\ client = "handshake" /\ ~sessions[Cur].stalled /\ ~HasEnded(Cur)
  /\ client' = "sending"
  /\ UNCHANGED <<fixed, offset, sessions, total, row, network, outages>>

\* Slip: the whole buffer is written, however little was read.
SlipSend ==
  /\ client = "sending"
  /\ Fits(BlockSize) /\ sessions' = Written(Pieces(BlockSize))
  /\ offset' = offset + BlockSize
  /\ client' = IF Block < BlockSize THEN "notifying" ELSE "sending"
  /\ UNCHANGED <<fixed, total, row, network, outages>>

\* A block of the file is written.  The read that meets the end of the file
\* gives what is left, perhaps nothing, and then nothing is sent.
Send ==
  /\ client = "sending"
  /\ IF Block = 0 THEN UNCHANGED sessions ELSE Fits(Block) /\ sessions' = Written(Pieces(Block))
  /\ offset' = offset + Block
  /\ client' = IF Block < BlockSize THEN "notifying" ELSE "sending"
  /\ UNCHANGED <<fixed, total, row, network, outages>>
Notify ==
  /\ client = "notifying"
  /\ Fits(FinSize) /\ sessions' = Written(Pieces(FinSize))
  /\ client' = "receiving"
  /\ UNCHANGED <<fixed, offset, total, row, network, outages>>

\* io.ReadAll returns when the server has closed the session, also if that was
\* before it read "fin".
Receive ==
  /\ client = "receiving" /\ ~sessions[Cur].stalled /\ HasEnded(Cur)
  /\ client' = "done" /\ sessions' = Closed
  /\ UNCHANGED <<fixed, offset, total, row, network, outages>>

\* A write waits for WriteTimeout, because of an outage, or since the server
\* does not read the stream any more.  Bytes that had room are written.
WriteTimesOut ==
  /\ client \in {"sending", "notifying"}
  /\ sessions[Cur].stalled \/ (transport = "quic" /\ HasEnded(Cur))
  /\ LET size == IF client = "sending" THEN Block ELSE FinSize
     IN  /\ size > 0 /\ ~Fits(size)
         /\ sessions' = [Written(SubSeq(Pieces(size), 1, Room)) EXCEPT ![Cur].closed = TRUE]
         /\ offset' = IF client = "sending" THEN offset + Room ELSE offset
  /\ client' = "dialing"
  /\ UNCHANGED <<fixed, total, row, network, outages>>

\* The server has closed the session, and answers what still comes to it with
\* a reset: the handshake, a write or the read at the end fails.
Reset ==
  /\ client \in {"handshake", "sending", "notifying", "receiving"}
  /\ ~sessions[Cur].stalled /\ HasEnded(Cur)
  /\ client = "handshake" \/ (transport = "tcp" /\ sessions[Cur].flight # <<>>)
  /\ client' = "dialing" /\ sessions' = Closed
  /\ UNCHANGED <<fixed, offset, total, row, network, outages>>

\* QUIC gives a session up that was idle for long, with all that was on its way.
IdleTimesOut ==
  /\ transport = "quic" /\ client \in {"handshake", "sending", "notifying", "receiving"}
  /\ sessions[Cur].stalled
  /\ client' = "dialing" /\ sessions' = Lost
  /\ UNCHANGED <<fixed, offset, total, row, network, outages>>

\* HostFailure: the process is killed.  What it has written is still sent, but
\* QUIC, a part of the process, cannot send it again.
Kill ==
  /\ client \notin {"done", "killed"}
  /\ client' = "killed"
  /\ sessions' = IF client = "dialing" THEN sessions
                 ELSE IF transport = "quic" /\ sessions[Cur].stalled THEN Lost ELSE Closed
  /\ UNCHANGED <<fixed, offset, total, row, network, outages>>

-----------------------------------------------------------------------------
(* The server: handleConn of session k. *)

Handler(k, state) == [sessions EXCEPT ![k].handler = state]

\* How many pieces a read may return.
ReadLens(k) ==
  {n \in DOMAIN sessions[k].flight : n <= IF transport = "tcp" THEN 1 ELSE BlockSize}

\* A read returns one record, or some bytes, and the total is loaded.
Read(k) ==
  /\ sessions[k].handler = "reading" /\ ~sessions[k].stalled
  /\ \E n \in ReadLens(k) :
       sessions' = [sessions EXCEPT
         ![k].handler = "adding", ![k].seen = total,
         ![k].nr = IF transport = "tcp" THEN Head(sessions[k].flight) ELSE n,
         ![k].flight = SubSeq(@, n + 1, Len(@))]
  /\ UNCHANGED <<sides, network, outages>>

\* Slip: a full buffer ends the session, too.
SlipAdd(k) ==
  /\ sessions[k].handler = "adding"
  /\ total' = sessions[k].seen + sessions[k].nr
  /\ sessions' = Handler(k, "ended")
  /\ UNCHANGED <<fixed, offset, client, row, network, outages>>

\* The new total is stored.  A read that does not fill the buffer is taken for
\* the last: the total is told to the client, and the session closed.
Add(k) ==
  /\ sessions[k].handler = "adding"
  /\ total' = sessions[k].seen + sessions[k].nr
  /\ sessions' = Handler(k, IF sessions[k].nr < BlockSize THEN "ended" ELSE "reading")
  /\ UNCHANGED <<fixed, offset, client, row, network, outages>>

\* Slip: the end of the stream is no error, and the loop goes on.
SlipReadFails(k) ==
  /\ sessions[k].handler = "reading" /\ sessions[k].stalled
  /\ sessions' = Handler(k, "ended")
  /\ UNCHANGED <<sides, network, outages>>

\* A read fails: the session is at its end, or nothing came for ReadTimeout.
\* What is still in flight is lost then, and so are the last bytes of a stream
\* of QUIC when its end comes with them.  The client waits, too, when "fin" was
\* read together with the last bytes of the file and filled the buffer.
ReadFails(k) ==
  /\ sessions[k].handler = "reading"
  /\ \/ sessions[k].stalled
     \/ client = "receiving" /\ k = Cur /\ sessions[k].flight = <<>>
     \/ /\ sessions[k].closed
        /\ \/ sessions[k].flight = <<>>
           \/ transport = "quic" /\ Len(sessions[k].flight) \in ReadLens(k)
  /\ sessions' = Handler(k, "ended")
  /\ UNCHANGED <<sides, network, outages>>

\* benchmark.Record, deferred: the key of the table is the experiment and the
\* pair, so that an insert after the first one fails.
Record(k) ==
  /\ sessions[k].handler = "ended"
  /\ row' = IF row = NoRow THEN total ELSE row
  /\ sessions' = Handler(k, "recorded")
  /\ UNCHANGED <<fixed, offset, client, total, network, outages>>

-----------------------------------------------------------------------------
(* The network: links fail, and the controller finds other routes. *)

Fail ==
  /\ network /\ outages < MaxOutages
  /\ network' = FALSE /\ outages' = outages + 1
  /\ sessions' = [k \in DOMAIN sessions |-> [sessions[k] EXCEPT !.stalled = TRUE]]
  /\ UNCHANGED sides
Heal ==
  /\ ~network /\ network' = TRUE
  /\ UNCHANGED <<sides, sessions, outages>>
GoOn(k) ==
  /\ network /\ sessions[k].stalled
  /\ sessions' = [sessions EXCEPT ![k].stalled = FALSE]
  /\ UNCHANGED <<sides, network, outages>>

-----------------------------------------------------------------------------

ClientStep  == Dial \/ Handshake \/ Send \/ Notify \/ Receive \/ WriteTimesOut \/ Reset \/ IdleTimesOut
ServerStep(k) == Read(k) \/ Add(k) \/ ReadFails(k) \/ Record(k)
Next ==
  \/ ClientStep \/ Kill
  \/ \E k \in DOMAIN sessions : ServerStep(k) \/ GoOn(k)
  \/ Fail \/ Heal

Spec == Init /\ [][Next]_vars

\* Both processes are scheduled, the controller finds a route in the end, and
\* lost packets are sent again; nothing has to be killed, or to fail.
Serving    == \E k \in DOMAIN sessions : ServerStep(k)
GoingOn    == \E k \in DOMAIN sessions : GoOn(k)
FairSpec ==
  Spec /\ WF_vars(ClientStep) /\ WF_vars(Serving) /\ WF_vars(GoingOn) /\ WF_vars(Heal)

-----------------------------------------------------------------------------
(* Properties. *)

\* Nothing counts twice: however sessions overlap, the total and what each
\* session found recorded are at most what was written, each block once and
\* one "fin" per session (offset is kept between sessions, total shared).
Sent == offset + FinSize * Len(sessions)
NothingCountsTwice == total <= Sent /\ row <= Sent

\* Over TCP, without outages, a client that ends has its whole file counted and
\* no byte of it twice, and the row says so, unless it was killed: "fin" is
\* counted too if the file ends with a full block, and otherwise only if it was
\* sent again after the short block had ended the session (send, handleConn).
EndsWithBlock == \E n \in 0..chunk : chunk = BlockSize * n
Complete == {chunk + FinSize} \union (IF EndsWithBlock THEN {} ELSE {chunk})
UndisturbedIsComplete ==
  transport = "tcp" /\ outages = 0 /\ client = "done" =>
    total \in Complete /\ row \in Complete \union {NoRow}

\* A transfer ends, and so do all of its sessions, with a row recorded: an
\* outage at whatever moment keeps neither side waiting for the other (retry
\* loop of main, WriteTimeout, ReadTimeout).
TransferEnds ==
  <>(/\ client \in {"done", "killed"}
     /\ \A k \in DOMAIN sessions : sessions[k].handler = "recorded")

\* When all is over, the row has the size that was received
\* ("received_data_size_byte", db/init.sql:31).
RowIsTotal ==
  client = "done" /\ (\A k \in DOMAIN sessions : sessions[k].handler = "recorded")
    => row = total
=============================================================================
