------------------------------ MODULE Gateway ------------------------------
(***************************************************************************)
(* TcpGateway of src/gateway.h over the wire layouts of src/protocol.h.   *)
(*                                                                         *)
(* The owner thread calls start(), stop() and the destructor.  Each        *)
(* start() spawns a listener thread (listener_loop) that accepts one TCP   *)
(* client at a time and serves it inline (handle_client): it reads an     *)
(* 11-byte header and the rest of the frame into message_buffer with       *)
(* recv_exact, checks only the declared length, and hands the buffer to   *)
(* process_message, which casts it to the struct of the type tag and calls *)
(* the order book.                                                         *)
(*                                                                         *)
(* Data abstraction: a frame is its type tag and declared length; the      *)
(* bytes of message_buffer hold the number of the frame that last wrote    *)
(* them (Uninit for the array's indeterminate initial bytes), so a field   *)
(* read by process_message comes from its own frame, from an earlier one,  *)
(* or is torn between two.  recv_exact (a loop over recv) is one step: it  *)
(* returns once the bytes it waits for have arrived and fails once the     *)
(* client has closed before they did.  Socket addresses, timestamps and    *)
(* the field values themselves are left out.                               *)
(***************************************************************************)
EXTENDS Integers, Sequences, FiniteSets

CONSTANTS
  Types,      \* type tags the clients send (MsgType, as one-letter strings)
  Lens,       \* total lengths the clients declare in MsgHeader::length
  MaxFrames,  \* frames sent over all connections
  MaxConns,   \* client connections
  MaxStarts   \* calls of start()

HeaderSize     == 11     \* sizeof(MsgHeader)
MaxMessageSize == 1024   \* MAX_MESSAGE_SIZE
Uninit == 0              \* a byte of message_buffer no frame has written
Torn   == -1             \* a field whose bytes come from different frames

\* The bytes of message_buffer that process_message can read: the payload
\* up to the end of the largest struct it casts to (MsgAddIceberg).
Bytes == HeaderSize .. 51

\* The byte spans of the fields process_message reads for each type, from
\* the packed layouts: order_id, user_id, side, price, then quantity
\* (visible_quantity for ADD_ICEBERG, quantity and time_in_force for
\* EXECUTE); CANCEL_ORDER and MODIFY_ORDER read order_id only.
AddFields == {11 .. 18, 19 .. 26, 27 .. 27, 28 .. 35}
Reads(t) ==
  CASE t \in {"A", "N"}  -> AddFields \cup {36 .. 43}
    [] t = "I"           -> AddFields \cup {44 .. 51}
    [] t = "E"           -> AddFields \cup {36 .. 43, 44 .. 44}
    [] t \in {"X", "M"}  -> {11 .. 18}
    [] OTHER             -> {}

\* The order-book call process_message makes for each type; HEARTBEAT,
\* RESET and every other tag (stop orders, snapshot requests, unknown
\* bytes) make none.
EngineCall(t) ==
  CASE t \in {"A", "I", "N"} -> "add_order"
    [] t \in {"X", "M"}      -> "cancel_order"
    [] t = "E"               -> "match_order"
    [] OTHER                 -> "none"

\* msg_cast: the frame a field of the cast struct holds.
Owner(buf, span) ==
  LET ks == {buf[b] : b \in span}
  IN  IF Cardinality(ks) = 1 THEN CHOOSE k \in ks : TRUE ELSE Torn

Pcs == {"setup", "loop", "accept", "client", "header", "body", "process",
        "exited"}
\* a listener thread that holds the bound listening socket
HoldsPort == Pcs \ {"setup", "exited"}

NoThread == [pc |-> "setup", conn |-> 0, pos |-> 0, hdr |-> 0,
             buf |-> [b \in Bytes |-> Uninit]]

VARIABLES
  running,   \* running_
  owner,     \* "live", or "destroyed" once ~TcpGateway has returned
  th,        \* th[i]: listener thread of the i-th start()
  conns,     \* conns[c]: frame numbers client c sent, and whether it closed
  nextConn,  \* connections accepted (or refused) so far
  frames,    \* frames[k]: [type, len, whole] of the k-th frame sent
  calls      \* order-book calls made: [op, frame, src, thread, epoch, stopped]

vars == <<running, owner, th, conns, nextConn, frames, calls>>

Init ==
  /\ running = FALSE
  /\ owner = "live"
  /\ th = <<>>
  /\ conns = <<>>
  /\ nextConn = 0
  /\ frames = <<>>
  /\ calls = <<>>

(***************************************************************************)
(* The owner thread.  start() and stop() return at once when running_ is   *)
(* already what they would set; those calls change nothing.  stop()       *)
(* detaches the listener, which keeps running.                             *)
(***************************************************************************)
Start ==
  /\ owner = "live" /\ ~running /\ Len(th) < MaxStarts
  /\ running' = TRUE
  /\ th' = Append(th, NoThread)
  /\ UNCHANGED <<owner, conns, nextConn, frames, calls>>

Stop ==
  /\ owner = "live" /\ running
  /\ running' = FALSE
  /\ UNCHANGED <<owner, th, conns, nextConn, frames, calls>>

Destroy ==
  /\ owner = "live"
  /\ running' = FALSE
  /\ owner' = "destroyed"
  /\ UNCHANGED <<th, conns, nextConn, frames, calls>>

(***************************************************************************)
(* The clients: connect while a listening socket exists, send frames of   *)
(* any type and declared length (the last one possibly cut short by a     *)
(* close), close.                                                          *)
(***************************************************************************)
Connect ==
  /\ Len(conns) < MaxConns
  /\ \E i \in DOMAIN th : th[i].pc \in HoldsPort
  /\ conns' = Append(conns, [sent |-> <<>>, closed |-> FALSE])
  /\ UNCHANGED <<running, owner, th, nextConn, frames, calls>>

Send(c, t, len, whole) ==
  /\ ~conns[c].closed /\ Len(frames) < MaxFrames
  /\ frames' = Append(frames, [type |-> t, len |-> len, whole |-> whole])
  /\ conns' = [conns EXCEPT ![c].sent = Append(@, Len(frames) + 1),
                            ![c].closed = ~whole]
  /\ UNCHANGED <<running, owner, th, nextConn, calls>>

Close(c) ==
  /\ ~conns[c].closed
  /\ conns' = [conns EXCEPT ![c].closed = TRUE]
  /\ UNCHANGED <<running, owner, th, nextConn, frames, calls>>

Client ==
  \/ Connect
  \/ \E c \in DOMAIN conns :
       \/ Close(c)
       \/ \E t \in Types, len \in Lens :
            \E whole \in IF len > HeaderSize THEN BOOLEAN ELSE {TRUE} :
              Send(c, t, len, whole)

(***************************************************************************)
(* The listener thread i.  listener_loop: create, bind and listen (bind    *)
(* fails while an earlier, detached listener still holds the port; any of *)
(* the three may fail and the thread returns), then accept and serve one  *)
(* client at a time while running_.  handle_client: while running_, read  *)
(* a header, reject a length outside [11, 1024], read the rest, dispatch. *)
(***************************************************************************)
Setup(i) ==
  /\ th[i].pc = "setup"
  /\ \/ /\ \A j \in DOMAIN th : th[j].pc \notin HoldsPort
        /\ th' = [th EXCEPT ![i].pc = "loop"]
     \/ th' = [th EXCEPT ![i].pc = "exited"]
  /\ UNCHANGED <<running, owner, conns, nextConn, frames, calls>>

\* On exit the listening socket is closed and queued connections are reset.
Loop(i) ==
  /\ th[i].pc = "loop"
  /\ th' = [th EXCEPT ![i].pc = IF running THEN "accept" ELSE "exited"]
  /\ nextConn' = IF running THEN nextConn ELSE Len(conns)
  /\ UNCHANGED <<running, owner, conns, frames, calls>>

AcceptNoPending(i) ==
  /\ th[i].pc = "accept" /\ nextConn <= Len(conns)
  /\ th' = [th EXCEPT ![i] = [NoThread EXCEPT !.pc = "client",
                                              !.conn = nextConn + 1]]
  /\ nextConn' = nextConn + 1
  /\ UNCHANGED <<running, owner, conns, frames, calls>>

Accept(i) ==
  /\ th[i].pc = "accept" /\ nextConn < Len(conns)
  /\ th' = [th EXCEPT ![i] = [NoThread EXCEPT !.pc = "client",
                                              !.conn = nextConn + 1]]
  /\ nextConn' = nextConn + 1
  /\ UNCHANGED <<running, owner, conns, frames, calls>>

AcceptFail(i) ==
  /\ th[i].pc = "accept"
  /\ th' = [th EXCEPT ![i].pc = "loop"]
  /\ UNCHANGED <<running, owner, conns, nextConn, frames, calls>>

ServeLoopNoCheck(i) ==
  /\ th[i].pc = "client"
  /\ th' = [th EXCEPT ![i].pc = "header"]
  /\ UNCHANGED <<running, owner, conns, nextConn, frames, calls>>

\* The loop head of handle_client; leaving it closes the client socket.
ServeLoop(i) ==
  /\ th[i].pc = "client"
  /\ th' = [th EXCEPT ![i].pc = IF running THEN "header" ELSE "loop"]
  /\ UNCHANGED <<running, owner, conns, nextConn, frames, calls>>

RecvHeader(i) ==
  LET c == th[i].conn
      p == th[i].pos
  IN  /\ th[i].pc = "header"
      /\ \/ /\ p < Len(conns[c].sent)
            /\ LET k   == conns[c].sent[p + 1]
                   len == frames[k].len
               IN  th' = [th EXCEPT ![i].pos = p + 1, ![i].hdr = k,
                            ![i].pc = IF len < HeaderSize \/ len > MaxMessageSize
                                      THEN "loop"
                                      ELSE IF len > HeaderSize THEN "body"
                                      ELSE "process"]
         \/ /\ p = Len(conns[c].sent) /\ conns[c].closed
            /\ th' = [th EXCEPT ![i].pc = "loop"]
      /\ UNCHANGED <<running, owner, conns, nextConn, frames, calls>>

RecvBody(i) ==
  LET k == th[i].hdr
  IN  /\ th[i].pc = "body"
      /\ th' = IF frames[k].whole
               THEN [th EXCEPT ![i].pc = "process",
                      ![i].buf = [b \in Bytes |-> IF b < frames[k].len
                                                  THEN k ELSE @[b]]]
               ELSE [th EXCEPT ![i].pc = "loop"]
      /\ UNCHANGED <<running, owner, conns, nextConn, frames, calls>>

ProcessMessage(i) ==
  LET k == th[i].hdr
      t == frames[k].type
  IN  /\ th[i].pc = "process"
      /\ calls' = IF EngineCall(t) = "none" THEN calls
                  ELSE Append(calls, [op |-> EngineCall(t), frame |-> k,
                                      src |-> {Owner(th[i].buf, s) : s \in Reads(t)},
                                      thread |-> i, epoch |-> Len(th),
                                      stopped |-> ~running])
      /\ th' = [th EXCEPT ![i].pc = "client"]
      /\ UNCHANGED <<running, owner, conns, nextConn, frames>>

Listener(i) ==
  \/ Setup(i) \/ Loop(i) \/ Accept(i) \/ AcceptFail(i)
  \/ ServeLoop(i) \/ RecvHeader(i) \/ RecvBody(i) \/ ProcessMessage(i)

Next ==
  \/ Start \/ Stop \/ Destroy
  \/ Client
  \/ \E i \in DOMAIN th : Listener(i)

Spec == Init /\ [][Next]_vars

-----------------------------------------------------------------------------
TypeOK ==
  /\ running \in BOOLEAN /\ owner \in {"live", "destroyed"}
  /\ nextConn \in 0 .. Len(conns)
  /\ \A i \in DOMAIN th :
       /\ th[i].pc \in Pcs
       /\ th[i].buf \in [Bytes -> 0 .. MaxFrames]
       /\ th[i].conn > 0 => th[i].pos <= Len(conns[th[i].conn].sent)
  /\ \A j \in DOMAIN calls : calls[j].src \subseteq (0 .. MaxFrames) \cup {Torn}

(* stop() only clears running_ and detaches the listener, which re-reads   *)
(* running_ at the head of its two loops (listener_loop, handle_client).   *)
(* Once stop() has returned, each listener hands at most one more message *)
(* to the order book (the one it was already reading) until a later       *)
(* start().                                                                *)
StopQuiescesListener ==
  \A i \in DOMAIN th :
    Cardinality({j \in DOMAIN calls : /\ calls[j].thread = i
                                      /\ calls[j].stopped
                                      /\ calls[j].epoch = Len(th)}) <= 1

(* Every order-book call process_message makes is built from the fields   *)
(* of the frame that triggered it (spec 6.1 gives each type its total     *)
(* length): no field comes from an earlier frame, the array's initial     *)
(* bytes, or two frames at once.                                           *)
EngineCallsFromOwnFrame ==
  \A j \in DOMAIN calls : calls[j].src = {calls[j].frame}
=============================================================================
