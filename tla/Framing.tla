------------------------------ MODULE Framing -------------------------------
(***************************************************************************)
(* How a request gets from a client's socket to DataHandle: the client     *)
(* sends two bytes of length and then the data (TcpClient::senddata), TCP  *)
(* delivers the bytes in order and in pieces of any size, and OnRead of    *)
(* the event thread takes them out again with two calls of recv (MyRead in *)
(* main/TcpUser.cpp).  The second recv blocks until at least one byte is   *)
(* there, and with it the event thread and every other client.             *)
(*                                                                         *)
(* A message is FrameLen units: the two bytes of its length, then the      *)
(* pieces its data may be cut into.  The units of a connection are         *)
(* numbered from 1 in the order they are sent, so counting those sent and  *)
(* those received says which they are; what has arrived in between is      *)
(* chosen when recv is called.                                             *)
(***************************************************************************)
EXTENDS Naturals, Sequences

CONSTANTS
    Clients,
    Pieces,   \* the pieces of the data of one message
    Lengths,  \* bound: the lengths MyRead may see, 0 for one it refuses
    MaxMsgs   \* bound: messages of one client

ASSUME FramingAssumption ==
    /\ Pieces \in Nat \ {0}
    /\ Lengths \subseteq Nat /\ {0, Pieces} \subseteq Lengths
    /\ MaxMsgs \in Nat

VARIABLES
    conn,     \* the connection: "none", "open", or "closed" by the server
    reset,    \* the peer answered, or will answer, with a reset
    ended,    \* the client has closed its socket
    sent,     \* units the client sent
    received, \* units recv took
    reading,  \* the client and length MyRead waits for, or NoRead
    handled,  \* history: the messages given to DataHandle, 0 for no message
    inPieces  \* history: a recv took less than it asked for

framingVars == <<conn, reset, ended, sent, received, reading, handled, inPieces>>

Header == 2
FrameLen == Header + Pieces
NoRead == <<>>

FramingTypeOK ==
    /\ conn \in [Clients -> {"none", "open", "closed"}]
    /\ reset \in [Clients -> BOOLEAN]
    /\ ended \in [Clients -> BOOLEAN]
    /\ sent \in [Clients -> 0 .. MaxMsgs * FrameLen]
    /\ received \in [Clients -> 0 .. MaxMsgs * FrameLen]
    /\ reading \in {NoRead} \cup (Clients \X (Lengths \ {0}))
    /\ handled \in [Clients -> Seq(0 .. MaxMsgs)]
    /\ inPieces \in [Clients -> BOOLEAN]

FramingInit ==
    /\ conn = [c \in Clients |-> "none"]
    /\ reset = [c \in Clients |-> FALSE]
    /\ ended = [c \in Clients |-> FALSE]
    /\ sent = [c \in Clients |-> 0]
    /\ received = [c \in Clients |-> 0]
    /\ reading = NoRead
    /\ handled = [c \in Clients |-> <<>>]
    /\ inPieces = [c \in Clients |-> FALSE]
-----------------------------------------------------------------------------
(* The client's calls.                                                     *)

Connect(c) ==
    /\ conn' = [conn EXCEPT ![c] = "open"]
    /\ UNCHANGED <<reset, ended, sent, received, reading, handled, inPieces>>

\* send: on a connection the server closed the data is dropped, and answered
\* with a reset.
Send(c, units) ==
    /\ IF conn[c] = "open"
       THEN sent' = [sent EXCEPT ![c] = @ + units] /\ reset' = reset
       ELSE reset' = [reset EXCEPT ![c] = TRUE] /\ sent' = sent
    /\ UNCHANGED <<conn, ended, received, reading, handled, inPieces>>

\* The process of the client ends, in whatever way.
Close(c) ==
    /\ ended' = [ended EXCEPT ![c] = TRUE]
    /\ UNCHANGED <<conn, reset, sent, received, reading, handled, inPieces>>
-----------------------------------------------------------------------------
(* The event thread.                                                       *)

Waiting(c) == sent[c] - received[c]

\* How many units a recv that asks for n may return.
Taken(c, n) == {k \in 1 .. n : k <= Waiting(c)}

Take(c, k, n) ==
    /\ received' = [received EXCEPT ![c] = @ + k]
    /\ inPieces' = [inPieces EXCEPT ![c] = @ \/ k < n]

\* OnRead when MyRead fails: OffConnection destroys the user, which closes the
\* socket; bytes nobody read make that a reset.
OffConnection(c) ==
    /\ conn' = [conn EXCEPT ![c] = "closed"]
    /\ reset' = [reset EXCEPT ![c] = @ \/ sent[c] > received'[c]]
    /\ reading' = NoRead

\* A variant with one slip: ntohs forgotten.
LengthsSeenUnconverted(c, k) == Lengths

\* The length two bytes stand for: that of the message when they are its
\* header; with one byte missing, or of other bytes, it can be any.
LengthsSeen(c, k) ==
    IF k = Header /\ received[c] % FrameLen = 0 THEN {Pieces} ELSE Lengths

\* MyRead: the first recv.  The event fired, so something has arrived.
RecvLength(c) ==
    /\ reading = NoRead
    /\ conn[c] = "open"
    /\ \E k \in Taken(c, Header) :
         /\ Take(c, k, Header)
         /\ \E len \in LengthsSeen(c, k) :
              IF len = 0 THEN OffConnection(c)
              ELSE reading' = <<c, len>> /\ UNCHANGED <<conn, reset>>
    /\ UNCHANGED <<ended, sent, handled>>

\* The message len units from here on are, if they are one.
TextAt(c, len) ==
    IF received[c] % FrameLen = Header /\ len = Pieces
    THEN received[c] \div FrameLen + 1 ELSE 0

\* A variant with one slip: recv called again until everything is there, which
\* at the end of the stream is never.
RecvDataAll(c, len) ==
    /\ reading = <<c, len>>
    /\ len \in Taken(c, len)
    /\ Take(c, len, len)
    /\ handled' = [handled EXCEPT ![c] = Append(@, TextAt(c, len))]
    /\ reading' = NoRead
    /\ UNCHANGED <<conn, reset, ended, sent>>

\* MyRead: the second recv, with some data there.  All of it and DataHandle gets
\* it; anything less and the connection ends.
RecvData(c, len) ==
    /\ reading = <<c, len>>
    /\ \E k \in Taken(c, len) :
         /\ Take(c, k, len)
         /\ IF k = len
            THEN /\ handled' = [handled EXCEPT ![c] = Append(@, TextAt(c, len))]
                 /\ reading' = NoRead
                 /\ UNCHANGED <<conn, reset>>
            ELSE OffConnection(c) /\ UNCHANGED handled
    /\ UNCHANGED <<ended, sent>>

\* The client closed its end and everything was read: the first recv returns 0
\* and leaves len unset, or the second returns 0.
RecvEnd(c) ==
    /\ reading = NoRead \/ (reading # NoRead /\ reading[1] = c)
    /\ conn[c] = "open"
    /\ ended[c]
    /\ Waiting(c) = 0
    /\ UNCHANGED <<ended, sent, received, handled, inPieces>>
    /\ OffConnection(c)

EventStep ==
    \E c \in Clients :
        \/ RecvLength(c)
        \/ \E len \in Lengths : RecvData(c, len)
        \/ RecvEnd(c)
-----------------------------------------------------------------------------
\* While no recv took less than it asked for, nothing goes wrong: the client's
\* messages are handled in the order they were sent, none cut, joined or left
\* out, and the server does not end the connection before the client does.
WholeMessagesAreHandled ==
    \A c \in Clients : ~inPieces[c] =>
        /\ handled[c] = [k \in 1 .. Len(handled[c]) |-> k]
        /\ received[c] \div FrameLen = Len(handled[c])
        /\ conn[c] = "closed" => ended[c]

\* In the end every connection is over, and every message sent whole was handled
\* unless some recv took less than it asked for: no client keeps the event thread
\* in recv for ever.
MessagesHandled ==
    <>[](\A c \in Clients :
            /\ conn[c] # "open"
            /\ ~inPieces[c] => Len(handled[c]) = sent[c] \div FrameLen)
=============================================================================
