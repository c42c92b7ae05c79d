------------------------------ MODULE Session ------------------------------
(***************************************************************************)
(* server.cpp and client.cpp: one server, its clients, and the TCP         *)
(* connections between them.  A connection is a byte stream each way; a    *)
(* unit of a stream here is a header or a word, and MaxData units are what *)
(* the code's 512 bytes are: the size of a command, of a receive buffer    *)
(* and of the largest frame of an answer.                                  *)
(***************************************************************************)
EXTENDS Commands, Integers

CONSTANTS Clients, Nobody,
          MaxData,     \* units in MAXDATASIZE bytes
          Backlog,     \* connections that wait for accept
          Split        \* whether the network hands out part of a write

ASSUME SessionAssumption ==
  /\ Nobody \notin Clients
  /\ MaxData \in Nat /\ MaxData >= 3          \* a command is three words
  /\ Backlog \in Nat
  /\ Split \in BOOLEAN

VARIABLES server,   \* where the server is: what it waits for, or "down"
          cur,      \* the client on connectfd
          recebuf,  \* the server's receive buffer, never cleared
          db,
          out,      \* frames send_file has not written yet
          queue,    \* connections waiting for accept
          open,     \* clients whose descriptor the server process holds
          client,   \* where each client is
          up, down, \* the two streams of each connection
          rbuf,     \* each client's receive buffer
          screen,   \* what a client printed since it last typed
          reply,    \* history: the last answer the server made for a client
          cut       \* history: a kill cut a reset short

serverVars == <<server, cur, recebuf, db, out, open, cut>>
clientVars == <<client, rbuf, screen>>
vars == <<serverVars, clientVars, queue, up, down, reply>>

(***************************************************************************)
(* Frames.  The header counts the payload and adds MAXDATASIZE when more   *)
(* frames follow.                                                          *)
(***************************************************************************)
Header(nn) == [len |-> nn, word |-> ""]
Word(w) == [len |-> -1, word |-> w]
Units == [len : -1 .. 2 * MaxData - 1, word : Vocabulary]

Payload == MaxData - 1
Least(a, b) == IF a < b THEN a ELSE b
Words(units) == [i \in DOMAIN units |-> units[i].word]

\* Frame, counting its header when more frames follow.
CountHeader(text, i, more) ==
  LET part == SubSeq(text, i + 1, Least(i + Payload, Len(text)))
      nn == Len(part)
  IN <<Header(IF more THEN nn + 1 + MaxData ELSE nn)>>
       \o [j \in 1 .. nn |-> Word(part[j])]

Frame(text, i, more) ==
  LET part == SubSeq(text, i + 1, Least(i + Payload, Len(text)))
      nn == Len(part)
  IN <<Header(IF more THEN nn + MaxData ELSE nn)>>
       \o [j \in 1 .. nn |-> Word(part[j])]

FrameCount(text) == (Len(text) + Payload - 1) \div Payload

\* Frames, without the mark that more follow.
UnmarkedFrames(text) ==
  [k \in 1 .. FrameCount(text) |-> Frame(text, (k - 1) * Payload, FALSE)]

\* Frames, with <= for <: an answer that fills its last frame is marked.
OvermarkedFrames(text) ==
  [k \in 1 .. FrameCount(text) |->
     Frame(text, (k - 1) * Payload, k * Payload <= Len(text))]

Frames(text) ==
  [k \in 1 .. FrameCount(text) |->
     Frame(text, (k - 1) * Payload, k * Payload < Len(text))]

\* recv: what is there, up to the size of the buffer.  A network that splits
\* writes may deliver any part of it first.
Received(stream) ==
  LET most == Least(MaxData, Len(stream))
  IN IF Split THEN 1 .. most ELSE {most}

Overlay(buf, got) ==
  [i \in 1 .. MaxData |-> IF i <= Len(got) THEN got[i] ELSE buf[i]]

Rest(stream, n) == SubSeq(stream, n + 1, Len(stream))

\* A new process's recebuf holds what happened to be on its stack.
Uninitialised == {[i \in 1 .. MaxData |-> w] : w \in {Zeros, "junk"}}

Init ==
  /\ server = "accept"
  /\ cur = Nobody
  /\ recebuf \in Uninitialised
  /\ db = Fresh
  /\ out = <<>>
  /\ queue = <<>>
  /\ open = {}
  /\ client = [c \in Clients |-> "off"]
  /\ up = [c \in Clients |-> <<>>]
  /\ down = [c \in Clients |-> <<>>]
  /\ rbuf = [c \in Clients |-> [i \in 1 .. MaxData |-> Word(Zeros)]]
  /\ screen = [c \in Clients |-> <<>>]
  /\ reply = [c \in Clients |-> <<>>]
  /\ cut = FALSE

Connected(c) == c \in open \/ \E i \in DOMAIN queue : queue[i] = c

(***************************************************************************)
(* The server                                                              *)
(***************************************************************************)
\* send_file: the answer goes to tmp_out.txt and from there, frame by frame,
\* to the connection.
Answer(c, text) ==
  /\ out' = Frames(text)
  /\ reply' = [reply EXCEPT ![c] = text]

Accept ==
  /\ server = "accept"
  /\ queue # <<>>
  /\ cur' = Head(queue)
  /\ queue' = Tail(queue)
  /\ open' = open \cup {cur'}
  /\ server' = "order"
  /\ Answer(cur', <<Prompt>>)
  /\ UNCHANGED <<recebuf, db, clientVars, cut, up, down>>

Write ==
  /\ out # <<>>
  /\ client[cur] # "gone"
  /\ down' = [down EXCEPT ![cur] = @ \o Head(out)]
  /\ out' = Tail(out)
  /\ UNCHANGED <<server, cur, recebuf, db, open, clientVars, cut, queue, up,
                 reply>>

\* The process ends: its descriptors are closed, what it had not written is
\* lost, connections nobody accepted are refused.
Die ==
  /\ server' = "down"
  /\ cur' = Nobody
  /\ out' = <<>>
  /\ queue' = <<>>
  /\ open' = {}
  /\ UNCHANGED <<recebuf, db, clientVars, up, down, reply>>

\* A write to a client that is gone: the first may still be taken by the
\* kernel, a later one raises SIGPIPE, which the server does not handle.
WriteToGone ==
  /\ out # <<>>
  /\ client[cur] = "gone"
  /\ \/ /\ out' = Tail(out)
        /\ UNCHANGED <<server, cur, recebuf, db, open, clientVars, cut,
                       queue, up, down, reply>>
     \/ Die /\ UNCHANGED cut

Listening(state) == server = state /\ out = <<>>

\* Recv, with room left for a terminator.
RecvShort ==
  /\ up[cur] # <<>>
  /\ LET n == Least(MaxData - 1, Len(up[cur]))
     IN /\ recebuf' = Overlay(recebuf, SubSeq(up[cur], 1, n))
        /\ up' = [up EXCEPT ![cur] = Rest(up[cur], n)]

\* recv into recebuf, which keeps what the last one left behind.
Recv ==
  /\ up[cur] # <<>>
  /\ \E n \in Received(up[cur]) :
       /\ recebuf' = Overlay(recebuf, SubSeq(up[cur], 1, n))
       /\ up' = [up EXCEPT ![cur] = Rest(up[cur], n)]

Order == SubSeq(recebuf', 1, 3)

Leave(state) == server' = state /\ cur' = Nobody

\* Serve, with the database cleared before the question is asked.
ClearFirst ==
  /\ Listening("order")
  /\ Recv
  /\ db' = IF Order = Reset THEN Broken ELSE Effect(db, Order)
  /\ \E a \in Answers(db, Order) : Answer(cur, a)
  /\ server' = CASE Order = Reset -> "confirm"
                 [] Order[1] = "exit" -> "bye"
                 [] OTHER -> "order"
  /\ UNCHANGED <<cur, open, clientVars, cut, queue, down>>

\* exit says good bye and goes on to accept: connectfd stays open.
Serve ==
  /\ Listening("order")
  /\ Recv
  /\ db' = Effect(db, Order)
  /\ \E a \in Answers(db, Order) : Answer(cur, a)
  /\ server' = CASE Order = Reset -> "confirm"
                 [] Order[1] = "exit" -> "bye"
                 [] OTHER -> "order"
  /\ UNCHANGED <<cur, open, clientVars, cut, queue, down>>

SignOff ==
  /\ Listening("bye")
  /\ Leave("accept")
  /\ UNCHANGED <<recebuf, db, out, open, clientVars, cut, queue, up, down,
                 reply>>

\* Confirm, taking any answer for a yes.
ConfirmAnything ==
  /\ Listening("confirm")
  /\ Recv
  /\ server' = "clear"
  /\ UNCHANGED <<cur, db, open, out, reply, clientVars, cut, queue, down>>

Confirm ==
  /\ Listening("confirm")
  /\ Recv
  /\ IF Order = Yes
     THEN server' = "clear" /\ UNCHANGED <<out, reply>>
     ELSE server' = "order" /\ Answer(cur, <<Prompt>>)
  /\ UNCHANGED <<cur, db, open, clientVars, cut, queue, down>>

Clear ==
  /\ server = "clear"
  /\ server' = "install"
  /\ db' = Broken
  /\ UNCHANGED <<cur, recebuf, out, open, clientVars, cut, queue, up, down,
                 reply>>

Install ==
  /\ server = "install"
  /\ server' = "order"
  /\ db' = Fresh
  /\ cut' = FALSE
  /\ Answer(cur, <<Prompt>>)
  /\ UNCHANGED <<cur, recebuf, open, clientVars, queue, up, down>>

EndOfFile == client[cur] = "gone" /\ up[cur] = <<>>

\* Hangup, with < 0 for <= 0: the old order is carried out once more.
ServeAgain ==
  /\ Listening("order")
  /\ EndOfFile
  /\ UNCHANGED recebuf
  /\ db' = Effect(db, Order)
  /\ \E a \in Answers(db, Order) : Answer(cur, a)
  /\ UNCHANGED <<server, cur, open, clientVars, cut, queue, up, down>>

\* Hangup, without the close.
BreakOnly ==
  /\ Listening("order") \/ Listening("confirm")
  /\ EndOfFile
  /\ Leave("accept")
  /\ UNCHANGED <<open, recebuf, db, out, clientVars, cut, queue, up, down,
                 reply>>

Hangup ==
  /\ Listening("order") \/ Listening("confirm")
  /\ EndOfFile
  /\ Leave("accept")
  /\ open' = open \ {cur}
  /\ UNCHANGED <<recebuf, db, out, clientVars, cut, queue, up, down, reply>>

Restart ==
  /\ server = "down"
  /\ server' = "accept"
  /\ recebuf' \in Uninitialised
  /\ UNCHANGED <<cur, db, out, open, clientVars, cut, queue, up, down, reply>>

\* The server is killed between any two of its steps.
Crash ==
  /\ server # "down"
  /\ Die
  /\ cut' = (cut \/ server = "install")

(***************************************************************************)
(* A client                                                                *)
(***************************************************************************)
Become(c, from, to) == client[c] = from /\ client' = [client EXCEPT ![c] = to]

Connect(c) ==
  /\ IF server = "down"
     THEN Become(c, "off", "gone") /\ UNCHANGED queue
     ELSE Become(c, "off", "recv") /\ Len(queue) <= Backlog
          /\ queue' = Append(queue, c)
  /\ UNCHANGED <<serverVars, rbuf, screen, up, down, reply>>

\* One recv is taken for one frame; a first unit that is no header makes the
\* count so large that printing runs out of the buffer.
Show(c) ==
  /\ client[c] = "recv"
  /\ down[c] # <<>>
  /\ \E n \in Received(down[c]) :
       LET buf == Overlay(rbuf[c], SubSeq(down[c], 1, n))
           nn == buf[1].len
           nnn == IF nn >= MaxData THEN nn - MaxData ELSE nn
       IN /\ down' = [down EXCEPT ![c] = Rest(down[c], n)]
          /\ rbuf' = [rbuf EXCEPT ![c] = buf]
          /\ IF nn = -1
             THEN Become(c, "recv", "gone") /\ UNCHANGED screen
             ELSE /\ screen' = [screen EXCEPT ![c] =
                                  @ \o Words(SubSeq(buf, 2, nnn + 1))]
                  /\ Become(c, "recv", IF nn < MaxData THEN "type" ELSE "recv")
  /\ UNCHANGED <<serverVars, queue, up, reply>>

\* The server is gone and everything it sent has been read.
Disconnected(c) ==
  /\ ~Connected(c)
  /\ down[c] = <<>>
  /\ Become(c, "recv", "gone")
  /\ UNCHANGED <<serverVars, rbuf, screen, queue, up, down, reply>>

\* The client always sends all of its 512 bytes.
Message(order) == [i \in 1 .. MaxData |-> IF i <= 3 THEN order[i] ELSE Zeros]

Type(c, order) ==
  /\ Become(c, "type", "recv")
  /\ up' = [up EXCEPT ![c] = @ \o Message(order)]
  /\ screen' = [screen EXCEPT ![c] = <<>>]
  /\ UNCHANGED <<serverVars, rbuf, queue, down, reply>>

\* exit, spelled exactly: the client ends and sends nothing.
Quit(c) ==
  /\ Become(c, "type", "gone")
  /\ screen' = [screen EXCEPT ![c] = <<>>]
  /\ UNCHANGED <<serverVars, rbuf, queue, up, down, reply>>

\* The client is killed while it waits; a connection in the queue stays there.
Kill(c) ==
  /\ Become(c, "recv", "gone")
  /\ UNCHANGED <<serverVars, rbuf, screen, queue, up, down, reply>>

(***************************************************************************)
(* Specifications                                                          *)
(***************************************************************************)
ServerStep ==
  \/ Accept \/ Write \/ WriteToGone \/ Serve \/ SignOff \/ Confirm \/ Clear
  \/ Install \/ Hangup

ClientStep(c) == Show(c) \/ Disconnected(c)

Next ==
  \/ ServerStep
  \/ Restart
  \/ \E c \in Clients :
       \/ ClientStep(c) \/ Connect(c) \/ Quit(c) \/ Kill(c)
       \/ \E order \in Orders : Type(c, order)

Spec == Init /\ [][Next]_vars

\* The server's loop and the client's receive loop keep going.  Nobody has to
\* connect, to type or to leave, and a server that died need not come back.
Fairness == WF_vars(ServerStep) /\ \A c \in Clients : WF_vars(ClientStep(c))

CrashSpec == Init /\ [][Next \/ Crash]_vars /\ Fairness

(***************************************************************************)
(* Properties                                                              *)
(***************************************************************************)
TypeOK ==
  /\ server \in {"accept", "order", "confirm", "clear", "install", "bye", "down"}
  /\ cur \in Clients \cup {Nobody}
  /\ recebuf \in Seq(Vocabulary)
  /\ db \in Databases
  /\ out \in Seq(Seq(Units))
  /\ queue \in Seq(Clients)
  /\ open \in SUBSET Clients
  /\ client \in [Clients -> {"off", "recv", "type", "gone"}]
  /\ up \in [Clients -> Seq(Vocabulary)]
  /\ down \in [Clients -> Seq(Units)]
  /\ rbuf \in [Clients -> Seq(Units)]
  /\ screen \in [Clients -> Seq(Vocabulary)]
  /\ reply \in [Clients -> Seq(Vocabulary)]
  /\ cut \in BOOLEAN

\* A client that stops to read and prompts its user has printed the answer,
\* all of it and nothing else, though recv knows nothing of frames: because
\* every frame but the last fills a buffer and the server waits after it.
AnswerWhole ==
  \A c \in Clients : client[c] = "type" => screen[c] = reply[c]

\* Clients alone never leave the database without its root maps, whenever
\* they disconnect, even when that ends the server: only a kill from outside
\* in the middle of a reset does.  Any other command is one step here: what a
\* kill inside of one leaves in the blocks is the subject of Registry and
\* DbList, and a database that suffered there is not Broken in this sense.
DisconnectIsHarmless == db = Broken => server = "install" \/ cut

\* The descriptors the server holds are the current client's and those of
\* clients it said good bye to.
HeldConnections == \A c \in open \ {cur} : reply[c] = GoodBye

\* A client the server is talking to is never left waiting: it gets its
\* prompt, or learns that the connection is gone.  Only the one told good bye
\* is: it prompts for another command, which nobody will read.
Answered ==
  \A c \in Clients :
    (cur = c /\ server # "bye" /\ client[c] = "recv") ~> client[c] # "recv"

\* When the client being served has left or has been told good bye, the next
\* in the queue is served, or the server process has ended: the queue does not
\* wait for a client that is gone.  The end of the process, by a kill or by
\* SIGPIPE at a write to the client that left, is the only other way out, and
\* then everybody is refused until somebody starts the server again.
Abandoned == server = "bye" \/ (cur \in Clients /\ client[cur] = "gone")

ServerMovesOn ==
  \A next \in Clients :
    (Abandoned /\ queue # <<>> /\ Head(queue) = next)
      ~> (cur = next \/ server = "down")

\* Each session is a dialogue: answers follow their commands and a command is
\* carried out at most once, whichever of the steps above a kill of the server
\* or of a client falls between.  This is about the order of a session, not
\* about a command that is cut short, which is one step here: it counts as
\* carried out when the server has taken it from the stream, a confirmed reset
\* when the root maps are installed.
CutShort(c) == ~Connected(c) /\ down[c] = <<>> /\ up[c] = <<>> /\ reply[c] # <<>>

Resetting(c) == cur = c /\ server \in {"clear", "install"}

PhaseOf(c) ==
  IF client[c] = "off" THEN "away"
  ELSE IF client[c] = "type" THEN "ready"
  ELSE IF client[c] = "gone" \/ CutShort(c) THEN "left"
  ELSE IF up[c] # <<>> \/ Resetting(c) THEN "asking"
  ELSE IF reply[c] = <<>> THEN "away" ELSE "answered"

SaidBy(c) == IF up[c] # <<>> THEN SubSeq(up[c], 1, 3)
             ELSE IF Resetting(c) THEN Yes ELSE <<>>
HeardBy(c) == IF PhaseOf(c) = "left" THEN <<>> ELSE reply[c]
AskedNow == IF server \in {"confirm", "clear", "install"} THEN cur ELSE Nobody

Talk == INSTANCE Dialogue WITH
  phase <- [c \in Clients |-> PhaseOf(c)],
  said <- [c \in Clients |-> SaidBy(c)],
  heard <- [c \in Clients |-> HeardBy(c)],
  asked <- AskedNow

DialogueSpec == Talk!Spec

\* What client.md shows: after a command comes the answer to that command.
\* The order the server takes from its buffer is the one that was typed, all
\* of it: none is left in the stream.
OrderIsWhole == [][server = "order" /\ recebuf' # recebuf => up'[cur] = <<>>]_vars
=============================================================================
