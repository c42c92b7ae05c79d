------------------------------ MODULE Dialogue ------------------------------
(***************************************************************************)
(* What a person at a client may rely on.  A command is carried out once,  *)
(* between the moment it is typed and the moment its answer can be read    *)
(* (or later, or never, if the client has left by then), and the answer    *)
(* read is the answer to that command.  Only a plain y as the very next    *)
(* command after reset empties the database.                               *)
(***************************************************************************)
EXTENDS Commands

CONSTANTS Clients,
          Nobody

VARIABLES db,
          phase,     \* where each client is
          said,      \* the command a client waits for
          heard,     \* the last answer given to a client
          asked      \* the client last asked whether to reset, or Nobody

vars == <<db, phase, said, heard, asked>>

Phases == {"away", "ready", "asking", "answered", "left"}
Silence == <<>>

Init ==
  /\ db = Fresh
  /\ phase = [c \in Clients |-> "away"]
  /\ said = [c \in Clients |-> Silence]
  /\ heard = [c \in Clients |-> Silence]
  /\ asked = Nobody

Goto(c, from, to) == phase[c] = from /\ phase' = [phase EXCEPT ![c] = to]

Tell(c, answer) == heard' = [heard EXCEPT ![c] = answer]

Greet(c) ==
  /\ Goto(c, "away", "answered")
  /\ Tell(c, <<Prompt>>)
  /\ UNCHANGED <<db, said, asked>>

Ask(c, order) ==
  /\ Goto(c, "ready", "asking")
  /\ said' = [said EXCEPT ![c] = order]
  /\ UNCHANGED <<db, heard, asked>>

\* A command is carried out even if its client has left by then.
Do(c) ==
  /\ said[c] # Silence
  /\ said' = [said EXCEPT ![c] = Silence]
  /\ \E answer \in IF asked = c THEN {<<Prompt>>} ELSE Answers(db, said[c]) :
       IF phase[c] = "left"
       THEN UNCHANGED <<phase, heard>>
       ELSE Goto(c, "asking", "answered") /\ Tell(c, answer)
  /\ IF asked = c
     THEN /\ db' = IF said[c] = Yes THEN Fresh ELSE db
          /\ asked' = Nobody
     ELSE /\ db' = Effect(db, said[c])
          /\ asked' = IF said[c] = Reset THEN c ELSE Nobody

Read(c) == Goto(c, "answered", "ready") /\ UNCHANGED <<db, said, heard, asked>>

\* A client, or its connection, goes away: its command may be lost, and the
\* question it was asked may be withdrawn.
Leave(c) ==
  /\ phase[c] # "left"
  /\ phase' = [phase EXCEPT ![c] = "left"]
  /\ Tell(c, Silence)
  /\ said' \in {said, [said EXCEPT ![c] = Silence]}
  /\ asked' \in {asked, Nobody}
  /\ UNCHANGED db

\* The server that asked the question is gone.
Withdraw ==
  /\ asked # Nobody
  /\ asked' = Nobody
  /\ said' \in {said} \cup {[said EXCEPT ![c] = Silence] :
                              c \in {d \in Clients : phase[d] = "left"}}
  /\ UNCHANGED <<db, phase, heard>>

\* A confirmed reset first takes everything away.  If it gets no further the
\* database stays broken until a reset does.
Wipe(c) ==
  /\ asked = c
  /\ said[c] = Yes
  /\ db' = Broken
  /\ UNCHANGED <<phase, said, heard, asked>>

Next ==
  \/ \E c \in Clients :
       \/ Greet(c) \/ Do(c) \/ Read(c) \/ Leave(c) \/ Wipe(c)
       \/ \E order \in Orders : Ask(c, order)
  \/ Withdraw

Spec == Init /\ [][Next]_vars
=============================================================================
