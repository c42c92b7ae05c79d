----------------------------- MODULE Commands -----------------------------
(***************************************************************************)
(* The commands of server.cpp as operators: what one does to the database  *)
(* and what it may answer.  A command is the three words of an order: the  *)
(* verb, a name, and the zeros that follow in the 512 bytes.  The database *)
(* is the set of its maps, and for each map whether it holds the one key   *)
(* that add, delete, update and get speak of; what a map does with more    *)
(* keys is DbMap's subject.  The commands on lists are alike and left out. *)
(***************************************************************************)
EXTENDS FiniteSets, SequencesExt

CONSTANTS Names,      \* names of maps
          Verbs,      \* verbs the clients use
          Broken      \* a database between clear_all_nodes and install

Named == {"create", "drop", "add", "delete", "update", "size", "get"}
Zeros == ""
Command(verb, name) == <<verb, name, Zeros>>

Orders == {Command(v, n) : v \in Verbs \cap Named, n \in Names}
            \cup {Command(v, Zeros) : v \in Verbs \ Named}

Reset == Command("reset", Zeros)
Yes == Command("y", Zeros)
Exit == Command("exit", Zeros)        \* typed with a blank behind it

Prompt == ">>"
Question == <<"reset", "the database?", "[y/n]">>
GoodBye == <<"Good", "Bye~">>

\* The words of all orders and answers.
Vocabulary ==
  Names \cup Verbs \cup
    {Zeros, Prompt, "junk", "map", "not exist", "value", "0", "1",
     "reset", "the database?", "[y/n]", "Good", "Bye~"}

Fresh == <<>>
Installed == UNION {[D -> BOOLEAN] : D \in SUBSET Names}
Databases == {Broken} \cup Installed

ASSUME CommandsAssumption ==
  /\ IsFiniteSet(Names)
  /\ Broken \notin Installed

\* What create, drop, add and delete make of the maps.
Created(db, name) ==
  [n \in DOMAIN db \cup {name} |-> IF n \in DOMAIN db THEN db[n] ELSE FALSE]
Without(db, name) == [n \in DOMAIN db \ {name} |-> db[n]]
Added(db, name) == [db EXCEPT ![name] = TRUE]
Deleted(db, name) == [db EXCEPT ![name] = FALSE]

\* What an order leaves behind.  A name that does not exist changes nothing.
Effect(db, order) ==
  LET name == order[2] IN
  IF db = Broken THEN db ELSE
  CASE order[1] = "create" -> Created(db, name)
    [] order[1] = "drop" -> Without(db, name)
    [] order[1] = "add" /\ name \in DOMAIN db -> Added(db, name)
    [] order[1] = "delete" /\ name \in DOMAIN db -> Deleted(db, name)
    [] OTHER -> db

\* What show db map, size map and get print; get of a missing key prints a
\* variable that was never set.
Listed(db) == SetToSeq(DOMAIN db)
NotExist == <<"map", "not exist">>
Sized(db, name) == <<IF db[name] THEN "1" ELSE "0">>
Got(db, name) == IF db[name] THEN {<<"value">>} ELSE {<<"value">>, <<"junk">>}

\* The lines before the prompt.  A broken database prints whatever its blocks
\* hold.
Lines(db, order) ==
  LET name == order[2] IN
  IF db = Broken THEN {<<>>, <<"junk">>} ELSE
  CASE order[1] = "show" -> {Listed(db)}
    [] order[1] \in Named \ {"create", "drop"} /\ name \notin DOMAIN db -> {NotExist}
    [] order[1] = "size" /\ name \in DOMAIN db -> {Sized(db, name)}
    [] order[1] = "get" /\ name \in DOMAIN db -> Got(db, name)
    [] OTHER -> {<<>>}

Answers(db, order) ==
  CASE order = Reset -> {Question}
    [] order[1] = "exit" -> {GoodBye}
    [] OTHER -> {Append(l, Prompt) : l \in Lines(db, order)}
=============================================================================
