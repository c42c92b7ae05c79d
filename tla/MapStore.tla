------------------------------ MODULE MapStore ------------------------------
(***************************************************************************)
(* What db_map promises: each map is a partial function from keys to       *)
(* values.  add never overwrites, update never inserts, and what a call    *)
(* answers is what the map holds.                                          *)
(***************************************************************************)
CONSTANTS Maps, Keys, Values,
          NONE        \* the answer -1: no such key

VARIABLES contents,   \* the maps that exist: name -> (key -> value)
          did         \* the last call and its answer

vars == <<contents, did>>

TypeOK ==
  /\ DOMAIN contents \subseteq Maps
  /\ \A m \in DOMAIN contents :
       /\ DOMAIN contents[m] \subseteq Keys
       /\ \A k \in DOMAIN contents[m] : contents[m][k] \in Values

Idle == <<"none">>

Init == contents = <<>> /\ did = Idle

\* One more argument; a value that f has already stays.
With(f, k, v) ==
  [j \in DOMAIN f \cup {k} |-> IF j \in DOMAIN f THEN f[j] ELSE v]

Become(m, f) == contents' = [contents EXCEPT ![m] = f]

Create(m) ==
  /\ did' = <<"create", m>>
  /\ m \notin DOMAIN contents
  /\ contents' = With(contents, m, <<>>)

Add(m, k, v) ==
  /\ did' = <<"add", m, k, v>>
  /\ Become(m, With(contents[m], k, v))

Drop(m, k) ==
  /\ did' = <<"drop", m, k>>
  /\ Become(m, [j \in DOMAIN contents[m] \ {k} |-> contents[m][j]])

Update(m, k, v) ==
  \/ /\ did' = <<"update", m, k, v>>
     /\ k \in DOMAIN contents[m]
     /\ Become(m, [contents[m] EXCEPT ![k] = v])
  \/ /\ did' = <<"update", m, k, NONE>>
     /\ k \notin DOMAIN contents[m]
     /\ UNCHANGED contents

Get(m, k) ==
  /\ did'[1] = "get"
  /\ did' = <<"get", m, k,
              IF k \in DOMAIN contents[m] THEN contents[m][k] ELSE NONE>>
  /\ UNCHANGED contents

Clear(m) == did' = <<"clear", m>> /\ Become(m, <<>>)

Release(m) ==
  /\ did' = <<"release", m>>
  /\ contents' = [n \in DOMAIN contents \ {m} |-> contents[n]]

Next ==
  \/ \E m \in Maps : Create(m)
  \/ \E m \in DOMAIN contents :
       \/ \E k \in Keys :
            \/ \E v \in Values : Add(m, k, v) \/ Update(m, k, v)
            \/ Drop(m, k)
            \/ Get(m, k)
       \/ Clear(m)
       \/ Release(m)

Spec == Init /\ [][Next]_vars
=============================================================================
