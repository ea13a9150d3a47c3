--------------------------- MODULE KeyValueStore ---------------------------
(***************************************************************************)
(* What the configuration store promises its users: the last value saved    *)
(* under each tag is the one they read, a save happens at once or not at    *)
(* all, and a power failure keeps everything or leaves an empty store.      *)
(***************************************************************************)
CONSTANTS Tags, Values, NoValue

VARIABLES
  kept,   \* what survives a power failure
  view    \* what a user reads, or Down while there is no user

Nothing == [t \in Tags |-> NoValue]
Down == [t \in {} |-> NoValue]

Init == kept = Nothing /\ view = Down

Boot ==
  /\ view = Down
  /\ view' = kept
  /\ UNCHANGED kept

Put(t, v) ==
  /\ view # Down
  /\ kept' = [kept EXCEPT ![t] = v]
  /\ view' = [view EXCEPT ![t] = v]

Fail ==
  /\ view' = Down
  /\ kept' \in {kept, Nothing}

Next == Boot \/ Fail \/ \E t \in Tags, v \in Values : Put(t, v)

Spec == Init /\ [][Next]_<<kept, view>>
=============================================================================
