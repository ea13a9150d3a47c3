--------------------------- MODULE MCConfigStore ---------------------------
(* Instances of ConfigStore for TLC: two tags, records of 2 and 3 halfwords *)
(* in pages of 7, so that a page holds two short records or a long one.     *)
EXTENDS ConfigStore

TwoTags == {"iq", "model"}
Lengths == [t \in TwoTags |-> IF t = "iq" THEN 2 ELSE 3]
OneTag == {"iq"}
OneLength == [t \in OneTag |-> 2]

Careful == {}
PowerCuts == {"cut"}
Erasing == {"erase"}
=============================================================================
