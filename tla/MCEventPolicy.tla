--------------------------- MODULE MCEventPolicy ---------------------------
(* TLC instance of EventPolicy: a setting of each kind, three contents of    *)
(* the files and four environments.                                          *)
EXTENDS EventPolicy

CONSTANTS g1, friend, stranger, relay, key, empty

OneOfEach == {"relay_private_key", "push_rate_limit", "lmdb_map_size", "silent_push",
              "whitelist", "reject_all"}

OneKind ==
  [s \in OneOfEach |->
     CASE s = "relay_private_key" -> "text"
       [] s = "push_rate_limit"   -> "number"
       [] s = "lmdb_map_size"     -> "positive"
       [] s = "silent_push"       -> "flag"
       [] OTHER                   -> "file"]

Setting(k, limit, size, silent, list, all) ==
  [s \in OneOfEach |->
     CASE s = "relay_private_key" -> k
       [] s = "push_rate_limit"   -> limit
       [] s = "lmdb_map_size"     -> size
       [] s = "silent_push"       -> silent
       [] s = "whitelist"         -> list
       [] s = "reject_all"        -> all]

InLoad == Setting(empty, 10, 20, FALSE, {}, FALSE)

OneFiles ==
  {[parses |-> TRUE,
    given |-> Setting(key, 30, Unset, TRUE, {friend}, Unset)],
   [parses |-> TRUE,
    given |-> Setting(Unset, Unset, 5, Unset, {friend}, TRUE)],
   [parses |-> FALSE,
    given |-> Setting(key, Unset, Unset, Unset, Unset, Unset)]}

OneEnvironments ==
  {Setting(Unset, Unset, Unset, Unset, Unset, Unset),
   Setting(key, 7, 0, TRUE, Unset, Unset),
   Setting(Junk, Junk, Junk, Junk, Unset, Unset)}

OneKeyOf == [k \in {key} |-> relay]

OneEvents ==
  {[kind |-> 9007, group |-> g1, author |-> friend, tags |-> "few", age |-> "now"],
   [kind |-> 9008, group |-> g1, author |-> friend, tags |-> "few", age |-> "now"],
   [kind |-> 9002, group |-> NoGroup, author |-> friend, tags |-> "few", age |-> "now"],
   [kind |-> 9021, group |-> g1, author |-> stranger, tags |-> "large tags", age |-> "now"],
   [kind |-> 1, group |-> g1, author |-> friend, tags |-> "few", age |-> "now"],
   [kind |-> 20284, group |-> g1, author |-> relay, tags |-> "few", age |-> "now"],
   [kind |-> 20284, group |-> g1, author |-> stranger, tags |-> "few", age |-> "now"],
   [kind |-> 20285, group |-> NoGroup, author |-> friend, tags |-> "few", age |-> "now"],
   [kind |-> 20285, group |-> NoGroup, author |-> stranger, tags |-> "few", age |-> "now"],
   [kind |-> 20285, group |-> g1, author |-> friend, tags |-> "few", age |-> "past"]}

=============================================================================
