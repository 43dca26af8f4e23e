---------------------------- MODULE EventPolicy ----------------------------
(***************************************************************************)
(* Which events the subscription server takes (NewServer of                *)
(* internal/subscription/server.go): the chain of RejectEvent functions    *)
(* that khatru calls one after the other for the event of a connection,    *)
(* under the configuration the process has loaded.  Groups come and go     *)
(* with the events of other connections while the chain runs.  The events  *)
(* the processor forwards are broadcast and do not pass the chain.         *)
(*                                                                         *)
(* relay29's own rules are external: they may refuse what they are asked.  *)
(***************************************************************************)
EXTENDS Configuration

CONSTANTS
  Events,     \* what clients send: [kind, group, author, tags, age]
  Groups,     \* group ids
  NoGroup,    \* no h tag
  KeyOf,      \* the public key of each relay_private_key that has one
  NoEvent     \* the connection has sent nothing yet

ASSUME PolicyAssumption ==
  /\ {"relay_private_key", "whitelist", "reject_all"} \subseteq Settings
  /\ KindOf["whitelist"] = "file" /\ KindOf["reject_all"] = "file"
  /\ NoGroup \notin Groups
  /\ \A e \in Events : e.kind \in Nat /\ e.group \in Groups \cup {NoGroup}
  /\ NoEvent \notin Events

VARIABLES
  groups,    \* relay29: the groups that exist
  event,     \* the event of the connection
  rule,      \* the place in the chain it is at
  verdict,   \* judging, accepted or refused; the rule says by which
  lived      \* history: its group existed at some moment since it came

policyVars == <<configVars, groups, event, rule, verdict, lived>>

Forwarded == 20284   \* what the processor makes of a match
External  == 20285   \* events to be matched against all groups

(* NewServer's chain, by what each function looks at.                        *)
RejectEvent ==
  <<"recent", "group rules", "moderation", "deleted", "previous", "h tag", "large tags",
    "indexable tags", "kinds", "past", "future", "20284", "20285">>

PolicyTypeOK ==
  /\ ConfigTypeOK
  /\ groups \subseteq Groups
  /\ event \in Events \cup {NoEvent}
  /\ rule \in 1 .. Len(RejectEvent) + 1
  /\ verdict \in {"judging", "accepted", "refused"}
  /\ lived \in BOOLEAN
  /\ verdict = "refused" => rule <= Len(RejectEvent)
  /\ verdict = "accepted" /\ event # NoEvent => rule = Len(RejectEvent) + 1
  /\ event # NoEvent => phase \in {"running", "dead"}

PolicyInit ==
  /\ ConfigInit
  /\ groups \in SUBSET Groups
  /\ event = NoEvent /\ rule = 1 /\ verdict = "accepted" /\ lived = FALSE

-----------------------------------------------------------------------------
(* Plausible slips in the code, each the mutated form of a definition below. *)

WithoutGroupBut20284(e) ==
  e.kind \notin {Forwarded, External}
    /\ (e.group = NoGroup \/ (e.kind # 9007 /\ e.group \notin groups))

WhitelistOnly(e) == e.kind = External /\ e.author \notin cfg["whitelist"] /\ cfg["whitelist"] # {}

-----------------------------------------------------------------------------
(* The rules                                                                 *)

(* requireHTagForExistingGroupExcept20285                                    *)
WithoutGroup(e) ==
  e.kind # External /\ (e.group = NoGroup \/ (e.kind # 9007 /\ e.group \notin groups))

Listed(kind) == kind \in 9000 .. 9009 \cup {9021, 9022, Forwarded, External}

Ephemeral(kind) == kind \in 20000 .. 29999

(* prevent20284FromExternalSources: without a usable key nobody is internal. *)
Foreign(e) ==
  e.kind = Forwarded
    /\ (cfg["relay_private_key"] \in DOMAIN KeyOf => e.author # KeyOf[cfg["relay_private_key"]])

(* prevent20285FromNonWhitelistedPubkeys                                     *)
Unwanted(e) ==
  e.kind = External
    /\ (cfg["reject_all"] \/ (cfg["whitelist"] # {} /\ e.author \notin cfg["whitelist"]))

Rejects(r, e) ==
  \/ r = "h tag" /\ WithoutGroup(e)
  \/ r = "large tags" /\ e.tags = r
  \/ r = "indexable tags" /\ e.tags = r /\ e.kind # 9005
  \/ r = "kinds" /\ ~Listed(e.kind) /\ ~Ephemeral(e.kind)
  \/ r \in {"past", "future"} /\ e.age = r
  \/ r = "20284" /\ Foreign(e)
  \/ r = "20285" /\ Unwanted(e)

(* What relay29 may refuse; its group rules are not asked about kind 20285.  *)
MayReject(r, e) ==
  r \in {"recent", "moderation", "deleted", "previous"} \/ (r = "group rules" /\ e.kind # External)

-----------------------------------------------------------------------------
(* A connection of a running server                                          *)

Arrive(e) ==
  /\ phase = "running" /\ verdict # "judging"
  /\ event' = e /\ rule' = 1 /\ verdict' = "judging"
  /\ lived' = (e.group \in groups)
  /\ UNCHANGED <<configVars, groups>>

(* The rule lets the event pass ...                                          *)
Pass ==
  /\ phase = "running" /\ verdict = "judging" /\ rule <= Len(RejectEvent)
  /\ ~Rejects(RejectEvent[rule], event)
  /\ rule' = rule + 1
  /\ UNCHANGED <<configVars, groups, event, verdict, lived>>

(* ... or ends the chain.                                                    *)
Refuse ==
  /\ phase = "running" /\ verdict = "judging" /\ rule <= Len(RejectEvent)
  /\ Rejects(RejectEvent[rule], event) \/ MayReject(RejectEvent[rule], event)
  /\ verdict' = "refused"
  /\ UNCHANGED <<configVars, groups, event, rule, lived>>

(* Past the chain the event is saved, or handled if it is ephemeral; relay29 *)
(* applies what moderators ask for.                                          *)
Applied(e) ==
  IF e.group \notin Groups THEN groups
  ELSE IF e.kind = 9007 THEN groups \cup {e.group}
  ELSE IF e.kind = 9008 THEN groups \ {e.group}
  ELSE groups

Accept ==
  /\ phase = "running" /\ verdict = "judging" /\ rule = Len(RejectEvent) + 1
  /\ verdict' = "accepted"
  /\ groups' = Applied(event)
  /\ UNCHANGED <<configVars, event, rule, lived>>

(* Another connection's event creates or deletes a group.                    *)
Elsewhere ==
  /\ phase = "running"
  /\ \E g \in Groups : groups' \in {groups \cup {g}, groups \ {g}}
  /\ groups' # groups
  /\ lived' = (lived \/ (event # NoEvent /\ event.group \in groups'))
  /\ UNCHANGED <<configVars, event, rule, verdict>>

-----------------------------------------------------------------------------

PolicyNext ==
  \/ ConfigNext /\ UNCHANGED <<groups, event, rule, verdict, lived>>
  \/ \E e \in Events : Arrive(e)
  \/ Pass \/ Refuse \/ Accept \/ Elsewhere

PolicySpec == PolicyInit /\ [][PolicyNext]_policyVars

-----------------------------------------------------------------------------
(* Properties                                                                *)

(* External events: who may send them is what the file says that was found,  *)
(* everybody if none was, whatever the environment; and nobody who may is    *)
(* refused for want of a group or for the kind, which have to be excepted in *)
(* several places of the chain.                                              *)
Trusted(author) ==
  LET given(s) == IF got \in Contents /\ got.given[s] # Unset THEN got.given[s] ELSE Defaults[s]
  IN ~given("reject_all") /\ (given("whitelist") = {} \/ author \in given("whitelist"))

ExternalAccess ==
  event # NoEvent /\ event.kind = External =>
    /\ verdict = "accepted" => Trusted(event.author)
    /\ verdict = "refused" =>
         /\ RejectEvent[rule] \notin {"group rules", "h tag", "kinds", "20284"}
         /\ RejectEvent[rule] = "20285" => ~Trusted(event.author)

(* What is saved in a group's name, other than its creation, is from a time  *)
(* when the group existed, however late in the chain that is asked and       *)
(* whatever other connections create and delete meanwhile.                   *)
GroupEventsHaveGroup ==
  event # NoEvent /\ verdict = "accepted" /\ event.kind \notin {9007, External} =>
    event.group # NoGroup /\ lived

=============================================================================
