-------------------------- MODULE EventPolicyProofs --------------------------
(***************************************************************************)
(* Proofs about Configuration and EventPolicy, for any contents of the     *)
(* files, any environment, any settings, groups and events.                *)
(***************************************************************************)
EXTENDS EventPolicy, TLAPS

-----------------------------------------------------------------------------
(* Inductive strengthening                                                   *)

(* What is known of the files that were tried in vain: with one edit at most *)
(* and a readable file at every moment, the third try is never in vain.      *)
SearchInv ==
  /\ edits \in Nat
  /\ phase = "reading" /\ kept => Readable(files)
  /\ phase = "reading" /\ kept /\ edits = 0 =>
       tried <= 1 /\ (tried = 1 => files[Yaml] \notin Contents)
  /\ phase = "reading" /\ kept /\ edits = 1 =>
       tried <= 2 /\ (tried = 2 => files[Yml] \notin Contents)

SettledInv == phase = "running" => cfg = OverrideWithEnv(IF got \in Contents THEN got.given ELSE Nothing)

ParsedInv == phase = "running" /\ got \in Contents => got.parses

ConfigInv ==
  /\ ConfigTypeOK /\ SearchInv /\ SettledInv /\ ParsedInv
  /\ phase = "reading" => got \notin Contents /\ tried < 4
  /\ FoundUnderEdit

-----------------------------------------------------------------------------
(* Configuration                                                             *)

LEMMA PathsFacts ==
  /\ Len(ConfigPaths) = 4
  /\ ConfigPaths[1] = Yaml /\ ConfigPaths[2] = Yml
  /\ ConfigPaths[3] = Yaml /\ ConfigPaths[4] = Yml
BY DEF ConfigPaths

LEMMA ConfigStart == ConfigInit => ConfigInv
<1> SUFFICES ASSUME ConfigInit PROVE ConfigInv
  OBVIOUS
<1>1. Absent \notin Contents
  BY ConfigurationAssumption
<1>2. ConfigTypeOK
  BY <1>1, ConfigurationAssumption DEF ConfigInit, ConfigTypeOK
<1> QED
  BY <1>1, <1>2 DEF ConfigInit, ConfigInv, SearchInv, SettledInv, ParsedInv, FoundUnderEdit

LEMMA ReadStep == ConfigInv /\ Read => ConfigInv'
<1> SUFFICES ASSUME ConfigInv, Read PROVE ConfigInv'
  OBVIOUS
<1>1. /\ phase = "reading" /\ tried \in 0 .. 3 /\ got \notin Contents
      /\ files \in [Names -> Contents \cup {Absent, Denied}]
      /\ tried' = tried + 1 /\ got' = files[ConfigPaths[tried + 1]]
      /\ phase' = IF got' \in Contents \/ tried' = 4 THEN "read" ELSE "reading"
      /\ UNCHANGED <<files, env, cfg, edits, kept>>
  BY PathsFacts DEF ConfigInv, ConfigTypeOK, Read
<1>2. /\ tried \in {0, 2} => got' = files[Yaml]
      /\ tried \in {1, 3} => got' = files[Yml]
      /\ tried \in {0, 1, 2, 3}
  BY <1>1, PathsFacts
<1>3. got' \in Contents \cup {Absent, Denied}
  BY <1>1, <1>2 DEF Names
<1>4. ConfigTypeOK'
  BY <1>1, <1>3 DEF ConfigInv, ConfigTypeOK
<1>5. Readable(files) => files[Yaml] \in Contents \/ files[Yml] \in Contents
  BY DEF Readable, Names
<1>6. SearchInv' /\ FoundUnderEdit'
  <2>1. ASSUME kept, edits = 0, got' \notin Contents
        PROVE  tried' = 1 /\ files[Yaml] \notin Contents
    BY <1>1, <1>2, <1>5, <2>1 DEF ConfigInv, SearchInv
  <2>2. ASSUME kept, edits = 1, got' \notin Contents
        PROVE  tried' <= 2 /\ (tried' = 2 => files[Yml] \notin Contents)
    BY <1>1, <1>2, <1>5, <2>2 DEF ConfigInv, SearchInv
  <2>3. edits \in Nat /\ (kept => Readable(files)) /\ edits' = edits /\ files' = files /\ kept' = kept
    BY <1>1 DEF ConfigInv, SearchInv
  <2>4. phase' = "reading" => got' \notin Contents
    BY <1>1
  <2>5. SearchInv'
    BY <2>1, <2>2, <2>3, <2>4 DEF SearchInv, Readable
  <2>6. kept /\ edits <= 1 /\ got' \notin Contents => phase' = "reading"
    <3>1. edits <= 1 => edits = 0 \/ edits = 1
      BY <2>3
    <3>2. kept /\ edits <= 1 /\ got' \notin Contents => tried' # 4
      BY <2>1, <2>2, <3>1
    <3> QED
      BY <1>1, <3>2
  <2> QED
    BY <2>3, <2>5, <2>6 DEF FoundUnderEdit
<1>7. SettledInv' /\ ParsedInv'
  BY <1>1 DEF SettledInv, ParsedInv
<1>8. phase' = "reading" => got' \notin Contents /\ tried' < 4
  BY <1>1
<1> QED
  BY <1>4, <1>6, <1>7, <1>8 DEF ConfigInv

LEMMA LoadStep == ConfigInv /\ Load => ConfigInv'
<1> SUFFICES ASSUME ConfigInv, Load PROVE ConfigInv'
  OBVIOUS
<1>1. /\ phase = "read" /\ phase' \in {"running", "dead"}
      /\ UNCHANGED <<files, env, tried, got, edits, kept>>
      /\ phase' = "running" =>
           \/ got \in Contents /\ got.parses /\ cfg' = OverrideWithEnv(got.given)
           \/ got = Absent /\ cfg' = OverrideWithEnv(Nothing)
      /\ phase' = "dead" => cfg' = cfg
  BY DEF Load, NoFile
<1>2. Absent \notin Contents /\ Absent # Denied /\ Denied \notin Contents
  BY ConfigurationAssumption
<1>3. DOMAIN cfg' = Settings
  <2>1. \A given : DOMAIN OverrideWithEnv(given) = Settings
    BY DEF OverrideWithEnv
  <2> QED
    BY <1>1, <2>1 DEF ConfigInv, ConfigTypeOK
<1>4. ConfigTypeOK'
  BY <1>1, <1>2, <1>3 DEF ConfigInv, ConfigTypeOK
<1>5. SettledInv' /\ ParsedInv'
  <2> SUFFICES ASSUME phase' = "running" PROVE SettledInv' /\ ParsedInv'
    BY DEF SettledInv, ParsedInv
  <2>1. /\ cfg' = OverrideWithEnv(IF got \in Contents THEN got.given ELSE Nothing)
        /\ got \in Contents => got.parses
    BY <1>1, <1>2
  <2> QED
    BY <1>1, <2>1 DEF SettledInv, ParsedInv, OverrideWithEnv, Usable
<1> QED
  BY <1>1, <1>4, <1>5 DEF ConfigInv, SearchInv, FoundUnderEdit

LEMMA EditStep == ConfigInv /\ Edit => ConfigInv'
<1> SUFFICES ASSUME ConfigInv, Edit PROVE ConfigInv'
  OBVIOUS
<1>1. /\ phase = "reading" /\ edits' = edits + 1 /\ edits \in Nat
      /\ kept' = (kept /\ Readable(files'))
      /\ UNCHANGED <<env, phase, tried, got, cfg>>
  BY DEF Edit, ConfigInv, SearchInv
<1>2. files' \in [Names -> Contents \cup {Absent, Denied}]
  BY DEF Edit, ConfigInv, ConfigTypeOK
<1>3. ConfigTypeOK'
  BY <1>1, <1>2 DEF ConfigInv, ConfigTypeOK
<1>4. kept' => kept /\ Readable(files')
  BY <1>1
<1>5. edits' = 1 => edits = 0
  BY <1>1
<1>6. edits' # 0
  BY <1>1
<1>7. SearchInv'
  <2>1. tried \in Nat
    BY DEF ConfigInv, ConfigTypeOK
  <2>2. kept' /\ edits' = 1 => tried <= 1
    BY <1>1, <1>4, <1>5 DEF ConfigInv, SearchInv
  <2> QED
    BY <1>1, <1>4, <1>6, <2>1, <2>2 DEF SearchInv, Readable
<1> QED
  BY <1>1, <1>3, <1>7 DEF ConfigInv, SettledInv, ParsedInv, FoundUnderEdit

LEMMA ConfigStep == ConfigInv /\ (ConfigNext \/ UNCHANGED configVars) => ConfigInv'
<1> SUFFICES ASSUME ConfigInv, ConfigNext \/ UNCHANGED configVars PROVE ConfigInv'
  OBVIOUS
<1>1. CASE StartFails
  BY <1>1 DEF StartFails, ConfigInv, ConfigTypeOK, SearchInv, SettledInv, ParsedInv, FoundUnderEdit
<1>2. CASE UNCHANGED configVars
  BY <1>2 DEF configVars, ConfigInv, ConfigTypeOK, SearchInv, SettledInv, ParsedInv,
     FoundUnderEdit, Readable, OverrideWithEnv, Usable
<1> QED
  BY <1>1, <1>2, ReadStep, LoadStep, EditStep DEF ConfigNext

LEMMA PrecedenceFollows == ConfigInv => Precedence
<1> SUFFICES ASSUME ConfigInv, phase = "running" PROVE Precedence
  BY DEF Precedence
<1> DEFINE given == IF got \in Contents THEN got.given ELSE Nothing
           fallback(s) == IF got \in Contents /\ got.given[s] # Unset THEN got.given[s] ELSE Defaults[s]
<1>1. cfg = OverrideWithEnv(given) /\ (got \in Contents => got.parses)
  BY DEF ConfigInv, SettledInv, ParsedInv
<1>2. ASSUME NEW s \in Settings
      PROVE  /\ ~Usable(s) => cfg[s] = fallback(s)
             /\ Usable(s) /\ KindOf[s] = "flag" => cfg[s] = (env[s] = TRUE)
             /\ Usable(s) /\ KindOf[s] # "flag" => cfg[s] = env[s]
  <2>1. (IF given[s] # Unset THEN given[s] ELSE Defaults[s]) = fallback(s)
    BY DEF Nothing
  <2> HIDE DEF given, fallback
  <2> QED
    BY <1>1, <2>1 DEF OverrideWithEnv
<1>3. \A s \in Settings : KindOf[s] \in Kinds
  BY ConfigurationAssumption
<1>4. ASSUME NEW s \in Settings
      PROVE  CASE KindOf[s] = "file" \/ env[s] = Unset  -> cfg[s] = fallback(s)
               [] KindOf[s] = "flag" /\ env[s] = Junk   -> cfg[s] = FALSE
               [] env[s] = Junk /\ KindOf[s] \in {"number", "positive"} -> cfg[s] = fallback(s)
               [] KindOf[s] = "positive" /\ env[s] = 0  -> cfg[s] = fallback(s)
               [] OTHER                                 -> cfg[s] = env[s]
  <2>1. /\ Junk # Unset /\ Junk # TRUE /\ KindOf[s] \in Kinds
        /\ \/ env[s] \in {Unset, Junk}
           \/ KindOf[s] \in {"text", "file"}
           \/ KindOf[s] \in {"number", "positive"} /\ env[s] \in Nat
           \/ KindOf[s] = "flag" /\ env[s] = TRUE
    BY <1>3, ConfigurationAssumption DEF ConfigInv, ConfigTypeOK
  <2> HIDE DEF fallback, given
  <2>2. CASE KindOf[s] = "flag"
    BY <1>2, <2>1, <2>2 DEF Usable
  <2>3. CASE KindOf[s] = "file"
    BY <1>2, <2>1, <2>3 DEF Usable
  <2>4. CASE KindOf[s] = "text"
    BY <1>2, <2>1, <2>4 DEF Usable
  <2>5. CASE KindOf[s] = "number"
    BY <1>2, <2>1, <2>5 DEF Usable
  <2>6. CASE KindOf[s] = "positive"
    <3>1. CASE env[s] \in {Unset, Junk}
      BY <1>2, <2>1, <2>6, <3>1 DEF Usable
    <3>2. CASE env[s] \notin {Unset, Junk}
      <4>1. env[s] \in Nat
        BY <2>1, <2>6, <3>2
      <4>2. Usable(s) <=> env[s] # 0
        BY <2>6, <3>2, <4>1 DEF Usable
      <4> QED
        BY <1>2, <2>6, <3>2, <4>2
    <3> QED
      BY <3>1, <3>2
  <2> QED
    BY <2>1, <2>2, <2>3, <2>4, <2>5, <2>6 DEF Kinds
<1> QED
  BY <1>1, <1>4 DEF Precedence

-----------------------------------------------------------------------------
(* The chain                                                                 *)

(* What the passing of the rules so far tells, and what a refusal tells; the *)
(* configuration stays the one that was loaded, also when the process ends.  *)
Loaded == OverrideWithEnv(IF got \in Contents THEN got.given ELSE Nothing)

ChainInv ==
  /\ verdict = "judging" => event # NoEvent
  /\ event # NoEvent => cfg = Loaded
  /\ event # NoEvent /\ verdict = "judging" /\ event.group \in groups => lived
  /\ event # NoEvent /\ rule > 6 /\ event.kind \notin {9007, External} =>
       event.group # NoGroup /\ lived
  /\ event # NoEvent /\ rule > 13 => ~Unwanted(event)
  /\ event # NoEvent /\ verdict = "refused" /\ event.kind = External =>
       rule \notin {2, 6, 9, 12} /\ (rule = 13 => Unwanted(event))

(* PolicyTypeOK, with the length of the chain.                               *)
ChainTypeInv ==
  /\ ConfigTypeOK
  /\ groups \subseteq Groups
  /\ event \in Events \cup {NoEvent}
  /\ rule \in 1 .. 14
  /\ verdict \in {"judging", "accepted", "refused"}
  /\ lived \in BOOLEAN
  /\ verdict = "refused" => rule <= 13
  /\ verdict = "accepted" /\ event # NoEvent => rule = 14
  /\ event # NoEvent => phase \in {"running", "dead"}

PolicyInv == ConfigInv /\ ChainTypeInv /\ ChainInv

LEMMA Thirteen == Len(RejectEvent) = 13
BY DEF RejectEvent

LEMMA RuleFacts ==
  /\ RejectEvent[2] = "group rules" /\ RejectEvent[6] = "h tag" /\ RejectEvent[9] = "kinds"
  /\ RejectEvent[12] = "20284" /\ RejectEvent[13] = "20285"
BY DEF RejectEvent

LEMMA OtherRules ==
  ASSUME NEW r \in 1 .. 13
  PROVE  /\ r \notin {2, 6, 9, 12} =>
              RejectEvent[r] \notin {"group rules", "h tag", "kinds", "20284"}
         /\ r # 13 => RejectEvent[r] # "20285"
<1>1. r \in {1, 2, 3, 4, 5, 6, 7, 8, 9, 10, 11, 12, 13}
  OBVIOUS
<1>2. /\ RejectEvent[1] = "recent" /\ RejectEvent[3] = "moderation"
      /\ RejectEvent[4] = "deleted" /\ RejectEvent[5] = "previous"
      /\ RejectEvent[7] = "large tags" /\ RejectEvent[8] = "indexable tags"
      /\ RejectEvent[10] = "past" /\ RejectEvent[11] = "future"
  BY DEF RejectEvent
<1> QED
  BY <1>1, <1>2, RuleFacts

(* What the rules this module is about look at.                              *)
LEMMA ByRule ==
  ASSUME NEW e
  PROVE  /\ Rejects("h tag", e) <=> WithoutGroup(e)
         /\ Rejects("20284", e) <=> Foreign(e)
         /\ Rejects("20285", e) <=> Unwanted(e)
         /\ Rejects("kinds", e) <=> ~Listed(e.kind) /\ ~Ephemeral(e.kind)
         /\ ~Rejects("group rules", e)
BY DEF Rejects

(* relay29 has no say in the rules of this program.                          *)
LEMMA OwnRules ==
  ASSUME NEW e
  PROVE  /\ ~MayReject("h tag", e) /\ ~MayReject("kinds", e)
         /\ ~MayReject("20284", e) /\ ~MayReject("20285", e)
BY DEF MayReject

LEMMA PassedRule ==
  ASSUME NEW r, NEW e, ~Rejects(RejectEvent[r], e)
  PROVE  /\ r = 6 => ~WithoutGroup(e)
         /\ r = 13 => ~Unwanted(e)
BY RuleFacts, ByRule, Zenon

(* The rules that make an exception of kind 20285, or are about other kinds. *)
Indifferent(e) ==
  \A name \in {"group rules", "h tag", "kinds", "20284"} :
    ~Rejects(name, e) /\ ~MayReject(name, e)

LEMMA SparedByRules ==
  ASSUME NEW e, ~WithoutGroup(e), ~Foreign(e), Listed(e.kind)
  PROVE  /\ ~Rejects("group rules", e) /\ ~Rejects("h tag", e)
         /\ ~Rejects("kinds", e) /\ ~Rejects("20284", e)
BY ByRule, Zenon

LEMMA ExternalPasses == ASSUME NEW e, e.kind = External PROVE Indifferent(e)
<1>1. ~WithoutGroup(e) /\ ~Foreign(e) /\ Listed(e.kind)
  BY DEF WithoutGroup, Foreign, Listed, External, Forwarded
<1>2. ~MayReject("group rules", e)
  BY DEF MayReject
<1>3. /\ ~Rejects("group rules", e) /\ ~Rejects("h tag", e)
      /\ ~Rejects("kinds", e) /\ ~Rejects("20284", e)
  BY <1>1, SparedByRules
<1>4. ASSUME NEW name \in {"group rules", "h tag", "kinds", "20284"}
      PROVE  ~Rejects(name, e) /\ ~MayReject(name, e)
  BY <1>2, <1>3, <1>4, OwnRules, Zenon
<1> QED
  BY <1>4 DEF Indifferent

LEMMA RefusedRule ==
  ASSUME NEW r, NEW e, Indifferent(e),
         Rejects(RejectEvent[r], e) \/ MayReject(RejectEvent[r], e)
  PROVE  r \notin {2, 6, 9, 12} /\ (r = 13 => Unwanted(e))
<1>1. RejectEvent[r] \notin {"group rules", "h tag", "kinds", "20284"}
  BY DEF Indifferent
<1>2. r \notin {2, 6, 9, 12}
  BY <1>1, RuleFacts, Zenon
<1>3. r = 13 => Unwanted(e)
  BY OwnRules, RuleFacts, ByRule, Zenon
<1> QED
  BY <1>2, <1>3

LEMMA ChainTypes == ChainTypeInv => PolicyTypeOK
BY Thirteen DEF ChainTypeInv, PolicyTypeOK

LEMMA PolicyStart == PolicyInit => PolicyInv
<1> SUFFICES ASSUME PolicyInit PROVE PolicyInv
  OBVIOUS
<1>1. ConfigInv
  BY ConfigStart DEF PolicyInit
<1>2. ChainTypeInv
  <2>1. ConfigTypeOK /\ rule = 1 /\ verdict = "accepted" /\ event = NoEvent /\ groups \subseteq Groups
    BY <1>1 DEF PolicyInit, ConfigInv
  <2>2. lived \in BOOLEAN
    BY DEF PolicyInit
  <2> QED
    BY <2>1, <2>2 DEF ChainTypeInv
<1> QED
  BY <1>1, <1>2 DEF PolicyInit, PolicyInv, ChainInv

(* The rules and the readings of the configuration in a step that leaves the *)
(* configuration as it is.                                                   *)
LEMMA SameConfiguration ==
  ASSUME UNCHANGED configVars
  PROVE  /\ ConfigInv => ConfigInv'
         /\ ConfigTypeOK => ConfigTypeOK'
         /\ \A e : Foreign(e)' <=> Foreign(e)
         /\ \A e : Unwanted(e)' <=> Unwanted(e)
         /\ cfg' = cfg /\ got' = got /\ phase' = phase
         /\ Loaded' = Loaded
<1>1. ConfigInv => ConfigInv'
  BY ConfigStep
<1>2. /\ ConfigTypeOK => ConfigTypeOK'
      /\ cfg' = cfg /\ got' = got /\ phase' = phase
  BY DEF configVars, ConfigTypeOK
<1>3. \A e : (Foreign(e)' <=> Foreign(e)) /\ (Unwanted(e)' <=> Unwanted(e))
  BY <1>2 DEF Foreign, Unwanted
<1>4. Loaded' = Loaded
  BY DEF configVars, Loaded, OverrideWithEnv, Usable
<1> QED
  BY <1>1, <1>2, <1>3, <1>4

LEMMA NothingYet == ASSUME event' = NoEvent, ~(verdict' = "judging") PROVE ChainInv'
BY DEF ChainInv

LEMMA ConfigurationMoves ==
  PolicyInv /\ ConfigNext /\ UNCHANGED <<groups, event, rule, verdict, lived>> => PolicyInv'
<1> SUFFICES ASSUME PolicyInv, ConfigNext, UNCHANGED <<groups, event, rule, verdict, lived>>
             PROVE  PolicyInv'
  OBVIOUS
<1>1. ConfigInv'
  BY ConfigStep DEF PolicyInv
<1>2. event # NoEvent => StartFails
  BY DEF PolicyInv, ChainTypeInv, ConfigNext, Read, Load, Edit
<1>3. ChainTypeInv'
  BY <1>1, <1>2 DEF PolicyInv, ChainTypeInv, ConfigInv, StartFails
<1>4. CASE event = NoEvent
  <2>1. event' = NoEvent /\ ~(verdict' = "judging")
    BY <1>4 DEF PolicyInv, ChainInv
  <2> QED
    BY <1>1, <1>3, <2>1, NothingYet DEF PolicyInv
<1>5. CASE event # NoEvent
  <2>1. cfg' = cfg /\ got' = got /\ env' = env
    BY <1>2, <1>5 DEF StartFails
  <2>2. Loaded' = Loaded
    BY <2>1 DEF Loaded, OverrideWithEnv, Usable
  <2>3. (Foreign(event)' <=> Foreign(event)) /\ (Unwanted(event)' <=> Unwanted(event))
    BY <2>1 DEF Foreign, Unwanted
  <2> HIDE DEF Loaded
  <2> QED
    BY <1>1, <1>2, <1>3, <1>5, <2>1, <2>2, <2>3 DEF PolicyInv, ChainInv, StartFails
<1> QED
  BY <1>1, <1>3, <1>4, <1>5 DEF PolicyInv

LEMMA ArriveStep == ASSUME NEW e \in Events, PolicyInv, Arrive(e) PROVE PolicyInv'
<1>1. /\ phase = "running" /\ event' = e /\ rule' = 1 /\ verdict' = "judging"
      /\ (lived' <=> e.group \in groups) /\ lived' \in BOOLEAN /\ groups' = groups /\ UNCHANGED configVars
      /\ event' # NoEvent
  <2>1. e # NoEvent
    BY PolicyAssumption
  <2>2. event' = e
    BY DEF Arrive
  <2>3. event' # NoEvent
    BY <2>1, <2>2
  <2>4. lived' = (e.group \in groups)
    BY DEF Arrive
  <2>5. (lived' <=> e.group \in groups) /\ lived' \in BOOLEAN
    <3>1. lived' \in BOOLEAN
      BY <2>4
    <3>2. lived' => e.group \in groups
      BY <2>4, Zenon
    <3>3. e.group \in groups => lived'
      BY <2>4, Zenon
    <3> QED
      BY <3>1, <3>2, <3>3
  <2> QED
    BY <2>2, <2>3, <2>5 DEF Arrive
<1>2. ChainTypeInv'
  BY <1>1, SameConfiguration DEF PolicyInv, ChainTypeInv
<1>3. cfg' = Loaded'
  <2>1. phase = "running" => cfg = Loaded
    BY DEF PolicyInv, ConfigInv, SettledInv, Loaded
  <2> QED
    BY <1>1, <2>1, SameConfiguration
<1>4. ChainInv'
  BY <1>1, <1>3 DEF ChainInv
<1> QED
  BY <1>1, <1>2, <1>4, SameConfiguration DEF PolicyInv

LEMMA PassStep == PolicyInv /\ Pass => PolicyInv'
<1> SUFFICES ASSUME PolicyInv, Pass PROVE PolicyInv'
  OBVIOUS
<1>1. /\ phase = "running" /\ verdict = "judging" /\ rule \in 1 .. 13 /\ rule' = rule + 1
      /\ event # NoEvent /\ ~Rejects(RejectEvent[rule], event)
      /\ UNCHANGED <<configVars, groups, event, verdict, lived>>
  BY Thirteen DEF Pass, PolicyInv, ChainTypeInv, ChainInv
<1>2. ChainTypeInv'
  BY <1>1, SameConfiguration DEF PolicyInv, ChainTypeInv
<1>3. cfg' = Loaded'
  BY <1>1, SameConfiguration DEF PolicyInv, ChainInv
<1>4. rule = 6 /\ event.kind \notin {9007, External} => event.group # NoGroup /\ event.group \in groups
  <2>1. rule = 6 => ~WithoutGroup(event)
    BY <1>1, PassedRule
  <2> QED
    BY <2>1 DEF WithoutGroup
<1>5. rule' > 6 /\ event.kind \notin {9007, External} => event.group # NoGroup /\ lived
  BY <1>1, <1>4 DEF PolicyInv, ChainInv
<1>7. ASSUME rule' > 13 PROVE ~Unwanted(event)
  <2>1. rule = 13
    BY <1>1, <1>7
  <2> QED
    BY <1>1, <2>1, PassedRule
<1>8. event.group \in groups => lived
  BY <1>1 DEF PolicyInv, ChainInv
<1>9. ChainInv'
  BY <1>1, <1>3, <1>5, <1>7, <1>8, SameConfiguration DEF ChainInv
<1> QED
  BY <1>1, <1>2, <1>9, SameConfiguration DEF PolicyInv

LEMMA RefuseStep == PolicyInv /\ Refuse => PolicyInv'
<1> SUFFICES ASSUME PolicyInv, Refuse PROVE PolicyInv'
  OBVIOUS
<1>1. /\ phase = "running" /\ verdict = "judging" /\ rule \in 1 .. 13 /\ verdict' = "refused"
      /\ event # NoEvent
      /\ Rejects(RejectEvent[rule], event) \/ MayReject(RejectEvent[rule], event)
      /\ UNCHANGED <<configVars, groups, event, rule, lived>>
  BY Thirteen DEF Refuse, PolicyInv, ChainTypeInv, ChainInv
<1>2. ChainTypeInv'
  BY <1>1, SameConfiguration DEF PolicyInv, ChainTypeInv
<1>3. event.kind = External =>
        rule \notin {2, 6, 9, 12} /\ (rule = 13 => Unwanted(event))
  BY <1>1, RefusedRule, ExternalPasses
<1>4. ChainInv'
  BY <1>1, <1>3, SameConfiguration DEF PolicyInv, ChainInv
<1> QED
  BY <1>1, <1>2, <1>4, SameConfiguration DEF PolicyInv

LEMMA AcceptStep == PolicyInv /\ Accept => PolicyInv'
<1> SUFFICES ASSUME PolicyInv, Accept PROVE PolicyInv'
  OBVIOUS
<1>1. /\ phase = "running" /\ verdict = "judging" /\ rule = 14 /\ verdict' = "accepted"
      /\ event # NoEvent /\ groups' = Applied(event)
      /\ UNCHANGED <<configVars, event, rule, lived>>
  BY Thirteen DEF Accept, PolicyInv, ChainInv
<1>2. groups' \subseteq Groups
  BY <1>1 DEF Applied, PolicyInv, ChainTypeInv
<1>3. ChainTypeInv'
  BY <1>1, <1>2, SameConfiguration DEF PolicyInv, ChainTypeInv
<1>4. ChainInv'
  BY <1>1, SameConfiguration DEF PolicyInv, ChainInv
<1> QED
  BY <1>1, <1>3, <1>4, SameConfiguration DEF PolicyInv

LEMMA ElsewhereStep == PolicyInv /\ Elsewhere => PolicyInv'
<1> SUFFICES ASSUME PolicyInv, Elsewhere PROVE PolicyInv'
  OBVIOUS
<1>1. /\ groups' \subseteq Groups /\ UNCHANGED <<configVars, event, rule, verdict>>
      /\ lived' <=> lived \/ (event # NoEvent /\ event.group \in groups')
      /\ lived' \in BOOLEAN
  BY DEF Elsewhere, PolicyInv, ChainTypeInv
<1>2. ChainTypeInv'
  BY <1>1, SameConfiguration DEF PolicyInv, ChainTypeInv
<1>3. ChainInv'
  BY <1>1, SameConfiguration DEF PolicyInv, ChainInv
<1> QED
  BY <1>1, <1>2, <1>3, SameConfiguration DEF PolicyInv

LEMMA PolicyStep == PolicyInv /\ [PolicyNext]_policyVars => PolicyInv'
<1> SUFFICES ASSUME PolicyInv, [PolicyNext]_policyVars PROVE PolicyInv'
  OBVIOUS
<1>1. CASE UNCHANGED policyVars
  BY <1>1, SameConfiguration DEF policyVars, PolicyInv, ChainTypeInv, ChainInv
<1> QED
  BY <1>1, ConfigurationMoves, ArriveStep, PassStep, RefuseStep, AcceptStep, ElsewhereStep
  DEF PolicyNext

-----------------------------------------------------------------------------
(* What follows from the invariant                                           *)

(* The file alone says who is trusted: neither setting can be overridden.    *)
LEMMA UnwantedIsUntrusted ==
  ASSUME PolicyInv, event # NoEvent, event.kind = External
  PROVE  Unwanted(event) <=> ~Trusted(event.author)
<1> DEFINE from == IF got \in Contents THEN got.given ELSE Nothing
           given(s) == IF got \in Contents /\ got.given[s] # Unset THEN got.given[s] ELSE Defaults[s]
<1>1. \A s \in Settings : (IF from[s] # Unset THEN from[s] ELSE Defaults[s]) = given(s)
  BY DEF Nothing
<1>2. cfg = OverrideWithEnv(from)
  BY DEF PolicyInv, ChainInv, Loaded
<1>3. /\ "whitelist" \in Settings /\ ~Usable("whitelist")
      /\ "reject_all" \in Settings /\ ~Usable("reject_all")
  BY PolicyAssumption DEF Usable
<1>4. cfg["whitelist"] = given("whitelist") /\ cfg["reject_all"] = given("reject_all")
  <2> HIDE DEF from, given
  <2> QED
    BY <1>1, <1>2, <1>3 DEF OverrideWithEnv
<1>5. Trusted(event.author) <=>
        ~given("reject_all") /\ (given("whitelist") = {} \/ event.author \in given("whitelist"))
  BY DEF Trusted
<1> HIDE DEF given
<1> QED
  BY <1>4, <1>5 DEF Unwanted

LEMMA Consequences ==
  PolicyInv => ExternalAccess /\ GroupEventsHaveGroup
<1> SUFFICES ASSUME PolicyInv
             PROVE  ExternalAccess /\ GroupEventsHaveGroup
  OBVIOUS
<1>1. event # NoEvent /\ verdict = "accepted" => rule = 14
  BY DEF PolicyInv, ChainTypeInv
<1>2. ExternalAccess
  <2> SUFFICES
        ASSUME event # NoEvent, event.kind = External
        PROVE  /\ verdict = "accepted" => Trusted(event.author)
               /\ verdict = "refused" =>
                    /\ RejectEvent[rule] \notin {"group rules", "h tag", "kinds", "20284"}
                    /\ RejectEvent[rule] = "20285" => ~Trusted(event.author)
    BY DEF ExternalAccess
  <2>1. Unwanted(event) <=> ~Trusted(event.author)
    BY UnwantedIsUntrusted
  <2>2. verdict = "accepted" => ~Unwanted(event)
    BY <1>1 DEF PolicyInv, ChainInv
  <2>3. verdict = "refused" =>
          rule \in 1 .. 13 /\ rule \notin {2, 6, 9, 12} /\ (rule = 13 => Unwanted(event))
    BY DEF PolicyInv, ChainTypeInv, ChainInv
  <2>4. verdict = "refused" =>
          /\ RejectEvent[rule] \notin {"group rules", "h tag", "kinds", "20284"}
          /\ RejectEvent[rule] = "20285" => rule = 13
    BY <2>3, OtherRules
  <2> QED
    BY <2>1, <2>2, <2>3, <2>4
<1>3. GroupEventsHaveGroup
  BY <1>1 DEF GroupEventsHaveGroup, PolicyInv, ChainInv
<1> QED
  BY <1>2, <1>3

-----------------------------------------------------------------------------

LEMMA PolicyInvariant == PolicySpec => []PolicyInv
BY PolicyStart, PolicyStep, PTL DEF PolicySpec

(* Every state of the start, and of the chain, is of the types stated: an    *)
(* event is judged only by a process that has a configuration, and ReadFile's*)
(* other errors never end in a running process.                              *)
THEOREM PolicyTypeCorrect == PolicySpec => []PolicyTypeOK
<1>1. PolicyInv => PolicyTypeOK
  BY ChainTypes DEF PolicyInv
<1> QED
  BY <1>1, PolicyInvariant, PTL

(* A file that can be read at every moment of the search is found in spite   *)
(* of one rename or rewrite, which loadFromYAML's repeated names achieve.    *)
THEOREM FoundCorrect == PolicySpec => []FoundUnderEdit
<1>1. PolicyInv => FoundUnderEdit
  BY DEF PolicyInv, ConfigInv
<1> QED
  BY <1>1, PolicyInvariant, PTL

(* A running process has each setting from the environment if usable there,  *)
(* else from one file, else from Load's defaults.                            *)
THEOREM PrecedenceCorrect == PolicySpec => []Precedence
<1>1. PolicyInv => Precedence
  BY PrecedenceFollows DEF PolicyInv
<1> QED
  BY <1>1, PolicyInvariant, PTL

(* Kind 20285 is taken from those the file trusts, and refused to them only  *)
(* by rules about the event itself.                                          *)
THEOREM ExternalAccessCorrect == PolicySpec => []ExternalAccess
BY Consequences, PolicyInvariant, PTL

(* What is saved for a group is from a time when the group existed.          *)
THEOREM GroupEventsCorrect == PolicySpec => []GroupEventsHaveGroup
BY Consequences, PolicyInvariant, PTL

=============================================================================
