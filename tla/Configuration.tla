--------------------------- MODULE Configuration ---------------------------
(***************************************************************************)
(* How a process gets its configuration (internal/config/config.go): the   *)
(* search for a file, while somebody may be replacing the files, the       *)
(* defaults under it and the environment over it.  Both servers' main      *)
(* functions load it once and end when that fails.                         *)
(*                                                                         *)
(* A setting stands for all that are treated alike:                        *)
(*   number    getEnvInt and the duration: used only if it parses          *)
(*   positive  LMDB_MAP_SIZE: used only if it parses and is above zero     *)
(*   text      used unless it is empty                                     *)
(*   flag      TRUE for "true" and FALSE for any other text                *)
(*   file      has no environment variable                                 *)
(***************************************************************************)
EXTENDS Naturals, Sequences

CONSTANTS
  Yaml, Yml,     \* the two file names
  Absent,        \* os.ReadFile: the file does not exist
  Denied,        \* os.ReadFile: any other error
  Contents,      \* what the files may hold: [parses, given]
  Settings,      \* names of the settings
  KindOf,        \* setting -> its kind
  Defaults,      \* setting -> its value in Load
  Unset,         \* a setting that a file or the environment does not give
  Junk,          \* a text that is no number and is not "true"
  Environments,  \* the environments a process may start in
  MaxEdits       \* bound of the model: changes of the files

Names == {Yaml, Yml}

Kinds == {"number", "positive", "text", "flag", "file"}

ASSUME ConfigurationAssumption ==
  /\ Yaml # Yml
  /\ Absent \notin Contents /\ Denied \notin Contents /\ Absent # Denied
  /\ KindOf \in [Settings -> Kinds]
  /\ DOMAIN Defaults = Settings
  /\ \A c \in Contents : c.parses \in BOOLEAN /\ DOMAIN c.given = Settings
  /\ Junk # Unset /\ Junk # TRUE
  /\ \A e \in Environments : DOMAIN e = Settings
  /\ \A e \in Environments, s \in Settings :
       \/ e[s] \in {Unset, Junk}
       \/ KindOf[s] \in {"text", "file"}
       \/ KindOf[s] \in {"number", "positive"} /\ e[s] \in Nat
       \/ KindOf[s] = "flag" /\ e[s] = TRUE
  /\ MaxEdits \in Nat

VARIABLES
  files,   \* what each name holds
  env,     \* the environment of the process
  phase,   \* reading, read, running or dead
  tried,   \* how many names were tried
  got,     \* what the last ReadFile returned
  cfg,     \* the configuration
  edits,   \* number of changes of the files so far
  kept     \* history: a file could be read at every moment of the search

configVars == <<files, env, phase, tried, got, cfg, edits, kept>>

Readable(f) == \E n \in Names : f[n] \in Contents

ConfigTypeOK ==
  /\ files \in [Names -> Contents \cup {Absent, Denied}]
  /\ env \in Environments
  /\ phase \in {"reading", "read", "running", "dead"}
  /\ tried \in 0 .. 4
  /\ got \in Contents \cup {Absent, Denied}
  /\ DOMAIN cfg = Settings
  /\ phase = "running" => got # Denied
  /\ got \in Contents => phase # "reading" /\ tried > 0

ConfigInit ==
  /\ files \in [Names -> Contents \cup {Absent, Denied}]
  /\ env \in Environments
  /\ phase = "reading" /\ tried = 0 /\ got = Absent
  /\ cfg = Defaults
  /\ edits = 0 /\ kept = Readable(files)

-----------------------------------------------------------------------------
(* Plausible slips in the code, each the mutated form of a definition below. *)

NamesOnce == <<Yaml, Yml>>

FileOverEnvironment(given) ==
  [s \in Settings |->
     IF given[s] # Unset THEN given[s]
     ELSE IF env[s] # Unset /\ env[s] # Junk THEN env[s] ELSE Defaults[s]]

AnyError == got \notin Contents

-----------------------------------------------------------------------------
(* loadFromYAML                                                              *)

(* The last two are the first two written with "./".                         *)
ConfigPaths == <<Yaml, Yml, Yaml, Yml>>

(* os.ReadFile of the next name; the first that can be read ends the search. *)
Read ==
  /\ phase = "reading"
  /\ tried' = tried + 1
  /\ got' = files[ConfigPaths[tried']]
  /\ phase' = IF got' \in Contents \/ tried' = Len(ConfigPaths) THEN "read" ELSE "reading"
  /\ UNCHANGED <<files, env, cfg, edits, kept>>

(* The error of the last name decides, whatever the others were.             *)
NoFile == got = Absent

-----------------------------------------------------------------------------
(* Load                                                                      *)

Usable(s) ==
  /\ env[s] # Unset
  /\ KindOf[s] # "file"
  /\ KindOf[s] \in {"number", "positive"} => env[s] # Junk
  /\ KindOf[s] = "positive" => env[s] > 0

OverrideWithEnv(given) ==
  [s \in Settings |->
     IF Usable(s) THEN (IF KindOf[s] = "flag" THEN env[s] = TRUE ELSE env[s])
     ELSE IF given[s] # Unset THEN given[s] ELSE Defaults[s]]

Nothing == [s \in Settings |-> Unset]

(* A file that does not parse, or cannot be read, ends the process.          *)
Load ==
  /\ phase = "read"
  /\ \/ got \in Contents /\ got.parses
        /\ cfg' = OverrideWithEnv(got.given) /\ phase' = "running"
     \/ NoFile
        /\ cfg' = OverrideWithEnv(Nothing) /\ phase' = "running"
     \/ ~NoFile /\ (got \in Contents => ~got.parses)
        /\ cfg' = cfg /\ phase' = "dead"
  /\ UNCHANGED <<files, env, tried, got, edits, kept>>

(* NewServer of either server may fail: the database, ...                    *)
StartFails ==
  /\ phase = "running"
  /\ phase' = "dead"
  /\ UNCHANGED <<files, env, tried, got, cfg, edits, kept>>

-----------------------------------------------------------------------------
(* Somebody writes, removes, protects or renames a file during the search.   *)

Edit ==
  /\ phase = "reading" /\ edits < MaxEdits
  /\ \/ \E n \in Names, x \in Contents \cup {Absent, Denied} :
          files' = [files EXCEPT ![n] = x]
     \/ \E n, m \in Names :
          n # m /\ files' = [files EXCEPT ![m] = files[n], ![n] = Absent]
  /\ edits' = edits + 1
  /\ kept' = (kept /\ Readable(files'))
  /\ UNCHANGED <<env, phase, tried, got, cfg>>

ConfigNext == Read \/ Load \/ StartFails \/ Edit

-----------------------------------------------------------------------------
(* Properties                                                                *)

(* A file that is there all the time is found although it is renamed, or     *)
(* written anew under the other name, while the process looks for it: this   *)
(* is what trying both names twice is good for.                              *)
FoundUnderEdit == (phase # "reading" /\ kept /\ edits <= 1) => got \in Contents

(* A running process has each of its settings from the environment if it is  *)
(* usable there, else from one file, read as a whole, else from Load; only a *)
(* flag is switched off by an environment nobody could mean.                 *)
Precedence ==
  phase = "running" =>
    /\ got \in Contents => got.parses
    /\ \A s \in Settings :
         LET fallback == IF got \in Contents /\ got.given[s] # Unset
                           THEN got.given[s] ELSE Defaults[s]
         IN
         CASE KindOf[s] = "file" \/ env[s] = Unset  -> cfg[s] = fallback
           [] KindOf[s] = "flag" /\ env[s] = Junk   -> cfg[s] = FALSE
           [] env[s] = Junk /\ KindOf[s] \in {"number", "positive"} -> cfg[s] = fallback
           [] KindOf[s] = "positive" /\ env[s] = 0  -> cfg[s] = fallback
           [] OTHER                                 -> cfg[s] = env[s]

=============================================================================
