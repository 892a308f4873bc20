------------------------------ MODULE SecretScans ------------------------------
(***************************************************************************)
(* The secret broker and the scan every outgoing text passes: the secrets  *)
(* file and the environment the broker reads, the redactor it compiles     *)
(* once per version of its secrets, the three stages of the outbound scan, *)
(* and the scan as a subscriber of the quarantined extraction.             *)
(*                                                                         *)
(* Sources: security/secrets.py, security/dlp.py,                          *)
(* security/_extract_dlp_subscriber.py.                                    *)
(*                                                                         *)
(* A text is the set of what matters in it: values of secrets, a string    *)
(* with the shape of an API key, a canary.  Scans run without an await, so *)
(* each is one step; the file, its reloads and the callers interleave.     *)
(***************************************************************************)
EXTENDS Naturals, FiniteSets

CONSTANTS Names,         \* SUPPORTED_SECRETS
          PreferFile,    \* _PREFER_FILE
          Values,        \* values a secret may have
          Unset,
          MaxPatterns,   \* MAX_REDACTOR_PATTERNS
          MaxReloads     \* bound: reloads

VARIABLES disk,        \* the secrets file: its state and its values
          env,         \* _env, copied at construction
          broker,      \* "none", "up" or "refused"
          fileSecrets, \* _file_secrets
          version,     \* _redactor_version
          cache,       \* _redactor_cache: its version and the values it matches
          matcher,     \* a canary matcher is wired into the scan
          subscriber,  \* the scan bound to the extraction's post chain
          draft,       \* a text on its way out
          left,        \* the text that left last
          told         \* what the last scan recorded

svars == <<disk, env, broker, fileSecrets, version, cache, matcher, subscriber, draft,
          left, told>>

Secrets == [Names -> Values \cup {Unset}]
Shapes == {"api key", "canary"}
Empty == [n \in Names |-> Unset]
NoCache == [version |-> 0, values |-> {}]

\* Malformed, unreadable, or open to others: one state, since each is refused alike.
Disks == [state : {"ok"}, values : Secrets] \cup [state : {"missing", "unusable"}, values : {Empty}]

Init ==
  /\ disk \in Disks
  /\ env \in Secrets
  /\ broker = "none"
  /\ fileSecrets = Empty
  /\ version = 1 /\ cache = NoCache
  /\ matcher \in BOOLEAN            \* the core's own scan is built without one
  /\ subscriber = "none"
  /\ draft = {} /\ left = {} /\ told = {}

Broker == <<broker, fileSecrets, version, cache>>
Bound == <<matcher, subscriber>>
Texts == <<draft, left, told>>

(***************************************************************************)
(* The broker.                                                             *)
(***************************************************************************)
\* A link, another owner, a directory, or a mode wider than the owner's is not usable.
_validate_secrets_file_security == disk.state # "unusable"

_load_toml_file == disk.values

\* A file inside a work tree of git is let through when it is the default one and ignored.
InsideWorkTree == {"refused", "up"}

\* Without a file the environment is all there is, unless the caller requires one.
Construct ==
  /\ broker = "none"
  /\ \/ /\ disk.state = "missing"
        /\ broker' \in {"up", "refused"}
        /\ UNCHANGED fileSecrets
     \/ /\ disk.state = "ok"
        /\ broker' \in InsideWorkTree
        /\ fileSecrets' = IF broker' = "up" THEN _load_toml_file ELSE Empty
     \/ /\ ~_validate_secrets_file_security
        /\ broker' = "refused"
        /\ UNCHANGED fileSecrets
  /\ UNCHANGED <<disk, env, version, cache, Bound, Texts>>

get(n) ==
  LET first == IF n \in PreferFile THEN fileSecrets[n] ELSE env[n]
      second == IF n \in PreferFile THEN env[n] ELSE fileSecrets[n]
  IN  IF first # Unset THEN first ELSE second

_known_with_values == {get(n) : n \in Names} \ {Unset}

\* Variant: new secrets under the version of the old ones.
ReloadUnversioned ==
  /\ broker = "up" /\ version < MaxReloads
  /\ fileSecrets' = IF disk.state = "ok" THEN disk.values ELSE Empty
  /\ UNCHANGED <<disk, env, broker, version, cache, Bound, Texts>>

\* A file that is gone leaves none; one that cannot be used leaves those there were.
reload ==
  /\ broker = "up" /\ version < MaxReloads
  /\ \/ disk.state = "missing" /\ fileSecrets' = Empty /\ version' = version + 1
     \/ disk.state = "ok" /\ fileSecrets' = _load_toml_file /\ version' = version + 1
     \/ ~_validate_secrets_file_security /\ UNCHANGED <<fileSecrets, version>>
  /\ UNCHANGED <<disk, env, broker, cache, Bound, Texts>>

\* At most MaxPatterns values, the longest; compiled again when the version has changed.
Compiled ==
  IF cache.version = version THEN cache
  ELSE [version |-> version, values |->
         IF Cardinality(_known_with_values) <= MaxPatterns THEN _known_with_values
         ELSE CHOOSE s \in SUBSET _known_with_values : Cardinality(s) = MaxPatterns]

redact(text) == text \ Compiled.values

Rotate ==
  /\ disk' \in Disks
  /\ UNCHANGED <<env, Broker, Bound, Texts>>

(***************************************************************************)
(* Texts on their way out.                                                 *)
(***************************************************************************)
\* `substitute` puts the value of an allowed name into the text; other items come with it.
Compose ==
  \E allowed \in SUBSET Names, shapes \in SUBSET Shapes :
    /\ broker = "up" /\ draft = {}
    /\ draft' = ({get(n) : n \in allowed} \ {Unset}) \cup shapes
    /\ draft' # {}
    /\ left' = {} /\ told' = {}
    /\ UNCHANGED <<disk, env, Broker, Bound>>

\* The stages that changed something, in their order.
StagesTriggered ==
  {s \in {"broker", "api_key_shape"} :
     \/ s = "broker" /\ redact(draft) # draft
     \/ s = "api_key_shape" /\ "api key" \in draft}

\* The canary is looked for in the text as it came, where a matcher is wired.
_scan_canary == matcher /\ "canary" \in draft

Redacted == redact(draft) \ {"api key"}

\* A redaction is recorded, then a canary, which raises.
_scan_stages ==
  /\ cache' = Compiled
  /\ told' = StagesTriggered \cup (IF _scan_canary THEN {"canary"} ELSE {})

scan_for_outbound ==
  /\ draft # {}
  /\ _scan_stages
  /\ left' = IF _scan_canary THEN left ELSE Redacted
  /\ draft' = {}
  /\ UNCHANGED <<disk, env, broker, fileSecrets, version, Bound>>

\* On the extraction a text the scan would change is refused instead.
ExtractScan ==
  /\ draft # {} /\ subscriber = "registered"
  /\ _scan_stages
  /\ left' = IF _scan_canary \/ Redacted # draft THEN left ELSE draft
  /\ draft' = {}
  /\ UNCHANGED <<disk, env, broker, fileSecrets, version, Bound>>

\* Bound once: again with the same scanner is nothing, denied by the gate is an error.
register_extract_dlp_subscriber ==
  /\ subscriber' \in {subscriber, "registered"}
  /\ UNCHANGED <<disk, env, matcher, Broker, Texts>>

Next ==
  \/ Rotate \/ Construct \/ reload
  \/ Compose \/ scan_for_outbound \/ ExtractScan \/ register_extract_dlp_subscriber

Spec == Init /\ [][Next]_svars

-------------------------------------------------------------------------------
\* No text leaves with a value the broker would hand out at that moment, with the shape of a
\* key or, where a matcher is wired, with a canary, whichever reloads lie between the
\* compilation of the redactor and the scan.
LeavesClean ==
  left' # left =>
    /\ left' \cap (_known_with_values \cup {"api key"}) = {}
    /\ matcher => "canary" \notin left'

\* Every step keeps the secrets of that moment from a text that leaves (scan_for_outbound,
\* reload).
CurrentSecretsStay == [][LeavesClean]_svars

\* A redactor of the current version matches every current value, and nothing is compiled
\* or drafted before the broker is up.
RedactorInv ==
  /\ version \in Nat \ {0} /\ cache.version \in Nat /\ cache.version <= version
  /\ cache.version = version => cache.values = _known_with_values
  /\ broker = "none" => cache.version = 0
  /\ broker # "up" => draft = {}
===============================================================================
