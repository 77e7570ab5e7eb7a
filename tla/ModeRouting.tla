---------------------------- MODULE ModeRouting ----------------------------
(***************************************************************************)
(* From the field that has the focus to the inferencer that is asked:      *)
(*   field_detector.rs (macOS, Windows)  what the system says -> FieldClass *)
(*   field/focus_watcher.rs              the class of the last focus change *)
(*   inference/mode.rs                   ModeManager, InputMode             *)
(*   inference/override_manager.rs       the user's temporary override      *)
(*   inference/dispatcher.rs, builder.rs mode -> inferencer                 *)
(* Any thread may report a focus change; the watcher classifies outside    *)
(* its lock.  Nothing in these crates calls the parts together but the     *)
(* tests; a request does here what those do (tests/nf032_integration.rs,   *)
(* tests/p5_e2e_integration.rs), with any of the three ways to resolve a   *)
(* mode.                                                                   *)
(***************************************************************************)
EXTENDS Integers

CONSTANTS
  Fields,      \* what the system may tell about the field with the focus
  Watchers,    \* threads that report focus changes
  SetModes,    \* modes the user sets or overrides with
  Durations,   \* lengths of temporary overrides
  Configured,  \* the dispatcher's optional inferencers: "workers", "llm"
  Lengths,     \* characters of a reading
  Threshold,   \* threshold_t, in tokens
  MaxTime      \* bound: the clock

Modes == {"Privacy", "Performance", "Pro", "Ollama", "Hybrid"}
FieldClasses == {"Sensitive", "NonSensitive", "Unknown"}
NoMode == "none"     \* override_mode: None
Never == -1          \* expires_at: None
Idle == [class |-> "none", stays |-> FALSE]   \* a watcher that is classifying nothing

ASSUME ModesAssumption == SetModes \subseteq Modes
ASSUME TimesAssumption == Durations \subseteq Nat /\ MaxTime \in Nat
ASSUME LengthsAssumption == Lengths \subseteq Nat /\ Threshold \in Nat

VARIABLES
  field,        \* the field with the focus, as the system describes it
  watched,      \* FocusWatcher.current
  classifying,  \* per watcher: the class it is about to store, and whether
                \* (history) the focus has stayed where it was
  settled,      \* history: the last class stored was that of the present field
  current,      \* ModeManager.current
  sensitive,    \* ModeManager.sensitive_override
  override,     \* OverrideManager: override_mode
  expires,      \* OverrideManager: expires_at
  now           \* Instant::now()

focusVars == <<field, watched, classifying, settled>>
modeVars == <<current, sensitive, override, expires, now>>
routingVars == <<focusVars, modeVars>>

-----------------------------------------------------------------------------
(* Field classes *)

\* classify_focused_element: no permission, no element and no role are unknown.
ClassifyElement(f) ==
  CASE ~f.trusted -> "Unknown"
    [] f.trusted /\ f.role = "AXSecureTextField" -> "Sensitive"
    [] f.trusted /\ f.role \in {"AXTextField", "AXTextArea"} -> "NonSensitive"
    [] OTHER -> "Unknown"

\* classify_scopes: IS_PASSWORD and IS_CREDITCARDNUMBER; a query that fails
\* counts as no scope.
ClassifyScopes(scopes) ==
  CASE scopes = {} -> "Unknown"
    [] scopes \cap {76, 79} # {} -> "Sensitive"
    [] OTHER -> "NonSensitive"

Class(f) == IF f.os = "macos" THEN ClassifyElement(f) ELSE ClassifyScopes(f.scopes)

-----------------------------------------------------------------------------
(* Modes *)

\* ModeManager::mode.
Mode == IF sensitive THEN "Privacy" ELSE current

\* from_config_file: what cannot be read or is no mode is the default.
ModeFrom(text) == IF text \in Modes THEN text ELSE "Privacy"

\* Fault: of the classes only the sensitive one is protected.
EffectiveMode_UnknownIsOpen(focus, base) ==
  CASE base # "Hybrid" -> base
    [] base = "Hybrid" /\ focus # "Sensitive" -> "Performance"
    [] OTHER -> "Privacy"

EffectiveMode(focus, base) ==
  CASE base # "Hybrid" -> base
    [] base = "Hybrid" /\ focus = "NonSensitive" -> "Performance"
    [] OTHER -> "Privacy"

Overridden == override # NoMode /\ (expires = Never \/ now < expires)

EffectiveModeWithOverride(focus, base) ==
  IF Overridden THEN override ELSE EffectiveMode(focus, base)

\* Fault: the override comes before the protection, as in the variant above.
Secure_OverrideFirst(focus, base) == EffectiveModeWithOverride(focus, base)

\* effective_mode_with_override_secure.
Secure(focus, base) ==
  IF focus \in {"Sensitive", "Unknown"} THEN "Privacy"
  ELSE EffectiveModeWithOverride(focus, base)

Ways == {"plain", "override", "secure"}
Resolve(way, focus, base) ==
  CASE way = "plain" -> EffectiveMode(focus, base)
    [] way = "override" -> EffectiveModeWithOverride(focus, base)
    [] OTHER -> Secure(focus, base)

\* The user chose Performance, by an override the caller heeds or as his mode,
\* and the caller does not protect the field from that.
Wanted(way, base) ==
  way # "secure" /\ "Performance" = IF way = "override" /\ Overridden THEN override ELSE base

-----------------------------------------------------------------------------
(* Inferencers *)

\* TokenCounter::count: a third of the characters, rounded up.
TokenCount(length) == (length + 2) \div 3

Optional(name) == IF name \in Configured THEN name ELSE "ngram"

\* Dispatcher::select_inferencer.
SelectInferencer(mode, tokens) ==
  CASE tokens < Threshold -> "ngram"
    [] tokens >= Threshold /\ mode \in {"Privacy", "Pro"} -> Optional("llm")
    [] tokens >= Threshold /\ mode = "Performance" -> Optional("workers")
    [] OTHER -> "ngram"

\* default_fallback_chain: the primary; an unresolved Hybrid stays local.
Primary(mode) ==
  CASE mode = "Performance" -> "workers"
    [] mode = "Pro" -> "llm"
    [] mode = "Ollama" -> "ollama"
    [] OTHER -> "ngram"

\* The fallbacks of the chain: none behind the n-gram model itself.
Fallbacks(primary) == IF primary = "ngram" THEN {} ELSE {"ngram"}

-----------------------------------------------------------------------------
\* A configuration names a mode, or none; the watcher classifies when created.
RoutingInit ==
  /\ field \in Fields
  /\ watched = Class(field)
  /\ classifying = [w \in Watchers |-> Idle]
  /\ settled = TRUE
  /\ \E text \in SetModes \cup {"unreadable"} : current = ModeFrom(text)
  /\ sensitive = FALSE
  /\ override = NoMode /\ expires = Never
  /\ now = 0

\* The user moves the focus, or the system changes what it says of the field.
FocusMoves(f) ==
  /\ f # field
  /\ field' = f
  /\ settled' = FALSE
  /\ classifying' = [w \in Watchers |-> [classifying[w] EXCEPT !.stays = FALSE]]
  /\ UNCHANGED <<watched, modeVars>>

\* on_focus_change, up to the lock.
Classify(w) ==
  /\ classifying[w] = Idle
  /\ classifying' = [classifying EXCEPT ![w] = [class |-> Class(field), stays |-> TRUE]]
  /\ UNCHANGED <<field, watched, settled, modeVars>>

\* on_focus_change, under the lock.
Store(w) ==
  /\ classifying[w] # Idle
  /\ watched' = classifying[w].class
  /\ settled' = classifying[w].stays
  /\ classifying' = [classifying EXCEPT ![w] = Idle]
  /\ UNCHANGED <<field, modeVars>>

SetMode(m) ==
  /\ current' = m
  /\ UNCHANGED <<focusVars, sensitive, override, expires, now>>

OverrideForSensitive(s) ==
  /\ sensitive' = s
  /\ UNCHANGED <<focusVars, current, override, expires, now>>

\* set_override, set_permanent_override and clear_override.
Overrides(m, until) ==
  /\ override' = m /\ expires' = until
  /\ UNCHANGED <<focusVars, current, sensitive, now>>

SetOverride(m) == \E d \in Durations : now + d <= MaxTime /\ Overrides(m, now + d)
SetPermanentOverride(m) == Overrides(m, Never)
ClearOverride == override # NoMode /\ Overrides(NoMode, Never)

\* Time passes; no one is told that an override is over.
Tick ==
  /\ now < MaxTime
  /\ now' = now + 1
  /\ UNCHANGED <<focusVars, current, sensitive, override, expires>>

FocusNext ==
  \/ \E f \in Fields : FocusMoves(f)
  \/ \E w \in Watchers : Classify(w) \/ Store(w)

ModeNext ==
  \/ \E m \in SetModes : SetMode(m) \/ SetOverride(m) \/ SetPermanentOverride(m)
  \/ ClearOverride
  \/ \E s \in BOOLEAN : OverrideForSensitive(s)
  \/ Tick

-----------------------------------------------------------------------------
(* Properties *)

RoutingTypeOK ==
  /\ field \in Fields
  /\ watched \in FieldClasses
  /\ classifying \in [Watchers -> {Idle} \cup [class : FieldClasses, stays : BOOLEAN]]
  /\ settled \in BOOLEAN /\ sensitive \in BOOLEAN
  /\ current \in Modes
  /\ override \in Modes \cup {NoMode}
  /\ expires \in 0 .. MaxTime \cup {Never}
  /\ now \in 0 .. MaxTime
=============================================================================
