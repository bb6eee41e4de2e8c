------------------------------- MODULE Config -------------------------------
(***************************************************************************)
(* The configuration (config.rs): what the file and the command line come  *)
(* to, what validation accepts, and what start-up and the command loop     *)
(* resolve from it afterwards (main.rs).                                   *)
(*                                                                         *)
(* A channel reference is <<"num", n>> or <<"str", s>>.  An absent option  *)
(* is Absent for a number and "" for a string.  The two maps whose order   *)
(* the code reads, channel_names and channel_volumes, are sequences of     *)
(* pairs in the order in which the HashMap happens to yield them.  Gains   *)
(* are whole multiples of unity; rates, sizes and times have their units,  *)
(* and a threshold counts hundredths of full scale.                        *)
(***************************************************************************)
EXTENDS Integers, Sequences, FiniteSets, SequencesExt

CONSTANTS
  Numeral,       \* the strings that parse as an unsigned number, to the number
  MaxGain        \* the largest gain

Absent == -1
Unresolved == -1
Levels == <<"error", "warn", "info", "debug", "trace">>

---------------------------------------------------------------------------
(* Channels                                                                *)

IsChannelRef(v) == v[1] = "str" \/ (v[1] = "num" /\ v[2] >= 0)

(* ChannelRef::deserialize and resolve: a numeral is a channel number even *)
(* when an alias has the same name.                                        *)
ResolveChannel(ref, aliases) ==
  CASE ref[1] = "num" -> ref[2]
    [] ref[1] = "str" /\ ref[2] \in DOMAIN Numeral -> Numeral[ref[2]]
    [] ref[1] = "str" /\ ref[2] \notin DOMAIN Numeral ->
         IF ref[2] \in DOMAIN aliases THEN aliases[ref[2]] ELSE Unresolved

ResolveBassManagement(c) ==
  [lfe     |-> ResolveChannel(c.bass.lfe, c.aliases),
   sources |-> [i \in DOMAIN c.bass.sources |-> ResolveChannel(c.bass.sources[i], c.aliases)]]

(* A key of channel_volumes: a number, an alias, or a display name.        *)
ResolveVolumeKey(c, key) ==
  LET named == {i \in DOMAIN c.names : c.names[i].label = key}
      first == CHOOSE i \in named : \A j \in named : i <= j
  IN  IF key \in DOMAIN Numeral THEN Numeral[key]
      ELSE IF key \in DOMAIN c.aliases THEN c.aliases[key]
      ELSE IF named # {} /\ c.names[first].channel \in DOMAIN Numeral
           THEN Numeral[c.names[first].channel]
      ELSE Unresolved

(* Gains by channel, numbered from 0; the last key of a channel decides.   *)
ChannelGains(c, width) ==
  FoldLeft(LAMBDA gains, entry :
             LET index == ResolveVolumeKey(c, entry.key)
             IN  IF index < width THEN [gains EXCEPT ![index] = entry.gain] ELSE gains,
           [ch \in 0 .. width - 1 |-> 1], c.volumes)

InputRoutes(c, routes) ==
  [i \in DOMAIN routes |-> <<ResolveChannel(routes[i].src, c.aliases),
                             ResolveChannel(routes[i].dest, c.aliases)>>]

---------------------------------------------------------------------------
(* Loading and merging                                                     *)

Or(given, otherwise) == IF given \in {Absent} THEN otherwise ELSE given
OrText(given, otherwise) == IF given = "" THEN otherwise ELSE given

MergeCliArgs(c, args) ==
  [c EXCEPT !.topic       = OrText(args.topic, @),
            !.sample_rate = Or(args.sample_rate, @),
            !.channels    = Or(args.channels, @),
            !.device      = OrText(args.device, @),
            !.verbose     = @ \/ args.verbose,
            !.level       = IF args.verbose THEN "debug" ELSE @,
            !.log_topic   = OrText(args.log_topic, @),
            !.http.enabled = @ \/ args.http_port # Absent,
            !.http.port   = Or(args.http_port, @),
            !.max_memory_mb = Or(args.max_cache_mb, @)]

(* The level that logging starts with: verbose makes it no less than debug.*)
LogLevel(c) ==
  LET at(level) == CHOOSE i \in DOMAIN Levels : Levels[i] = level
      level == IF c.level \in {Levels[i] : i \in DOMAIN Levels} THEN c.level ELSE "info"
  IN  IF c.verbose /\ at(level) < at("debug") THEN "debug" ELSE level

---------------------------------------------------------------------------
(* validate                                                                *)

Within(n, low, high) == low <= n /\ n <= high

(* Mutated form of ValidAudio: the gains are checked, not their keys.      *)
ValidAudioKeys(c) ==
  /\ Within(c.sample_rate, 8000, 192000)
  /\ Within(c.buffer_size, 64, 8192)
  /\ \A i \in DOMAIN c.volumes : Within(c.volumes[i].gain, 0, MaxGain)

ValidAudio(c) ==
  /\ Within(c.sample_rate, 8000, 192000)
  /\ Within(c.buffer_size, 64, 8192)
  /\ \A i \in DOMAIN c.volumes : /\ Within(c.volumes[i].gain, 0, MaxGain)
                                 /\ ResolveVolumeKey(c, c.volumes[i].key) # Unresolved

ValidBass(c) ==
  LET r == ResolveBassManagement(c)
  IN  c.bass.enabled =>
        /\ Within(c.bass.crossover, 10, 200)
        /\ c.bass.sources # << >>
        /\ r.lfe # Unresolved
        /\ \A i \in DOMAIN r.sources :
             /\ r.sources[i] # Unresolved
             /\ \A j \in DOMAIN r.sources : r.sources[i] = r.sources[j] => i = j

ValidInput(c, input) ==
  /\ Within(input.volume, 0, MaxGain)
  /\ input.routes # << >>
  /\ Within(input.latency_ms, 5, 500)
  /\ input.channels # Absent => Within(input.channels, 1, 64)
  /\ input.sample_rate # Absent => Within(input.sample_rate, 8000, 192000)
  /\ input.threshold # Absent => Within(input.threshold, 1, 100)
  /\ input.hold_ms <= 10000
  /\ LET routes == InputRoutes(c, input.routes)
     IN  \A i \in DOMAIN routes : Unresolved \notin {routes[i][1], routes[i][2]}

ValidRule(rule) ==
  Within(rule.target, 0, 1) /\ rule.fade_ms <= 60000 /\ rule.ducked # {}

ValidHttp(c) ==
  c.http.enabled => c.http.bind # "" /\ (c.http.token # Absent => c.http.token >= 8)

Valid(c) ==
  /\ c.topic # "" \/ c.http.enabled
  /\ c.level \in {Levels[i] : i \in DOMAIN Levels}
  /\ ValidAudio(c)
  /\ ValidBass(c)
  /\ \A i \in DOMAIN c.inputs : ValidInput(c, c.inputs[i])
  /\ \A i \in DOMAIN c.rules : ValidRule(c.rules[i])
  /\ ValidHttp(c)

---------------------------------------------------------------------------
(* What start-up does with a configuration that validate let through: the  *)
(* resolutions that expect("... should have been caught during             *)
(* validation"), and the way it runs with or without a broker.             *)

Resolves(c, width) ==
  /\ c.bass.enabled =>
       LET r == ResolveBassManagement(c)
       IN  Unresolved \notin {r.lfe} \cup {r.sources[i] : i \in DOMAIN r.sources}
  /\ \A i \in DOMAIN c.volumes : ResolveVolumeKey(c, c.volumes[i].key) # Unresolved
  /\ \A i \in DOMAIN c.inputs :
       LET routes == InputRoutes(c, c.inputs[i].routes)
       IN  \A k \in DOMAIN routes : Unresolved \notin {routes[k][1], routes[k][2]}

OperatingMode(c, brokerReached) ==
  IF c.topic # "" /\ brokerReached
  THEN IF c.http.enabled THEN "both" ELSE "mqtt"
  ELSE IF c.http.enabled THEN "http" ELSE "exit"

---------------------------------------------------------------------------
(* Paths.  A path is a sequence of names below the root, after "~/" at its *)
(* front was replaced; Links are the symbolic links and Existing the       *)
(* directories and files, by canonical path.  A URL is a path below        *)
(* "http:".  No path is Missing.                                           *)

CONSTANTS Links, Existing, Home

Missing == <<"missing">>

IsUrl(path) == path # << >> /\ Head(path) = "http:"

ExpandTilde(path) == IF path # << >> /\ Head(path) = "~" THEN Home \o Tail(path) ELSE path

(* fs::canonicalize: every link followed, every ".." applied.              *)
Canonical(path) ==
  FoldLeft(LAMBDA at, name :
             LET next == Append(at, name)
             IN  IF at = Missing THEN Missing
                 ELSE IF name = ".." THEN (IF at = << >> THEN at ELSE Front(at))
                 ELSE IF next \in DOMAIN Links THEN Links[next]
                 ELSE IF next \in Existing THEN next ELSE Missing,
           << >>, path)

IsLocalPathAllowed(c, path) ==
  LET canonical == Canonical(ExpandTilde(path))
  IN  \/ IsUrl(path)
      \/ c.allowed = {}
      \/ /\ canonical # Missing
         /\ \E dir \in c.allowed :
              LET allowed == Canonical(ExpandTilde(dir))
              IN  allowed # Missing /\ IsPrefix(allowed, canonical)
=============================================================================
