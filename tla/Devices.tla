------------------------------ MODULE Devices -------------------------------
(***************************************************************************)
(* Choosing devices and stream formats (audio/input.rs, audio/engine.rs,   *)
(* audio/device.rs) and the list of devices that the daemon suggests       *)
(* (audio/alsa_probe.rs).                                                  *)
(*                                                                         *)
(* A device name is a record of its full text, its ALSA prefix ("" when it *)
(* has none of the known ones) and its card: <<"index", n>>, <<"name", s>> *)
(* or NoCard.  A format that a device offers is a record of its channel    *)
(* count, range of rates, sample format and range of buffer sizes.         *)
(***************************************************************************)
EXTENDS Integers, Sequences, FiniteSets, SequencesExt

CONSTANTS
  DeviceNumeral, \* the texts that parse as a number, to the number
  Cards,         \* /proc/asound/cards: the names of the cards, to their index
  MaxRate,       \* MAX_REASONABLE_SAMPLE_RATE of input.rs, and 384 kHz in engine.rs
  MaxInputChannels,    \* MAX_REASONABLE_CHANNELS of input.rs
  MaxOutputChannels    \* the widest output chosen unasked

NoCard == <<"none", 0>>
Nothing == 0           \* no position, no channel count
DefaultSize == 0       \* cpal::BufferSize::Default
Unset == -1            \* an option that is not set
UnknownSizes == <<0, 0>>  \* SupportedBufferSize::Unknown
U16Range == 65536

Least(S) == CHOOSE x \in S : \A y \in S : x <= y
Greatest(S) == CHOOSE x \in S : \A y \in S : y <= x
First(places) == IF places = {} THEN Nothing ELSE Least(places)

---------------------------------------------------------------------------
(* Names                                                                   *)

(* AlsaCardId: an index and a name are the same card when the kernel lists *)
(* the name at that index.                                                 *)
SameCard(a, b) ==
  \/ a = b
  \/ /\ a[1] = "index" /\ b[1] = "name" /\ b[2] \in DOMAIN Cards /\ Cards[b[2]] = a[2]
  \/ /\ a[1] = "name" /\ b[1] = "index" /\ a[2] \in DOMAIN Cards /\ Cards[a[2]] = b[2]

TryMatchAlsaDevice(requested, name) ==
  /\ requested.prefix # "" /\ requested.prefix = name.prefix
  /\ NoCard \notin {requested.card, name.card}
  /\ SameCard(requested.card, name.card)

(* The position in the enumerated list that a configured name selects: the *)
(* name itself, the number printed by --list-inputs, the card.             *)
ResolveRequestedDevice(requested, names) ==
  LET exact == {i \in DOMAIN names : names[i].text = requested.text}
      card  == {i \in DOMAIN names : TryMatchAlsaDevice(requested, names[i])}
  IN  IF exact # {} THEN First(exact)
      ELSE IF requested.text \in DOMAIN DeviceNumeral
                /\ DeviceNumeral[requested.text] < Len(names)
           THEN DeviceNumeral[requested.text] + 1
      ELSE First(card)

(* Mutated form of GetInputDevice: the device is fetched by its position.  *)
GetInputDeviceAt(requested, names, later) ==
  LET position == ResolveRequestedDevice(requested, names)
  IN  IF position # Nothing /\ position <= Len(later) THEN later[position].text ELSE ""

(* The text of the device that opens, or "": the list is read once to      *)
(* resolve the name and again to fetch the device, and devices may come    *)
(* and go in between.                                                      *)
GetInputDevice(requested, names, later) ==
  LET position == ResolveRequestedDevice(requested, names)
  IN  IF position # Nothing /\ \E i \in DOMAIN later : later[i].text = names[position].text
      THEN names[position].text ELSE ""

(* An output is looked for by its text and then, in a list read again, by  *)
(* its card.                                                               *)
FindOutputDevice(requested, names, later) ==
  LET card == {i \in DOMAIN later : TryMatchAlsaDevice(requested, later[i])}
  IN  IF \E i \in DOMAIN names : names[i].text = requested.text THEN requested.text
      ELSE IF card # {} THEN later[First(card)].text ELSE ""

---------------------------------------------------------------------------
(* Capture                                                                 *)

RequiredChannels(routes) ==
  IF routes = << >> THEN 0 ELSE Greatest({routes[i][1] + 1 : i \in DOMAIN routes})

SelectChannelCount(available, exact, minimum) ==
  LET fitting == IF exact # Unset THEN available \cap {exact}
                 ELSE {n \in available : n >= minimum /\ n >= 1}
  IN  IF fitting = {} THEN Nothing ELSE Least(fitting)

ChooseCaptureRate(format, preferred) ==
  LET high   == IF format.max < MaxRate THEN format.max ELSE MaxRate
      raised == IF preferred < format.min THEN format.min ELSE preferred
  IN  IF raised > high THEN high ELSE raised

Unusable == [channels |-> Nothing, rate |-> 0]

(* Only f32 formats are considered; when nothing plausible is listed the   *)
(* device's default is taken as it is.                                     *)
FindInputConfig(formats, default, exact, minimum, preferred) ==
  LET plausible == {i \in DOMAIN formats : /\ formats[i].min <= MaxRate
                                           /\ formats[i].channels <= MaxInputChannels}
      float    == {i \in plausible : formats[i].format = "f32"}
      channels == SelectChannelCount({formats[i].channels : i \in float}, exact, minimum)
      matching == {i \in float : formats[i].channels = channels}
      rate(i)  == ChooseCaptureRate(formats[i], preferred)
      covers   == {i \in matching : rate(i) = preferred}
  IN  IF plausible = {} THEN default
      ELSE IF channels = Nothing THEN Unusable
      ELSE [channels |-> channels, rate |-> rate(First(IF covers = {} THEN matching ELSE covers))]

(* Four times the nominal latency, in samples.                             *)
RingBufferSize(rate, channels, latency) == (rate \div 1000) * latency * channels * 4

(* The set-up of a stream; bufferRejected is the device's answer to a      *)
(* fixed buffer size, after which it is asked for its own.                 *)
CreateInputStream(formats, default, routes, input, outputRate, bufferSize, bufferRejected) ==
  LET minimum == RequiredChannels(routes)
      chosen  == FindInputConfig(formats, default, input.channels, minimum,
                                 IF input.sample_rate = Unset THEN outputRate ELSE input.sample_rate)
  IN  IF chosen.channels = Nothing \/ chosen.channels < minimum THEN Unusable
      ELSE [channels |-> chosen.channels, rate |-> chosen.rate,
            ring |-> RingBufferSize(outputRate, chosen.channels, input.latency_ms),
            resampled |-> chosen.rate # outputRate,
            buffer |-> IF bufferRejected THEN DefaultSize ELSE bufferSize]

---------------------------------------------------------------------------
(* Output                                                                  *)

ResolveBufferSize(requested, range) ==
  CASE requested = Unset -> DefaultSize
    [] requested # Unset /\ range = UnknownSizes -> requested
    [] requested # Unset /\ range # UnknownSizes ->
         IF requested < range[1] THEN range[1]
         ELSE IF requested > range[2] THEN range[2] ELSE requested

TargetChannels(formats, channels) ==
  LET narrow == {formats[i].channels : i \in DOMAIN formats} \cap (0 .. MaxOutputChannels)
  IN  IF channels # Unset THEN channels % U16Range
      ELSE IF narrow = {} THEN 2 ELSE Greatest(narrow)

(* No stream opens where with_sample_rate panics: at a rate that is capped   *)
(* below the lowest of the format.                                         *)
FindOutputConfig(formats, channels, rate, bufferSize) ==
  LET target == TargetChannels(formats, channels)
      matching == {i \in DOMAIN formats : formats[i].channels = target}
      covers   == {i \in matching : formats[i].min <= rate /\ rate <= formats[i].max}
      best     == formats[First(IF covers = {} THEN matching ELSE covers)]
  IN  IF matching = {} \/ (covers = {} /\ best.min > MaxRate) THEN Unusable
      ELSE [channels |-> target,
            rate |-> IF covers # {} THEN rate ELSE ChooseCaptureRate(best, rate),
            buffer |-> ResolveBufferSize(bufferSize, best.sizes)]

---------------------------------------------------------------------------
(* The list of devices                                                     *)

Plugins == {"lavrate", "samplerate", "speexrate", "speex", "upmix", "vdownmix"}

\* The prefix "hdmi" stands for every name that says HDMI.
ClassifyDeviceName(name) ==
  CASE name.prefix = "hw"     -> "Hardware"
    [] name.prefix = "plughw" -> "PluginHardware"
    [] name.prefix = "dmix"   -> "SoftwareMixer"
    [] name.prefix = "hdmi"   -> "Hdmi"
    [] name.prefix \in {"front", "surround", "iec958"} -> "ChannelLayout"
    [] name.prefix = "sysdefault"
         \/ name.text \in {"default", "pulse", "jack", "oss"} \cup Plugins -> "System"
    [] name.text = "null" -> "Unavailable"
    [] OTHER -> "Virtual"

ShouldSuggestDevice(name, category) ==
  \/ category = "PluginHardware"
  \/ category = "Virtual" /\ name.text \notin Plugins
  \/ category = "System" /\ name.prefix = "sysdefault" /\ name.card[1] = "name"

(* What a hint of the ALSA library becomes: a name is listed once, "null"  *)
(* never; a device that is no card's and no plugin is opened to see        *)
(* whether it is there (failing names are busy or unreachable), and so are *)
(* the sound servers; a suggestion is a second entry before the first.     *)
OfACard(name) == name.card[1] = "index" \/ (name.card[1] = "name" /\ name.card[2] \in DOMAIN Cards)

CategoryOf(name, failing) ==
  LET category == ClassifyDeviceName(name)
      opened   == \/ ~OfACard(name) /\ name.text \notin Plugins /\ category # "System"
                  \/ name.text \in {"jack", "pulse"}
  IN  IF opened /\ name.text \in failing THEN "Unavailable" ELSE category

ProbeAlsaDevices(hints, failing) ==
  FoldLeft(LAMBDA list, name :
             LET category == CategoryOf(name, failing)
                 entry(as) == [text |-> name.text, category |-> as]
             IN  IF name.text = "null" \/ \E i \in DOMAIN list : list[i].text = name.text
                 THEN list
                 ELSE IF ShouldSuggestDevice(name, category)
                      THEN list \o <<entry("Suggested"), entry(category)>>
                      ELSE Append(list, entry(category)),
           << >>, hints)
=============================================================================
