------------------------------ MODULE Decisions -----------------------------
(***************************************************************************)
(* What the daemon decides from its inputs alone, without state of its     *)
(* own: one question is put and answered, and each property compares the   *)
(* answer with a definition of its own of what it should be.  The          *)
(* questions: a command over MQTT or REST, a configuration with a command  *)
(* line, a file to play, a device and its formats, a loop, a mix and the   *)
(* packets of a file.                                                      *)
(***************************************************************************)
EXTENDS Commands, Devices, Mixdown, Decoding

CONSTANTS
  Macros,          \* the macros of the configuration
  Bodies,          \* Bodies[command]: the parameters a client may send
  MacroBodies,     \* MacroBodies[command]: those it combines with macros
  MacroUses,       \* the values of the "macro" field
  Samples,         \* the samples that play
  InputVoices,     \* sequences: the voices of the live inputs
  Configs,         \* configurations, valid and invalid
  CommandLines,    \* the options of a start
  Paths,           \* paths that a command may name
  Maps,            \* the channel maps of a play
  Aliases,         \* the channel aliases that they name
  AllowedDirs,     \* sets of paths: values of security.allowed_directories
  Requests,        \* device names as a configuration may have them
  Listings,        \* sequences: the devices that an enumeration yields
  Formats,         \* sequences: the formats that a device offers
  Wanted,          \* [channels, rate, size, latency] asked of a device
  Routings,        \* sequences: the channel maps of a live input
  Frames,          \* the largest length of a loop
  Widths,          \* the channel counts of an output
  MixParts,        \* sequences: the parts of a mix
  BassSetups,      \* bass management sections of a configuration
  DefaultFormat,   \* what an input device reports as its default
  FileRates,       \* the rates of a file and of the output, with the filter between
  Files            \* sequences: the packets that the reader of a format yields

ASSUME LoopAssumption == Frames \in Nat

(* A part of a mix has a map of channel numbers and whole units of sound.  *)
IsSequence(s) == s \in Seq(Range(s))
IsPart(part) ==
  /\ part.map \in Seq(Int \X Int) /\ part.gain \in Int
  /\ \A ch \in DOMAIN part.frame : part.frame[ch] \in [bass : Int, treble : Int]

ASSUME MixAssumption ==
  /\ Widths \subseteq Nat
  /\ \A parts \in MixParts : IsSequence(parts) /\ \A i \in DOMAIN parts : IsPart(parts[i])

(* A configuration has its fields; references to channels are numbers or   *)
(* strings.                                                                *)
ConfigFields ==
  {"topic", "sample_rate", "channels", "device", "verbose", "level", "log_topic", "http",
   "max_memory_mb", "volumes", "names", "aliases", "bass", "inputs", "rules", "allowed"}

ASSUME ConfigAssumption ==
  /\ \A c \in Configs :
       /\ ConfigFields \subseteq DOMAIN c
       /\ {"enabled", "port"} \subseteq DOMAIN c.http
       /\ c.verbose \in BOOLEAN /\ c.http.enabled \in BOOLEAN
  /\ \A args \in CommandLines : args.verbose \in BOOLEAN

ASSUME MapAssumption ==
  \A map \in Maps : \A i \in DOMAIN map : {map[i].src[1], map[i].dest[1]} \subseteq {"num", "str"}

(* Paths are sequences; what exists has a parent that exists, up to the    *)
(* root, and so does what a link leads to.                                 *)
ASSUME PathAssumption ==
  /\ \A path \in Existing \cup Paths \cup {Home} \cup UNION AllowedDirs : IsSequence(path)
  /\ << >> \in Existing /\ Missing \notin Existing
  /\ \A path \in Existing : path # << >> => Front(path) \in Existing
  /\ \A link \in DOMAIN Links : Links[link] \in Existing

(* A device has a name; a format has a channel count and a range of rates, *)
(* and of buffer sizes unless it does not say; what a configuration asks   *)
(* for is a rate below the cap.                                            *)
IsFormat(f) ==
  /\ f.channels \in Nat /\ f.min \in Nat /\ f.max \in Nat /\ f.min <= f.max
  /\ f.sizes[1] \in Nat /\ f.sizes[2] \in Nat /\ f.sizes[1] <= f.sizes[2]

ASSUME DeviceAssumption ==
  /\ \A text \in DOMAIN DeviceNumeral : DeviceNumeral[text] \in Nat
  /\ \A names \in Listings : IsSequence(names) /\ \A i \in DOMAIN names : names[i].text # ""

ASSUME FormatAssumption ==
  /\ MaxRate \in Nat
  /\ \A formats \in Formats :
       IsSequence(formats) /\ \A i \in DOMAIN formats : IsFormat(formats[i])
  /\ DefaultFormat.channels \in Nat
  /\ \A routes \in Routings : IsSequence(routes) /\ \A i \in DOMAIN routes : routes[i][1] \in Nat
  /\ \A wanted \in Wanted :
       /\ wanted.channels \in Nat \cup {Unset} /\ wanted.size \in Nat \cup {Unset}
       /\ wanted.rate \in 0 .. MaxRate /\ wanted.latency \in Nat

(* A client's parameters and a macro's are objects with no command, message *)
(* or macro among their fields; a macro field is a name or a list; strings *)
(* that parse as a number are unsigned ones.                               *)
IsParameters(fields) ==
  /\ fields = [f \in DOMAIN fields |-> fields[f]]
  /\ {"command", "message", "macro"} \cap DOMAIN fields = {}

ASSUME CommandAssumption ==
  /\ DOMAIN ParamsOf \subseteq DOMAIN Bodies
  /\ \A command \in DOMAIN Bodies :
       \A args \in Bodies[command] \cup MacroBodies[command] : IsParameters(args)
  /\ \A name \in DOMAIN Macros : IsObject(Macros[name]) => IsParameters(Macros[name][2])
  /\ \A use \in MacroUses : use[1] = "arr" => IsSequence(use[2])
  /\ \A text \in DOMAIN Numeral : Numeral[text] \in Nat
  /\ \A voices \in InputVoices : IsSequence(voices)

(* Packets are of a kind, with a number of frames.  A flush gives up only  *)
(* after more zeroes than a filter with its delay holds back.              *)
ASSUME DecodeAssumption ==
  /\ Chunk \in Nat \ {0} /\ DrainLimit \in Nat
  /\ \A rates \in FileRates :
       /\ rates.from \in Nat \ {0} /\ rates.to \in Nat \ {0}
       /\ rates.delay \in Nat /\ rates.slack \in Nat
       /\ ~Same(rates) =>
            DrainLimit * Chunk * rates.to >= (rates.delay + rates.slack + 2) * rates.from
  /\ \A packets \in Files :
       /\ IsSequence(packets)
       /\ \A i \in DOMAIN packets :
            packets[i] \in {"audio", "other", "corrupt", "broken"} \X Nat

ASSUME BassAssumption ==
  \A bass \in BassSetups : IsSequence(bass.sources)

VARIABLES ask, answered, answer
decisionVars == <<ask, answered, answer>>

---------------------------------------------------------------------------
(* Questions.  Commands in the two formats of a message:                   *)

Text(command) == <<"str", command>>
Using(use) == IF use = Null THEN None ELSE [macro |-> use]

Flattened(command, args, use) ==
  Obj(FillIn(FillIn([command |-> Text(command)], args), Using(use)))
Nested(command, args, use) ==
  Obj(FillIn([command |-> Text(command), message |-> Obj(args)], Using(use)))

AskText ==
  \E command \in DOMAIN Bodies, use \in MacroUses :
    \E args \in IF use = Null THEN Bodies[command] ELSE MacroBodies[command] :
      ask = [kind |-> "text", command |-> command, args |-> args, use |-> use]

AskHttp ==
  \E endpoint \in DOMAIN ParamsOf : \E body \in Bodies[endpoint] :
    ask = [kind |-> "http", command |-> endpoint, args |-> body, use |-> Null]

AskTarget ==
  \E command \in Selecting \cup {"input_volume", "input_mute"},
     playing \in SUBSET Samples, voices \in InputVoices :
    \E args \in Bodies[command] :
      ask = [kind |-> "target", command |-> command, args |-> args, use |-> Null,
             playing |-> playing, voices |-> voices]

(* a configuration and the command line it is merged with:                 *)
AskConfig ==
  \E c \in Configs, args \in CommandLines :
    ask = [kind |-> "config", config |-> c, args |-> args]

AskFile ==
  \E command \in {"play", "precache"}, path \in Paths, dirs \in AllowedDirs, map \in Maps :
    ask = [kind |-> "file", command |-> command, path |-> path, dirs |-> dirs, map |-> map]

(* a device by name, with the list before and after it is resolved:        *)
AskDevice ==
  \E requested \in Requests, names \in Listings, later \in Listings, input \in BOOLEAN :
    ask = [kind |-> "device", requested |-> requested, names |-> names, later |-> later,
           input |-> input]

AskCapture ==
  \E formats \in Formats, wanted \in Wanted, routes \in Routings, rejected \in BOOLEAN :
    ask = [kind |-> "capture", formats |-> formats, wanted |-> wanted, routes |-> routes,
           rejected |-> rejected]

AskOutput ==
  \E formats \in Formats, wanted \in Wanted :
    ask = [kind |-> "output", formats |-> formats, wanted |-> wanted]

AskListing ==
  \E hints \in Listings : \E failing \in SUBSET {hints[i].text : i \in DOMAIN hints} :
    ask = [kind |-> "listing", hints |-> hints, failing |-> failing]

(* a loop of n frames with its crossfade, and a mix:                       *)
AskLoop ==
  \E n \in 1 .. Frames : \E cf \in 0 .. n, p \in 0 .. n - 1, reverse \in BOOLEAN :
    ask = [kind |-> "loop", n |-> n, cf |-> cf, p |-> p, reverse |-> reverse]

AskMix ==
  \E parts \in MixParts, width \in Widths, bass \in BassSetups, c \in Configs :
    ask = [kind |-> "mix", parts |-> parts, width |-> width,
           config |-> [c EXCEPT !.bass = bass]]

(* a file, as packets:                                                     *)
AskDecode ==
  \E rates \in FileRates, packets \in Files :
    ask = [kind |-> "decode", rates |-> rates, packets |-> packets]

DecisionInit ==
  /\ answered = FALSE /\ answer = None
  /\ \/ AskText \/ AskHttp \/ AskTarget
     \/ AskConfig \/ AskFile
     \/ AskDevice \/ AskCapture \/ AskOutput \/ AskListing
     \/ AskLoop \/ AskMix \/ AskDecode

---------------------------------------------------------------------------
(* Answers.                                                                *)

AnswerText ==
  /\ ask.kind = "text"
  /\ answer' = Received(Flattened(ask.command, ask.args, ask.use), Macros)

AnswerHttp ==
  /\ ask.kind = "http"
  /\ answer' = Received(HandlerPayload(ask.command, Obj(ask.args)), Macros)

AnswerTarget ==
  /\ ask.kind = "target"
  /\ answer' = Received(Flattened(ask.command, ask.args, Null), Macros)

AnswerConfig ==
  /\ ask.kind = "config"
  /\ answer' = MergeCliArgs(ask.config, ask.args)

AnswerFile ==
  /\ ask.kind = "file"
  /\ answer' = Precheck([allowed |-> ask.dirs, aliases |-> Aliases], ask.command, ask.path, ask.map)

AnswerDevice ==
  /\ ask.kind = "device"
  /\ answer' = IF ask.input THEN GetInputDevice(ask.requested, ask.names, ask.later)
               ELSE FindOutputDevice(ask.requested, ask.names, ask.later)

AnswerCapture ==
  /\ ask.kind = "capture"
  /\ answer' = CreateInputStream(ask.formats, DefaultFormat, ask.routes,
                  [channels |-> ask.wanted.channels, sample_rate |-> Unset,
                   latency_ms |-> ask.wanted.latency],
                  ask.wanted.rate, ask.wanted.size, ask.rejected)

AnswerOutput ==
  /\ ask.kind = "output"
  /\ answer' = FindOutputConfig(ask.formats, ask.wanted.channels, ask.wanted.rate, ask.wanted.size)

AnswerListing ==
  /\ ask.kind = "listing"
  /\ answer' = ProbeAlsaDevices(ask.hints, ask.failing)

AnswerLoop ==
  /\ ask.kind = "loop"
  /\ answer' = PlainFrames(ask.p, ask.n, ask.cf, ask.reverse, 2 * ask.n + 1)

BassOf(c) ==
  LET resolved == ResolveBassManagement(c)
  IN  [enabled |-> c.bass.enabled, lfe |-> resolved.lfe, sources |-> resolved.sources,
       remove |-> c.bass.remove]

(* Only a configuration that validates gets as far as a mix.               *)
AnswerMix ==
  /\ ask.kind = "mix" /\ Valid(ask.config)
  /\ answer' = MixAudio(ask.parts, ask.width, BassOf(ask.config),
                        ChannelGains(ask.config, ask.width))

AnswerDecode ==
  /\ ask.kind = "decode"
  /\ answer' = DecodeNextChunks(ask.rates, ask.packets)

DecisionNext ==
  /\ ~answered /\ answered' = TRUE
  /\ UNCHANGED ask
  /\ \/ AnswerText \/ AnswerHttp \/ AnswerTarget
     \/ AnswerConfig \/ AnswerFile
     \/ AnswerDevice \/ AnswerCapture \/ AnswerOutput \/ AnswerListing
     \/ AnswerLoop \/ AnswerMix \/ AnswerDecode

DecisionSpec == DecisionInit /\ [][DecisionNext]_decisionVars

Answered(kind) == answered /\ ask.kind = kind

---------------------------------------------------------------------------
(* What an answer is: a refusal with its reason, or a command with exactly *)
(* the fields that its message has.                                        *)
AnswerOK ==
  Answered("text") \/ Answered("http") \/ Answered("target") =>
    \/ IsRejected(answer) /\ answer.why \in {"JsonError", "UnknownCommand", "MissingMessage",
                                             "InvalidParameter"}
    \/ /\ answer.command \in DOMAIN MessageOf \cup Bare
       /\ answer.command \in DOMAIN MessageOf =>
            LET s == MessageOf[answer.command]
            IN  /\ DOMAIN s.required \subseteq DOMAIN answer.args
                /\ DOMAIN answer.args \subseteq DOMAIN s.required \cup DOMAIN s.optional

(* Refused by the parser, or by the command loop for want of a selector.   *)
Refuses(r) == IsRejected(r) \/ (r.command \in Selecting /\ Criteria(r.args) = {})

(* The flattened and the nested format of the same parameters come to the  *)
(* same command, or to none, whatever macros are named beside them       *)
(* (MqttCommand and expand_macros treat the two formats apart).            *)
FormatsAgree ==
  Answered("text") =>
    LET nested == Received(Nested(ask.command, ask.args, ask.use), Macros)
    IN  answer = nested \/ (Refuses(answer) /\ Refuses(nested))

(* A macro fills in what the sender left out and never overrides it, and   *)
(* of two macros the one named first decides (the doc comment of           *)
(* expand_macros).                                                         *)
MacrosFill ==
  Answered("text") =>
    LET names   == MacroNames(ask.use)
        usable  == {i \in DOMAIN names : /\ names[i][1] = "str" /\ names[i][2] \in DOMAIN Macros
                                         /\ IsObject(Macros[names[i][2]])}
        fields(i) == Macros[names[i][2]][2]
        offers(k) == {i \in usable : k \in DOMAIN fields(i)}
        offered == UNION {DOMAIN fields(i) : i \in usable}
        filled  == [k \in DOMAIN ask.args \cup offered |->
                     IF k \in DOMAIN ask.args THEN ask.args[k]
                     ELSE LET first == CHOOSE i \in offers(k) : \A j \in offers(k) : i <= j
                          IN  fields(first)[k]]
    IN  answer = ParseCommand(Flattened(ask.command, filled, Null))

(* The MQTT name of an endpoint's field (docs/http-api.md).                 *)
MqttName(endpoint, f) ==
  CASE endpoint = "play" /\ f = "loop_mode" -> "loop"
    [] endpoint = "voice_fade_out" /\ f = "time_ms" -> "time"
    [] OTHER -> f

(* A REST endpoint and the MQTT message with the same parameters come to   *)
(* the same command: nothing is dropped, renamed or defaulted on the way   *)
(* through the handler, and a body that the endpoint refuses is no command *)
(* over MQTT either.  Only the endpoint's own fields count, and a null is  *)
(* a field left out.                                                       *)
HttpAsMqtt ==
  Answered("http") =>
    LET params == ParamsOf[ask.command]
        own    == {f \in DOMAIN ask.args :
                     /\ FieldOf(params, f) \in DOMAIN params.required \cup DOMAIN params.optional
                     /\ ask.args[f] # Null}
        same   == [name \in {MqttName(ask.command, f) : f \in own} |->
                     ask.args[CHOOSE f \in own : MqttName(ask.command, f) = name]]
        mqtt   == ParseCommand(Nested(ask.command, same, Null))
    IN  IF IsRejected(answer)
        THEN IsRejected(mqtt) \/ \E f, g \in DOMAIN ask.args : f # g /\ FieldOf(params, f) = FieldOf(params, g)
        ELSE answer = mqtt

(* A command that names its targets answers 200 exactly when one of the    *)
(* named samples or inputs was there to be changed; one that names none is *)
(* refused and never means all of them, and an input is found by its       *)
(* number before it is found by its voice.                                 *)
OnlyNamedTargets ==
  Answered("target") =>
    LET status == CommandStatus(answer, ask.playing, ask.voices)
        named(f) == f \in DOMAIN answer.args
        says(f) == answer.args[f][2]
        meant == {s \in ask.playing :
                    \/ named("internal_id") /\ Numeral[says("internal_id")] = s.number
                    \/ named("id") /\ s.id = answer.args["id"]
                    \/ named("file") /\ s.file = says("file")
                    \/ named("voice") /\ s.voice = says("voice")}
        reached == InputReached(says("input"), ask.voices)
    IN  CASE IsRejected(answer) -> status = 400
          [] answer.command \in Selecting ->
               /\ (status = 200) = (Touched(answer, ask.playing) # {})
               /\ Touched(answer, ask.playing) \subseteq meant
               /\ answer.command # "seek" => Touched(answer, ask.playing) = meant
               /\ (status = 400) = (\A f \in DOMAIN SampleSelector : ~named(f))
          [] OTHER ->
               /\ (status = 200) = (reached # 0)
               /\ reached # 0 => \/ ask.voices[reached] = says("input")
                                 \/ says("input") \in DOMAIN Numeral
                                      /\ Numeral[says("input")] = reached - 1
               /\ (\E i \in DOMAIN ask.voices : ask.voices[i] = says("input")) => reached # 0
               /\ \A i \in DOMAIN ask.voices :
                    (says("input") \in DOMAIN Numeral /\ Numeral[says("input")] = i - 1)
                      => reached = i

---------------------------------------------------------------------------
(* Start-up.                                                               *)

(* A configuration that validates starts: none of the resolutions that     *)
(* start-up insists on with expect() fails, and the daemon has a channel   *)
(* over which commands reach it, with or without a broker when it serves   *)
(* HTTP as well.                                                           *)
ValidStarts ==
  Answered("config") /\ Valid(answer) =>
    /\ \A width \in Widths : Resolves(answer, width)
    /\ OperatingMode(answer, TRUE) # "exit"
    /\ answer.http.enabled => OperatingMode(answer, FALSE) = "http"

(* What the command line names is in force and all else is the file's;     *)
(* a port alone turns the HTTP server on; and a verbose log shows debug    *)
(* lines, whichever of the two asks for it, without hiding what the file's *)
(* own level showed.                                                       *)
Shows(c, level) ==
  LET at(l) == CHOOSE i \in DOMAIN Levels : Levels[i] = l IN at(level) <= at(LogLevel(c))

CommandLineDecides ==
  Answered("config") =>
    LET file == ask.config
        line == ask.args
    IN  /\ answer.topic = IF line.topic # "" THEN line.topic ELSE file.topic
        /\ answer.sample_rate = IF line.sample_rate # Absent THEN line.sample_rate ELSE file.sample_rate
        /\ line.http_port # Absent => answer.http.enabled /\ answer.http.port = line.http_port
        /\ file.http.enabled => answer.http.enabled
        /\ line.verbose \/ file.verbose => Shows(answer, "debug")
        /\ ~line.verbose /\ file.level \in Range(Levels) => Shows(answer, file.level)
        /\ \A f \in {"volumes", "names", "aliases", "bass", "inputs", "rules", "allowed"} :
             answer[f] = file[f]

(* Once directories are configured, a path that is let through leads to a  *)
(* file below one of them, wherever its links and ".." go on the way, and  *)
(* a plain path to such a file and a URL are let through; and no play that *)
(* goes on has a route to a channel nobody knows.                          *)
PathsStayInside ==
  Answered("file") /\ ask.dirs # {} =>
    LET known(ref) == \/ ref[1] = "num"
                      \/ ref[2] \in DOMAIN Numeral \cup DOMAIN Aliases
        plays == ask.command = "play" /\ answer = "Ok"
        inside == answer # "Forbidden"
        file == Canonical(ExpandTilde(ask.path))
        below == \E dir \in ask.dirs :
                   LET root == Canonical(ExpandTilde(dir))
                   IN  root # Missing /\ \E n \in 0 .. Len(file) : SubSeq(file, 1, n) = root
    IN  /\ IF ask.path # << >> /\ Head(ask.path) = "http:" THEN inside
           ELSE IF inside THEN file \in Existing /\ below
           ELSE ask.path = file => ~below \/ file \notin Existing
        /\ plays => \A i \in DOMAIN ask.map : known(ask.map[i].src) /\ known(ask.map[i].dest)

---------------------------------------------------------------------------
(* Devices.                                                                *)

(* The input that opens is the one the name meant when the list was read:  *)
(* a number never slides to a neighbour because a device came or went      *)
(* before the second enumeration, and a name that is listed is not taken   *)
(* for a number or a card.  An output is the one of that name if there is  *)
(* one, and otherwise on the same card.                                    *)
DeviceAsNamed ==
  Answered("device") =>
    LET exact(list) == \E i \in DOMAIN list : list[i].text = ask.requested.text
        at(list) == {i \in DOMAIN list : list[i].text = answer}
        card(list) == \E i \in at(list) : SameCard(ask.requested.card, list[i].card)
        number == IF ask.input /\ ask.requested.text \in DOMAIN DeviceNumeral
                  THEN DeviceNumeral[ask.requested.text] + 1 ELSE Nothing
    IN  IF answer = ""
        THEN ask.names = ask.later =>
               ~exact(ask.names) /\ number \notin DOMAIN ask.names
        ELSE /\ at(ask.later) # {} \/ ~ask.input
             /\ IF exact(ask.names) THEN answer = ask.requested.text
                ELSE \/ number \in at(ask.names)
                     \/ card(IF ask.input THEN ask.names ELSE ask.later)

(* An input stream that opens has a channel for every route and no more    *)
(* than the smallest offer needs, runs at the output's rate whenever one   *)
(* of the formats with that many channels allows it and within the range   *)
(* of one of them otherwise, and its ring holds several times the latency. *)
InputServesRoutes ==
  Answered("capture") /\ answer.channels # Nothing =>
    LET needed == RequiredChannels(ask.routes)
        usable == {i \in DOMAIN ask.formats :
                     /\ ask.formats[i].format = "f32"
                     /\ ask.formats[i].min <= MaxRate
                     /\ ask.formats[i].channels <= MaxInputChannels}
        same == {i \in usable : ask.formats[i].channels = answer.channels}
        allows(i, rate) == ask.formats[i].min <= rate /\ rate <= ask.formats[i].max
    IN  /\ answer.channels >= needed
        /\ answer.ring >= 3 * ask.wanted.latency * (ask.wanted.rate \div 1000) * needed
        /\ answer.resampled = (answer.rate # ask.wanted.rate)
        /\ usable # {} =>
             /\ same # {} /\ \E i \in same : allows(i, answer.rate)
             /\ (\E i \in same : allows(i, ask.wanted.rate)) => ~answer.resampled
             /\ ask.wanted.channels = Unset =>
                  \A i \in usable :
                    ask.formats[i].channels # Nothing /\ ask.formats[i].channels >= needed =>
                    answer.channels <= ask.formats[i].channels

(* The output is opened only as one of its formats allows: the channel     *)
(* count is offered, the rate is in the range of a format with that count, *)
(* the one asked for whenever it can be, and the buffer within its sizes.  *)
OutputAsOffered ==
  Answered("output") /\ answer.channels # Nothing =>
    LET same == {i \in DOMAIN ask.formats : ask.formats[i].channels = answer.channels}
        allows(i, rate) == ask.formats[i].min <= rate /\ rate <= ask.formats[i].max
        sized(i) == ask.formats[i].sizes = UnknownSizes \/ answer.buffer = DefaultSize
                      \/ /\ ask.formats[i].sizes[1] <= answer.buffer
                         /\ answer.buffer <= ask.formats[i].sizes[2]
    IN  /\ \E i \in same : allows(i, answer.rate) /\ sized(i)
        /\ (\E i \in same : allows(i, ask.wanted.rate)) => answer.rate = ask.wanted.rate
        /\ ask.wanted.channels # Unset /\ ask.wanted.channels < U16Range =>
             answer.channels = ask.wanted.channels

(* The list suggests a device only when it can be used: it stands a second *)
(* time under its own category, is not one that failed to open, and no     *)
(* device is listed twice otherwise.                                       *)
SuggestionsUsable ==
  Answered("listing") =>
    LET listed == {i \in DOMAIN answer : answer[i].category # "Suggested"}
    IN  /\ \A i, j \in listed : answer[i].text = answer[j].text => i = j
        /\ \A i \in DOMAIN answer \ listed :
             \E j \in listed : /\ answer[j].text = answer[i].text
                              /\ answer[j].category \in {"PluginHardware", "Virtual", "System"}
        /\ {answer[i].text : i \in listed}
             = {ask.hints[k].text : k \in DOMAIN ask.hints} \ {"null"}

---------------------------------------------------------------------------
(* The mix.                                                                *)

(* The blend of a looping sample never jumps once the loop has been round: *)
(* from one output frame to the next every source frame that sounds moves  *)
(* on by one, and its weight changes by one step of the crossfade at most, *)
(* also across the seam and in reverse.  Without a crossfade there is one  *)
(* jump, from the last frame to the first.                                 *)
WeightOf(frame, sounding) ==
  LET same == {s \in sounding : s[1] = frame}
  IN  IF same = {} THEN 0 ELSE (CHOOSE s \in same : TRUE)[2]

Seamless ==
  Answered("loop") =>
    LET f    == Crossfade(ask.n, ask.cf)
        step == IF ask.reverse THEN -1 ELSE 1
        last == IF ask.reverse THEN 0 ELSE ask.n - 1
    IN  \A k \in 1 .. Len(answer) - 1 :
          \A frame \in 0 .. ask.n - 1 :
            LET now  == WeightOf(frame, answer[k])
                next == WeightOf(frame + step, answer[k + 1])
            IN  IF f = 0 THEN now = 1 /\ frame # last => next = 1
                ELSE now - next \in -1 .. 1

(* A pitch-corrected loop sounds what the plain one does: at normal speed  *)
(* the stretcher is fed the very frames and blends of the plain path, seam *)
(* and crossfade included.                                                 *)
PitchLoopAsPlain ==
  Answered("loop") /\ ~ask.reverse =>
    \A k \in DOMAIN answer :
      \A frame \in 0 .. ask.n - 1 :
        WeightOf(frame, answer[k])
          = WeightOf(frame, StretcherInput(ask.p, ask.n, ask.cf, Len(answer))[k])

(* What the mix should hold of a band of one channel before management.    *)
RoutedTo(parts, ch, band) ==
  LET routes  == UNION {{p} \X DOMAIN parts[p].map : p \in DOMAIN parts}
      from(r) == parts[r[1]].map[r[2]][1]
      to(r)   == parts[r[1]].map[r[2]][2]
  IN  SumFunction([r \in {r \in routes : to(r) = ch /\ from(r) \in DOMAIN parts[r[1]].frame}
                     |-> parts[r[1]].gain * parts[r[1]].frame[from(r)][band]])

(* Every routed channel of every part arrives where its map says, with its *)
(* gain and the calibration of that channel, and nowhere else: routes past *)
(* the device's or the source's channels are silent and shift nothing.     *)
MixAsRouted ==
  Answered("mix") =>
    LET gains == ChannelGains(ask.config, ask.width)
    IN  /\ DOMAIN answer = 0 .. ask.width - 1
        /\ \A ch \in DOMAIN answer :
             answer[ch].treble = gains[ch] * RoutedTo(ask.parts, ch, "treble")

(* With the configurations that validation lets through, the bass of every *)
(* managed channel reaches the LFE channel exactly once, is taken out of   *)
(* its own exactly when that is asked for, and is never lost: with an LFE  *)
(* channel that the device does not have, nothing is taken out.            *)
BassAccounted ==
  Answered("mix") =>
    LET gains   == ChannelGains(ask.config, ask.width)
        bm      == BassOf(ask.config)
        active  == bm.enabled /\ bm.lfe \in DOMAIN answer
        managed == {bm.sources[i] : i \in DOMAIN bm.sources} \ {bm.lfe}
        bass(ch) == RoutedTo(ask.parts, ch, "bass")
        sent    == SumFunction([ch \in managed \cap DOMAIN answer |-> bass(ch)])
    IN  \A ch \in DOMAIN answer :
          answer[ch].bass =
            gains[ch] * (IF active /\ ch = bm.lfe THEN bass(ch) + sent
                         ELSE IF active /\ bm.remove /\ ch \in managed THEN 0
                         ELSE bass(ch))
---------------------------------------------------------------------------
(* Decoding.                                                               *)

(* A decoded stream is in time and whole: however the frames arrive in     *)
(* packets, the chunks put together are the sound of the audio packets     *)
(* read, from its first frame on and without the lead-in of the filter; at *)
(* the end of the file there is as much of it as the packets last at the   *)
(* output's rate, not a frame more or less; and after an error nothing but *)
(* what was complete by then.                                              *)
StreamInTime ==
  Answered("decode") =>
    LET sound    == FlattenSeq(answer.yielded)
        lead     == IF Same(ask.rates) THEN 0 ELSE ask.rates.delay
        broken   == \E i \in DOMAIN ask.packets : ask.packets[i][1] = "broken"
        readable == {i \in DOMAIN ask.packets : /\ ask.packets[i][1] = "audio"
                                               /\ \A j \in 1 .. i : ask.packets[j][1] # "broken"}
        lasts    == Expected(ask.rates, SumFunction([i \in readable |-> ask.packets[i][2]]))
    IN  /\ \A i \in DOMAIN sound : sound[i] = lead + i - 1
        /\ \A i \in DOMAIN answer.yielded : answer.yielded[i] # << >>
        /\ answer.status = IF broken THEN "error" ELSE "finished"
        /\ IF broken THEN Len(sound) <= lasts ELSE Len(sound) = lasts

(* A file sounds the same whether it was decoded as a whole or as a        *)
(* stream, once it is longer than the filter between; a broken one yields  *)
(* nothing as a whole.                                                     *)
WholeAsStream ==
  Answered("decode") =>
    LET whole == DecodeFile(ask.rates, ask.packets)
        sound == FlattenSeq(answer.yielded)
        filter == ask.rates.delay + ask.rates.slack
    IN  /\ whole.status = answer.status
        /\ whole.status = "error" => whole.frames = << >>
        /\ whole.status = "finished" /\ Len(sound) > filter => whole.frames = sound

---------------------------------------------------------------------------
(* A command means the same however it is sent, and reaches only what it   *)
(* names.                                                                  *)
CommandsUnderstood ==
  AnswerOK /\ FormatsAgree /\ MacrosFill /\ HttpAsMqtt /\ OnlyNamedTargets

(* What start-up lets through works afterwards: channels resolve, the      *)
(* command line is in force and paths stay in the configured directories.  *)
StartsAsConfigured == ValidStarts /\ CommandLineDecides /\ PathsStayInside

(* The device that opens is the one meant, in a format that it offers and  *)
(* that serves what was asked for.                                         *)
DevicesServe ==
  DeviceAsNamed /\ InputServesRoutes /\ OutputAsOffered /\ SuggestionsUsable

(* What is mixed is what was routed: loops without a jump, every channel   *)
(* where its map says, no bass lost or doubled.                            *)
MixAccounted == Seamless /\ PitchLoopAsPlain /\ MixAsRouted /\ BassAccounted

(* A file sounds in time and whole, as a stream and decoded at once.       *)
DecodedInTime == StreamInTime /\ WholeAsStream
=============================================================================
