------------------------------ MODULE Commands ------------------------------
(***************************************************************************)
(* The text of a command and what it comes to: the REST handlers that turn *)
(* a request body into a command (http/handlers.rs), macros and the parser *)
(* (mqtt/commands.rs), and the arms of the command loop (main.rs) that     *)
(* look their target up before they touch anything.                        *)
(*                                                                         *)
(* A JSON value is a pair of a tag and its content: <<"str", s>>,          *)
(* <<"num", n>>, <<"bool", b>>, <<"null", 0>>, <<"arr", sequence>> and     *)
(* <<"obj", function from field names to values>>.  Volumes are whole      *)
(* multiples of unity gain.                                                *)
(***************************************************************************)
EXTENDS Config

CONSTANT FadeAllMs      \* the fade of a fadeall that names none

Null == <<"null", 0>>
Obj(fields) == <<"obj", fields>>
IsObject(v) == v[1] = "obj"
None == [x \in {} |-> Null]

(* Fields, and those of others that are not among them.                    *)
FillIn(fields, others) ==
  [f \in DOMAIN fields \cup DOMAIN others |-> IF f \in DOMAIN fields THEN fields[f] ELSE others[f]]

---------------------------------------------------------------------------
(* Decoding an object into a struct.  A schema has the required and the    *)
(* optional fields with their types, and the aliases of fields.            *)

Schema(required, optional) == [required |-> required, optional |-> optional, alias |-> None]

IsMapping(v) ==
  /\ IsObject(v)
  /\ \A end \in {"src", "dest"} : end \in DOMAIN v[2] /\ IsChannelRef(v[2][end])

OfType(v, type) ==
  CASE type = "str"  -> v[1] = "str"
    [] type = "num"  -> v[1] = "num"
    [] type = "uint" -> v[1] = "num" /\ v[2] >= 0
    [] type \in {"bool", "flag"} -> v[1] = "bool"
    [] type = "map"  -> v[1] = "arr" /\ \A i \in DOMAIN v[2] : IsMapping(v[2][i])
    [] type = "any"  -> TRUE

FieldOf(schema, key) == IF key \in DOMAIN schema.alias THEN schema.alias[key] ELSE key

(* An optional field may be null, a flag with a default (#[serde(default)] *)
(* bool) may only be left out; a field given under two names is refused,   *)
(* and fields of no struct are ignored.                                    *)
Decodes(v, schema) ==
  /\ IsObject(v)
  /\ DOMAIN schema.required \subseteq DOMAIN v[2]
  /\ \A key \in DOMAIN v[2] :
       LET field == FieldOf(schema, key)
       IN  /\ field \in DOMAIN schema.required => OfType(v[2][key], schema.required[field])
           /\ field \in DOMAIN schema.optional =>
                \/ OfType(v[2][key], schema.optional[field])
                \/ v[2][key] = Null /\ schema.optional[field] # "flag"
           /\ \A other \in DOMAIN v[2] : FieldOf(schema, other) = field => other = key

Decoded(v, schema) ==
  LET known == DOMAIN schema.required \cup DOMAIN schema.optional
      keys  == {k \in DOMAIN v[2] : FieldOf(schema, k) \in known /\ v[2][k] # Null}
  IN  [field \in {FieldOf(schema, k) : k \in keys} |->
         v[2][CHOOSE k \in keys : FieldOf(schema, k) = field]]

---------------------------------------------------------------------------
(* The messages of the commands.                                           *)

SampleSelector == [internal_id |-> "str", id |-> "str", file |-> "str", voice |-> "str"]

PlayMessage ==
  Schema([file |-> "str"],
         [id |-> "str", volume |-> "num", voice |-> "str", channel_map |-> "map",
          fade_in |-> "uint", start_position_ms |-> "uint", loop |-> "bool",
          crossfade_ms |-> "uint"])
VoiceStopMessage    == Schema([voice |-> "str"], None)
VoiceFadeOutMessage == Schema([voice |-> "str", time |-> "uint"], None)
FadeAllMessage ==
  [Schema(None, [time |-> "uint"]) EXCEPT !.alias = [fade_out_ms |-> "time"]]
VoiceVolumeMessage  == Schema([voice |-> "str", volume |-> "num"], None)
FileMessage         == Schema([file |-> "str"], None)
InputVolumeMessage  == Schema([input |-> "str", volume |-> "num"], None)
InputMuteMessage    == Schema([input |-> "str", mute |-> "bool"], None)
SeekMessage         == Schema([position_ms |-> "uint"], SampleSelector)
SpeedMessage        == Schema([speed |-> "num"], FillIn(SampleSelector, [pitch_correction |-> "flag"]))
StopMessage         == Schema(None, FillIn(SampleSelector, [fade_out_ms |-> "uint"]))
VolumeMessage       == Schema([volume |-> "num"], SampleSelector)

MessageOf ==
  [play |-> PlayMessage, voice_stop |-> VoiceStopMessage, voice_fade_out |-> VoiceFadeOutMessage,
   fadeall |-> FadeAllMessage, voice_volume |-> VoiceVolumeMessage, precache |-> FileMessage,
   cache_invalidate |-> FileMessage, input_volume |-> InputVolumeMessage,
   input_mute |-> InputMuteMessage, seek |-> SeekMessage, speed |-> SpeedMessage,
   stop |-> StopMessage, volume |-> VolumeMessage]

Bare      == {"stopall", "cache_clear"}        \* commands without parameters
Selecting == {"seek", "speed", "stop", "volume"}

CommandOf(name) ==
  CASE name \in {"play", "soundPlay"} -> "play"
    [] name \in {"stopall", "soundStopAll"} -> "stopall"
    [] name \in {"fadeall", "soundFadeAll", "fadeout", "soundFadeOut"} -> "fadeall"
    [] name \in {"precache", "soundPrecache"} -> "precache"
    [] OTHER -> name

---------------------------------------------------------------------------
(* parse_command                                                           *)

Rejected(why) == [command |-> "rejected", why |-> why, args |-> None]
IsRejected(r) == r.command = "rejected"

Clamp(volume) == IF volume < 0 THEN 0 ELSE IF volume > MaxGain THEN MaxGain ELSE volume

Defaults(command) ==
  CASE command = "play" -> [volume |-> <<"num", 1>>, loop |-> <<"bool", FALSE>>,
                            crossfade_ms |-> <<"num", 0>>]
    [] command = "fadeall" -> [time |-> <<"num", FadeAllMs>>]
    [] command = "speed"   -> [pitch_correction |-> <<"bool", FALSE>>]
    [] OTHER -> None

AudioCommand(command, args) ==
  LET full == FillIn(args, Defaults(command))
  IN  [command |-> command, why |-> "none",
       args |-> IF command = "play"
                THEN [full EXCEPT !["volume"] = <<"num", Clamp(full["volume"][2])>>]
                ELSE full]

(* A system-assigned id that is no number could only match nothing.        *)
ValidInternalId(args) ==
  "internal_id" \in DOMAIN args => args["internal_id"][2] \in DOMAIN Numeral

IsMqttCommand(v) ==
  /\ IsObject(v)
  /\ "command" \in DOMAIN v[2] /\ v[2]["command"][1] = "str"

Message(v) == IF "message" \in DOMAIN v[2] THEN v[2]["message"] ELSE Null
Params(v)  == Restrict(v[2], DOMAIN v[2] \ {"command", "message"})

HasParams(v) == Message(v) # Null \/ DOMAIN Params(v) # {}
GetParams(v) == IF Message(v) # Null THEN Message(v) ELSE Obj(Params(v))

WithMessage(command, params) ==
  LET args == Decoded(params, MessageOf[command])
  IN  IF ~Decodes(params, MessageOf[command]) THEN Rejected("JsonError")
      ELSE IF \/ command \in Selecting /\ ~ValidInternalId(args)
              \/ command = "speed" /\ args["speed"][2] = 0
           THEN Rejected("InvalidParameter")
           ELSE AudioCommand(command, args)

ParseCommand(v) ==
  LET command == CommandOf(v[2]["command"][2])
  IN  IF ~IsMqttCommand(v) THEN Rejected("JsonError")
      ELSE IF command \in Bare THEN AudioCommand(command, None)
      ELSE IF command \notin DOMAIN MessageOf THEN Rejected("UnknownCommand")
      ELSE IF HasParams(v) THEN WithMessage(command, GetParams(v))
      ELSE IF command = "fadeall" THEN AudioCommand(command, None)
      ELSE Rejected("MissingMessage")

---------------------------------------------------------------------------
(* expand_macros                                                           *)

(* What stands under "macro": one name, or those in an array.              *)
MacroNames(v) ==
  CASE v[1] = "str" -> <<v>>
    [] v[1] = "arr" -> v[2]
    [] OTHER        -> << >>

(* The fields of a macro; what is no string, unknown or no object has none.*)
MacroFields(name, macros) ==
  IF name[1] = "str" /\ name[2] \in DOMAIN macros /\ IsObject(macros[name[2]])
  THEN macros[name[2]][2] ELSE None

(* Mutated form of MacroParams: a later macro overrides an earlier one.    *)
MacroParamsLast(names, macros) ==
  FoldLeft(LAMBDA params, name : FillIn(MacroFields(name, macros), params), None, names)

MacroParams(names, macros) ==
  FoldLeft(LAMBDA params, name : FillIn(params, MacroFields(name, macros)), None, names)

ExpandMacros(v, macros) ==
  LET fields == Restrict(v[2], DOMAIN v[2] \ {"macro"})
      params == MacroParams(MacroNames(v[2]["macro"]), macros)
  IN  IF ~IsObject(v) \/ "macro" \notin DOMAIN v[2] THEN v
      ELSE IF "message" \in DOMAIN fields /\ IsObject(fields["message"])
           THEN Obj([fields EXCEPT !["message"] = Obj(FillIn(@[2], params))])
           ELSE Obj(FillIn(fields, params))

(* What the command loop makes of a payload from either channel.           *)
Received(payload, macros) == ParseCommand(ExpandMacros(payload, macros))

---------------------------------------------------------------------------
(* The REST handlers: a body of the endpoint's own, or a refusal by the    *)
(* JSON extractor before the handler runs.                                 *)

PlayParams ==
  [Schema([file |-> "str"],
          [id |-> "str", volume |-> "num", voice |-> "str", fade_in |-> "uint",
           start_position_ms |-> "uint", loop_mode |-> "bool", crossfade_ms |-> "uint",
           channel_map |-> "any"]) EXCEPT !.alias = [loop |-> "loop_mode"]]
StopParams    == Schema(None, FillIn(SampleSelector, [fade_out_ms |-> "uint"]))
FadeAllParams == Schema(None, [time |-> "uint"])
VolumeParams  == Schema([volume |-> "num"], SampleSelector)
SeekParams    == Schema([position_ms |-> "uint"], SampleSelector)
SpeedParams   == Schema([speed |-> "num"], FillIn(SampleSelector, [pitch_correction |-> "bool"]))
FileParams    == Schema([file |-> "str"], None)
VoiceStopParams    == Schema([voice |-> "str"], None)
VoiceFadeOutParams == Schema([voice |-> "str", time_ms |-> "uint"], None)
VoiceVolumeParams  == Schema([voice |-> "str", volume |-> "num"], None)
InputVolumeParams  == Schema([input |-> "str", volume |-> "num"], None)
InputMuteParams    == Schema([input |-> "str", mute |-> "bool"], None)

ParamsOf ==
  [play |-> PlayParams, stop |-> StopParams, fadeall |-> FadeAllParams, volume |-> VolumeParams,
   seek |-> SeekParams, speed |-> SpeedParams, precache |-> FileParams,
   cache_invalidate |-> FileParams, voice_stop |-> VoiceStopParams,
   voice_fade_out |-> VoiceFadeOutParams, voice_volume |-> VoiceVolumeParams,
   input_volume |-> InputVolumeParams, input_mute |-> InputMuteParams]

Refused == Obj([refused |-> Null])

(* The fields that a handler passes on under another name.                 *)
PassedAs(endpoint, field) ==
  CASE endpoint = "play" /\ field = "loop_mode" -> "loop"
    [] endpoint = "voice_fade_out" /\ field = "time_ms" -> "time"
    [] OTHER -> field

HandlerPayload(endpoint, body) ==
  LET given == Decoded(body, ParamsOf[endpoint])
  IN  IF endpoint \in Bare
      THEN Obj([command |-> <<"str", endpoint>>, message |-> Obj(None)])
      ELSE IF ~Decodes(body, ParamsOf[endpoint]) THEN Refused
      ELSE Obj([command |-> <<"str", endpoint>>,
                message |-> Obj([name \in {PassedAs(endpoint, f) : f \in DOMAIN given} |->
                  given[CHOOSE f \in DOMAIN given : PassedAs(endpoint, f) = name]])])

---------------------------------------------------------------------------
(* The arms of the command loop that look for their target.  A sample has  *)
(* its number, the sender's id (a value, or Null), its file, its voice and *)
(* whether its sample rate is known.                                       *)

Criteria(args) == DOMAIN args \cap DOMAIN SampleSelector

Matches(args, sample) ==
  \/ "internal_id" \in DOMAIN args /\ args["internal_id"][2] \in DOMAIN Numeral
                                   /\ Numeral[args["internal_id"][2]] = sample.number
  \/ "id" \in DOMAIN args /\ args["id"] = sample.id
  \/ "file" \in DOMAIN args /\ args["file"][2] = sample.file
  \/ "voice" \in DOMAIN args /\ args["voice"][2] = sample.voice

(* The samples a selecting command touches: a seek skips those whose rate  *)
(* is not known yet.                                                       *)
Touched(r, samples) ==
  {s \in samples : /\ Criteria(r.args) # {}
                   /\ Matches(r.args, s)
                   /\ r.command = "seek" => s.rated}

SelectingOutcome(r, samples) ==
  IF Criteria(r.args) = {} THEN "InvalidRequest"
  ELSE IF Touched(r, samples) = {} THEN "NotFound"
  ELSE "Ok"

(* The input that input_volume and input_mute reach, counted from 1 in the *)
(* sequence of the inputs' voices, or 0: by number first, then by voice.   *)
InputReached(name, voices) ==
  LET byVoice == {i \in DOMAIN voices : voices[i] = name}
  IN  IF name \in DOMAIN Numeral /\ Numeral[name] < Len(voices)
      THEN Numeral[name] + 1
      ELSE IF byVoice = {} THEN 0
      ELSE CHOOSE i \in byVoice : \A j \in byVoice : i <= j

(* What play and precache look at before a load starts: the path, and for  *)
(* play the routes, as sequences of [src, dest].                           *)
Precheck(c, command, path, map) ==
  LET routes == InputRoutes(c, map)
  IN  IF ~IsLocalPathAllowed(c, path) THEN "Forbidden"
      ELSE IF command = "play" /\ \E i \in DOMAIN routes : Unresolved \in {routes[i][1], routes[i][2]}
      THEN "InvalidRequest"
      ELSE "Ok"

(* status_for and the reply of send_command.                               *)
StatusFor(outcome) ==
  CASE outcome = "Ok" -> 200
    [] outcome = "InvalidRequest" -> 400
    [] outcome = "NotFound"  -> 404
    [] outcome = "Forbidden" -> 403
    [] outcome = "Cancelled" -> 409
    [] outcome = "Internal"  -> 500
    [] outcome = "TimedOut"  -> 504

(* Of a command that is refused, or that looks for its target.             *)
CommandStatus(r, samples, voices) ==
  CASE IsRejected(r) -> StatusFor("InvalidRequest")
    [] r.command \in Selecting -> StatusFor(SelectingOutcome(r, samples))
    [] r.command \in {"input_volume", "input_mute"} ->
         StatusFor(IF InputReached(r.args["input"][2], voices) = 0 THEN "NotFound" ELSE "Ok")
=============================================================================
