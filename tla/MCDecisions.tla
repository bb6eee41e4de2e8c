----------------------------- MODULE MCDecisions ----------------------------
(* The inputs put to the daemon, one part at a time.                       *)
EXTENDS Decisions

MCNumeral == [s \in {"0", "1", "7"} |-> CASE s = "0" -> 0 [] s = "1" -> 1 [] s = "7" -> 7]

Str(s) == <<"str", s>>
Num(n) == <<"num", n>>
Bool(b) == <<"bool", b>>

MCMacros ==
  [loud   |-> Obj([volume |-> Num(9), voice |-> Str("w"), speed |-> Num(0)]),
   slow   |-> Obj([volume |-> Num(2), file |-> Str("b"), time |-> Num(6), fade_in |-> Num(4)]),
   broken |-> Num(1)]

MCMacroUses ==
  {Null, Str("loud"), Str("none"), Num(2), <<"arr", <<Str("loud"), Str("slow")>>>>,
   <<"arr", <<Str("slow"), Num(1), Str("broken"), Str("loud")>>>>}

(* The values each field is tried with, wrong types and nulls included.    *)
Map(src) == <<"arr", <<Obj([src |-> src, dest |-> Num(0)])>>>>
Values ==
  [file |-> {Str("a")}, id |-> {Str("x"), Null}, voice |-> {Str("v"), Num(1)},
   internal_id |-> {Str("7"), Str("seven")}, volume |-> {Num(-1), Num(2), Num(9), Str("2")},
   speed |-> {Num(0), Num(2)}, time |-> {Num(5), Num(-1)}, time_ms |-> {Num(5), Num(-1)},
   fade_out_ms |-> {Num(7), Null}, fade_in |-> {Num(3), Str("3")},
   start_position_ms |-> {Num(8)}, loop |-> {Bool(TRUE), Bool(FALSE)}, loop_mode |-> {Bool(TRUE)},
   crossfade_ms |-> {Num(3)}, channel_map |-> {Map(Str("left")), Map(Num(-1)), Num(3)},
   position_ms |-> {Num(4)}, pitch_correction |-> {Bool(TRUE)}, extra |-> {Num(1)},
   input |-> {Str("0"), Str("1"), Str("mic")}, mute |-> {Bool(TRUE), Bool(FALSE), Null}]

Fields(command) ==
  IF command \in Bare THEN {}
  ELSE DOMAIN MessageOf[command].required \cup DOMAIN MessageOf[command].optional
       \cup DOMAIN MessageOf[command].alias
       \cup DOMAIN ParamsOf[command].required \cup DOMAIN ParamsOf[command].optional
       \cup {"extra"}

(* All bodies of at most n of the fields.                                  *)
BodiesUpTo(n, fields) ==
  UNION {{body \in [chosen -> UNION {Values[f] : f \in chosen}] :
            \A f \in chosen : body[f] \in Values[f]}
         : chosen \in {c \in SUBSET fields : Cardinality(c) <= n}}

MCBodies == [command \in DOMAIN MessageOf \cup Bare |-> BodiesUpTo(3, Fields(command))]
MCMacroBodies ==
  [command \in DOMAIN MessageOf \cup Bare |-> BodiesUpTo(2, Fields(command) \ {"extra"})]

MCSamples ==
  {[number |-> 7, id |-> Str("x"), file |-> "a", voice |-> "w", rated |-> TRUE],
   [number |-> 1, id |-> Null, file |-> "b", voice |-> "v", rated |-> FALSE]}
MCInputVoices == {<< >>, <<"mic">>, <<"mic", "mic">>, <<"1", "mic">>}

---------------------------------------------------------------------------
Base ==
  [topic |-> "cmd", sample_rate |-> 48000, channels |-> Absent, device |-> "", buffer_size |-> 512,
   verbose |-> FALSE, level |-> "info", log_topic |-> "", max_memory_mb |-> 512, allowed |-> {},
   http |-> [enabled |-> FALSE, port |-> 8080, bind |-> "0.0.0.0", token |-> Absent],
   aliases |-> [left |-> 0, sub |-> 1], names |-> << >>, volumes |-> << >>,
   bass |-> [enabled |-> FALSE, lfe |-> Num(3), crossover |-> 80, sources |-> << >>, remove |-> FALSE],
   inputs |-> << >>, rules |-> << >>]

Input(route) ==
  [volume |-> 1, routes |-> <<route>>, latency_ms |-> 20, channels |-> Absent,
   sample_rate |-> Absent, threshold |-> Absent, hold_ms |-> 750]

BassOn(lfe, sources, remove) ==
  [enabled |-> TRUE, lfe |-> lfe, crossover |-> 80, sources |-> sources, remove |-> remove]

MCBassSetups ==
  {Base.bass} \cup
  {BassOn(lfe, sources, remove) :
     lfe \in {Num(1), Str("sub"), Num(5), Str("none")},
     sources \in {<<Num(0)>>, <<Str("left"), Num(2)>>, <<Num(0), Str("0")>>, <<Num(1), Num(0)>>,
                  <<Num(0), Str("left")>>, <<Num(7)>>, << >>},
     remove \in BOOLEAN}

Names == {<< >>, <<[channel |-> "1", label |-> "Rear"], [channel |-> "x", label |-> "Rear"]>>,
          <<[channel |-> "x", label |-> "Rear"], [channel |-> "1", label |-> "Rear"]>>}
Volumes == {<< >>, <<[key |-> "0", gain |-> 2], [key |-> "left", gain |-> 3]>>,
            <<[key |-> "Rear", gain |-> 2]>>, <<[key |-> "7", gain |-> 2]>>,
            <<[key |-> "sub", gain |-> 5]>>}
Inputs == {<< >>, <<Input([src |-> Num(0), dest |-> Str("left")])>>,
           <<Input([src |-> Str("1"), dest |-> Str("Rear")])>>,
           <<[Input([src |-> Num(0), dest |-> Num(0)]) EXCEPT !.latency_ms = 2]>>}

(* Three parts are varied together where one resolves through another, the *)
(* rest one at a time.                                                     *)
MCConfigs ==
  {[Base EXCEPT !.names = names, !.volumes = volumes, !.inputs = inputs] :
     names \in Names, volumes \in Volumes, inputs \in Inputs}
  \cup {[Base EXCEPT !.bass = bass] : bass \in MCBassSetups}
  \cup {[Base EXCEPT !.topic = topic, !.http.enabled = on, !.http.token = token, !.level = level,
                     !.verbose = verbose] :
          topic \in {"", "cmd"}, on \in BOOLEAN, token \in {Absent, 3},
          level \in {"error", "trace", "loud"}, verbose \in BOOLEAN}

NoOptions ==
  [topic |-> "", sample_rate |-> Absent, channels |-> Absent, device |-> "", verbose |-> FALSE,
   log_topic |-> "", http_port |-> Absent, max_cache_mb |-> Absent]
MCCommandLines ==
  {NoOptions, [NoOptions EXCEPT !.verbose = TRUE, !.topic = "line"],
   [NoOptions EXCEPT !.http_port = 9000, !.sample_rate = 4000],
   [NoOptions EXCEPT !.sample_rate = 44100, !.max_cache_mb = 1]}

(* /home/u/in holds a, a link to /etc and one to /home/u/in/sub.           *)
MCHome == <<"home", "u">>
Below == MCHome \o <<"in">>
MCExisting ==
  {<< >>, <<"home">>, MCHome, Below, Below \o <<"a">>, Below \o <<"sub">>, Below \o <<"sub", "b">>,
   MCHome \o <<"inner">>, MCHome \o <<"inner", "c">>, <<"etc">>, <<"etc", "d">>}
MCLinks == (Below \o <<"out">>) :> <<"etc">> @@ (<<"etc", "back">>) :> (Below \o <<"sub">>)
MCPaths ==
  {<<"~", "in", "a">>, <<"http:", "server", "a">>} \cup MCExisting \cup
  {Below \o end : end \in {<<"..", "inner", "c">>, <<"out", "d">>, <<"out", "back", "b">>,
                          <<"sub", "..", "a">>, <<"none">>, <<"..", "..", "..", "..", "etc", "d">>}}
MCAliases == [rear |-> 2]
MCMaps ==
  {<< >>, <<[src |-> <<"num", 0>>, dest |-> <<"str", "rear">>]>>,
   <<[src |-> <<"num", 0>>, dest |-> <<"str", "1">>], [src |-> <<"str", "side">>, dest |-> <<"num", 9>>]>>}
MCAllowedDirs == {{}, {Below}, {<<"~", "in">>, <<"gone">>}, {Below \o <<"out">>}, {<<"gone">>}}

---------------------------------------------------------------------------
Name(text, prefix, card) == [text |-> text, prefix |-> prefix, card |-> card]
MCDeviceNumeral == [s \in {"0", "1", "9"} |-> CASE s = "0" -> 0 [] s = "1" -> 1 [] s = "9" -> 9]
MCCards == [umc |-> 1, pch |-> 0]
Umc   == Name("plughw:CARD=umc", "plughw", <<"name", "umc">>)
UmcHw == Name("hw:CARD=umc", "hw", <<"name", "umc">>)
Pch   == Name("plughw:CARD=pch", "plughw", <<"name", "pch">>)
One   == Name("1", "", NoCard)
Pulse == Name("pulse", "", NoCard)
Own   == Name("living_room", "", NoCard)
MCListings ==
  {<< >>, <<Pch, Umc>>, <<Umc, Pch, One>>, <<UmcHw, Umc, Own, Umc>>, <<Own, Pulse, Umc>>,
   <<Name("null", "", NoCard), Name("upmix", "", NoCard), Own, Pch>>,
   <<Name("hw:CARD=gone", "hw", <<"name", "gone">>), Name("default", "", NoCard)>>,
   <<Name("sysdefault:CARD=pch", "sysdefault", <<"name", "pch">>), Pulse>>}
MCRequests ==
  {One, Umc, Name("0", "", NoCard), Name("9", "", NoCard), Own,
   Name("plughw:1,0", "plughw", <<"index", 1>>), Name("hw:1,0", "hw", <<"index", 1>>)}

Format(channels, min, max, format, sizes) ==
  [channels |-> channels, min |-> min, max |-> max, format |-> format, sizes |-> sizes]
MCFormats ==
  {<< >>, <<Format(2, 44100, 48000, "f32", <<128, 256>>), Format(1, 8000, 8000, "f32", UnknownSizes)>>,
   <<Format(4, 8000, 8000, "f32", UnknownSizes), Format(4, 44100, 900000, "f32", <<64, 512>>),
     Format(8, 48000, 48000, "f32", <<64, 512>>)>>,
   <<Format(10, 44100, 44100, "s32", <<64, 512>>), Format(2, 96000, 96000, "f32", <<2048, 4096>>)>>,
   <<Format(6, 768000, 768000, "f32", UnknownSizes)>>,
   <<Format(3, 44100, 44100, "f32", <<64, 8192>>), Format(64, 8000, 900000, "f32", UnknownSizes),
     Format(10000, 8000, 48000, "f32", UnknownSizes)>>}
MCWanted ==
  {[channels |-> channels, rate |-> rate, size |-> 512, latency |-> 5] :
     channels \in {Unset, 2, 4, 65538}, rate \in {44100, 48000}}
MCRoutings == {<<<<highest, 0>>, <<0, 1>>>> : highest \in 0 .. 2} \cup {<< >>}
MCDefaultFormat == [channels |-> 2, rate |-> 44100]

---------------------------------------------------------------------------
Content(bass, treble) == [bass |-> bass, treble |-> treble]
Stereo == [ch \in 0 .. 1 |-> IF ch = 0 THEN Content(1, 10) ELSE Content(2, 20)]
Mono   == [ch \in 0 .. 0 |-> Content(3, 30)]
MCMixParts ==
  {<<[frame |-> Stereo, map |-> DefaultMap(2), gain |-> 1]>>,
   <<[frame |-> Mono, map |-> <<<<0, 0>>, <<0, 1>>, <<0, 2>>>>, gain |-> 2],
     [frame |-> Stereo, map |-> <<<<1, 0>>, <<5, 1>>, <<0, 9>>, <<0, 2>>>>, gain |-> 1]>>}

---------------------------------------------------------------------------
Resampled(from, to, delay, slack) == [from |-> from, to |-> to, delay |-> delay, slack |-> slack]
MCFileRates ==
  {Resampled(2, 2, 0, 0), Resampled(2, 1, 1, 0), Resampled(1, 2, 3, 1), Resampled(3, 2, 2, 1),
   Resampled(2, 3, 5, 2)}
Packets == ({"audio"} \X {0, 1, 3, 6}) \cup {<<"other", 2>>, <<"corrupt", 2>>, <<"broken", 0>>}
MCFiles == SeqOf(Packets, 4)
=============================================================================
