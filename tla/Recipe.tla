-------------------------------- MODULE Recipe --------------------------------
(***************************************************************************)
(* The options of a run and its recipe, the command line that is saved     *)
(* beside the program and that /continue and the setup screen read back:   *)
(* how a command line is parsed, what options the parsed values make       *)
(* (Process), and how the setup screen writes the options it has as a      *)
(* command line (BuildCommandLineArgs).                                    *)
(*                                                                         *)
(* A command line is a sequence of tokens: <<name, value>> for an option   *)
(* with its value, <<name>> for an option without, spelled with a slash,   *)
(* <<"", path>> for any other word.  Options have their canonical names,   *)
(* aliases and quotes are gone.  A path is a tuple and <<>> is no path;    *)
(* real numbers are in thousandths.                                        *)
(***************************************************************************)
EXTENDS Integers, Sequences, SequencesExt

CONSTANTS
    Hardware,           \* hardware threads
    Clock,              \* a seed taken from the clock
    Unlimited           \* evaluations without a limit

ASSUME RecipeAssumption == Hardware \in Nat \ {0} /\ Clock > 0 /\ Unlimited > 0

NoPath      == <<>>
PlainOutput == <<"output">>            \* "output.png"
Laoo        == <<"palette", "laoo">>   \* "Palettes/laoo.act"

\* One record of options over another.
With(c, d) == [o \in DOMAIN c \cup DOMAIN d |-> IF o \in DOMAIN d THEN d[o] ELSE c[o]]

-----------------------------------------------------------------------------
(* The parser. *)

Flags ==
    <<"help", "version", "continue", "preprocess", "quiet", "livegui", "details_allocate">>

RunOptions ==
    <<"input", "output", "palette", "threads", "max_evals", "save", "seed", "solutions",
      "optimizer", "graphics_mode", "playfield", "unstuck_after", "unstuck_drift",
      "unstuck_drift_norm", "subfolder">>

ImageOptions ==
    <<"distance", "predistance", "objective", "spatial_weight", "edge_weight",
      "region_weight", "dither", "dither_val", "dither_rand", "filter", "init", "height",
      "cache", "details", "target", "details_val", "details_mode", "details_floor",
      "details_feather", "details_refine_mix", "details_score", "details_layer",
      "details_global_period", "brightness", "contrast", "gamma", "saturation",
      "vibrance", "onoff">>

DualOptions ==
    <<"dual", "first_dual_steps", "after_dual_steps", "altering_dual_steps",
      "dual_blending", "dual_luma", "dual_chroma", "dual_dither", "dual_dither_val",
      "dual_dither_rand">>

Specs         == RunOptions \o ImageOptions \o DualOptions
ValueOptions  == ToSet(Specs)
ImplicitValue == [palette |-> Laoo, dual |-> "on"]

\* The value of the option at i, if there is one: its own, or the word that
\* follows, or the one it stands for.
ValueAt(line, i) ==
    IF Len(line[i]) = 2 THEN {line[i][2]}
    ELSE IF i < Len(line) /\ line[i + 1][1] = "" THEN {line[i + 1][2]}
    ELSE {ImplicitValue[o] : o \in {line[i][1]} \cap DOMAIN ImplicitValue}

\* A word that is not the value of the option before it.
IsPositional(line, i) ==
    /\ line[i][1] = ""
    /\ ~(i > 1 /\ Len(line[i - 1]) = 1 /\ line[i - 1][1] \in ValueOptions)

\* Of an option given twice the last one counts.
Occurrence(line, o) ==
    CHOOSE i \in DOMAIN line :
        line[i][1] = o /\ \A j \in DOMAIN line : line[j][1] = o => j <= i

Parse(line) ==
    LET names == {line[i][1] : i \in DOMAIN line}
        given == names \cap ValueOptions
        valued == {o \in given : ValueAt(line, Occurrence(line, o)) # {}}
        words == SelectSeq([i \in DOMAIN line |-> i], LAMBDA i : IsPositional(line, i))
    IN [values     |-> [o \in valued |->
                          CHOOSE x \in ValueAt(line, Occurrence(line, o)) : TRUE],
        flags      |-> names \cap ToSet(Flags),
        positional |-> [i \in DOMAIN words |-> line[words[i]][2]],
        bad        |-> \/ ~(names \subseteq ValueOptions \cup ToSet(Flags) \cup {""})
                       \/ \E i \in DOMAIN line :
                            line[i][1] \in ValueOptions /\ ValueAt(line, i) = {}]

\* What is parsed as a command line again, for /continue: words come first.
NormalizedTokens(p) ==
    LET options == SelectSeq(Specs, LAMBDA o : o \in DOMAIN p.values)
        flags == SelectSeq(Flags, LAMBDA f : f \in p.flags)
    IN [i \in DOMAIN p.positional |-> <<"", p.positional[i]>>]
       \o [i \in DOMAIN options |-> <<options[i], p.values[options[i]]>>]
       \o [i \in DOMAIN flags |-> <<flags[i]>>]

-----------------------------------------------------------------------------
(* The options that values make. *)

Given(p, o, default) == IF o \in DOMAIN p.values THEN p.values[o] ELSE default

Named(x, names, default) == IF x \in names THEN x ELSE default

Clamp(x, lo, hi) == IF x < lo THEN lo ELSE IF x > hi THEN hi ELSE x

AtLeast(x, lo) == IF x < lo THEN lo ELSE x

AtMost(x, hi) == IF x > hi THEN hi ELSE x

Distances == {"euclid", "yuv", "ciede", "cie94", "oklab", "rasta"}

\* Names of before still have their meaning.
SearchDistance(name) == IF name = "ciede2000" THEN "ciede" ELSE Named(name, Distances, "rasta")

Objective(name) ==
    IF name \in {"source", "source-spatial", "source-composite", "source-edge",
                 "source-region"}
    THEN "source" ELSE "target"

Dither(name) ==
    IF name = "cdither" THEN "chess"
    ELSE Named(name, {"floyd", "rfloyd", "line", "line2", "chess", "2d", "jarvis",
                      "simple", "knoll"}, "none")

ProcessFiles(p) ==
    [input       |-> Given(p, "input", NoPath),
     output      |-> Given(p, "output", PlainOutput),
     palette     |-> Given(p, "palette", Laoo),
     distance    |-> SearchDistance(Given(p, "distance", "rasta")),
     subfolder   |-> Given(p, "subfolder", "on") \notin {"off", "0", "false"},
     objective   |-> Objective(Given(p, "objective", "target")),
     continue    |-> "continue" \in p.flags]

ProcessTarget(p) ==
    [predistance |-> Named(Given(p, "predistance", "ciede"), Distances, "ciede"),
     dither      |-> Dither(Given(p, "dither", "none")),
     dither_val  |-> Given(p, "dither_val", 1000),
     dither_rand |-> Clamp(Given(p, "dither_rand", 0), 0, 1000),
     cache       |-> Given(p, "cache", 64000),
     seed        |-> Given(p, "seed", Clock),
     details     |-> Given(p, "details", NoPath),
     target      |-> Given(p, "target", NoPath),
     onoff       |-> Given(p, "onoff", NoPath),
     threads     |-> Clamp(Given(p, "threads", 1), 1, Hardware),
     save        |-> Given(p, "save", -1)]

DetailsModes == {"legacy", "normalized", "refined"}

\* Outside of [0.01, 1], [0, 8] and [2, 100] are no such values.
DetailsFloor(x) == Clamp(x, 10, 1000)

ProcessDetails(p) ==
    [details_val   |-> Given(p, "details_val", 500),
     details_mode  |-> Named(Given(p, "details_mode", "legacy"), DetailsModes, "legacy"),
     details_floor |-> DetailsFloor(Given(p, "details_floor", 250)),
     details_feather    |-> Clamp(Given(p, "details_feather", 1), 0, 8),
     details_refine_mix |-> Clamp(Given(p, "details_refine_mix", 500), 0, 1000),
     details_score      |-> Given(p, "details_score", "on") # "off",
     details_layer      |-> Given(p, "details_layer", "off") = "on",
     details_allocate   |-> "details_allocate" \in p.flags,
     details_global_period |-> Clamp(Given(p, "details_global_period", 5), 2, 100)]

ProcessSearch(p) ==
    [solutions     |-> AtLeast(Given(p, "solutions", 1), 1),
     optimizer     |-> Named(Given(p, "optimizer", "lahc"), {"lahc", "dlas", "legacy"},
                             "lahc"),
     unstuck_after |-> Given(p, "unstuck_after", 0),
     unstuck_drift |-> AtLeast(Given(p, "unstuck_drift_norm",
                                     Given(p, "unstuck_drift", 0)), 0),
     preprocess    |-> "preprocess" \in p.flags,
     brightness    |-> Clamp(Given(p, "brightness", 0), -100, 100),
     contrast      |-> Clamp(Given(p, "contrast", 0), -100, 100),
     gamma         |-> Clamp(Given(p, "gamma", 1000), 0, 8000),
     saturation    |-> Clamp(Given(p, "saturation", 0), -100, 100),
     vibrance      |-> Clamp(Given(p, "vibrance", 0), -100, 100)]

ProcessPicture(p) ==
    [graphics_mode |-> Named(Given(p, "graphics_mode", "e"), {"e", "antic4"}, "e"),
     playfield     |-> Named(Given(p, "playfield", "normal"), {"normal", "wide"}, "normal"),
     filter        |-> Named(Given(p, "filter", "box"),
                             {"box", "bicubic", "bilinear", "bspline", "catmullrom"},
                             "lanczos3"),
     init          |-> Named(Given(p, "init", "random"), {"random", "empty", "less"},
                             "smart"),
     height        |-> AtMost(Given(p, "height", -1), 240),
     max_evals     |-> Given(p, "max_evals", Unlimited)]

ProcessDual(p) ==
    [dual                |-> Given(p, "dual", "off") \in {"on", "1", "true"},
     first_dual_steps    |-> Given(p, "first_dual_steps", 100000),
     after_dual_steps    |-> Named(Given(p, "after_dual_steps", "copy"),
                                   {"copy", "generate"}, "copy"),
     altering_dual_steps |-> Given(p, "altering_dual_steps", 50000),
     dual_blending       |-> Named(Given(p, "dual_blending", "yuv"), {"yuv", "rgb"}, "yuv"),
     dual_luma           |-> AtLeast(Given(p, "dual_luma", 200), 0),
     dual_chroma         |-> AtLeast(Given(p, "dual_chroma", 100), 0),
     dual_dither         |-> Named(Given(p, "dual_dither", "none"),
                                   {"knoll", "random", "chess", "line", "line2"}, "none"),
     dual_dither_val     |-> Clamp(Given(p, "dual_dither_val", 125), 0, 2000),
     dual_dither_rand    |-> Clamp(Given(p, "dual_dither_rand", 0), 0, 1000)]

\* Without /input it is the first word, and without a word the first argument,
\* an option as it may be.
PositionalInput(line, p) ==
    IF p.positional # <<>> THEN p.positional[1]
    ELSE IF line # <<>> THEN <<"argument", line[1][1]>>
    ELSE NoPath

\* ANTIC 4 has complete character rows.
NormalizeAntic4Height(h) == IF h < 8 THEN 8 ELSE ((Clamp(h, 8, 240) + 4) \div 8) * 8

Reconciled(line, p, c) ==
    [c EXCEPT !.input = IF @ = NoPath THEN PositionalInput(line, p) ELSE @,
              !.objective = IF c.dual THEN "target" ELSE @,
              !.height = IF c.graphics_mode = "antic4" /\ @ # -1
                         THEN NormalizeAntic4Height(@) ELSE @]

Process(line) ==
    LET p == Parse(line)
    IN Reconciled(line, p,
         With(With(With(ProcessFiles(p), ProcessTarget(p)),
                   With(ProcessDetails(p), ProcessSearch(p))),
              With(ProcessPicture(p), ProcessDual(p))))

\* Which interface a command line asks for.
LiveGui(line) == line = <<>> \/ "livegui" \in Parse(line).flags

BadArguments(line) ==
    LET p == Parse(line)
        c == Process(line)
    IN \/ p.bad
       \/ Given(p, "details_mode", "legacy") \notin DetailsModes
       \/ Given(p, "details_score", "on") \notin {"on", "off"}
       \/ Given(p, "details_layer", "off") \notin {"on", "off"}
       \/ Given(p, "graphics_mode", "e") \notin {"e", "antic4"}
       \/ Given(p, "playfield", "normal") \notin {"normal", "wide"}
       \/ c.dual /\ (c.graphics_mode = "antic4" \/ c.playfield = "wide")
       \/ c.input = NoPath /\ ~c.continue /\ ~LiveGui(line)

-----------------------------------------------------------------------------
(* What a resumed run is compared with to tell whether its history still   *)
(* holds.  The details options are compared with those of a run without    *)
(* details, since ProcessCmdLine has never recorded others.                *)

BaselineOptions ==
    {"optimizer", "solutions", "distance", "predistance", "dither", "objective"}

Baseline(c) == [o \in BaselineOptions |-> c[o]]

-----------------------------------------------------------------------------
(* The setup screen: its defaults, and the table of options in the order   *)
(* in which they are written.                                              *)

DefaultConfiguration ==
    [graphics_mode |-> "e", playfield |-> "normal", input |-> NoPath, height |-> -1,
     filter |-> "box", palette |-> Laoo,
     brightness |-> 0, contrast |-> 0, gamma |-> 1000, saturation |-> 0, vibrance |-> 0,
     predistance |-> "ciede", dither |-> "none", dither_val |-> 1000, dither_rand |-> 0,
     objective |-> "target", distance |-> "rasta",
     details |-> NoPath, details_mode |-> "legacy", details_val |-> 500,
     details_floor |-> 250, details_feather |-> 1, details_refine_mix |-> 500,
     details_score |-> TRUE, details_allocate |-> FALSE, details_global_period |-> 5,
     details_layer |-> FALSE, target |-> NoPath,
     optimizer |-> "lahc", solutions |-> 1, init |-> "random", unstuck_after |-> 0,
     unstuck_drift |-> 0, seed |-> 0, onoff |-> NoPath,
     dual |-> FALSE, first_dual_steps |-> 100000, after_dual_steps |-> "copy",
     altering_dual_steps |-> 50000, dual_blending |-> "yuv", dual_luma |-> 200,
     dual_chroma |-> 100, dual_dither |-> "none", dual_dither_val |-> 125,
     dual_dither_rand |-> 0,
     output |-> PlainOutput, threads |-> 1, cache |-> 64000, max_evals |-> Unlimited,
     save |-> -1, continue |-> FALSE, subfolder |-> TRUE, preprocess |-> FALSE]

SourceTable  == <<"graphics_mode", "playfield", "input", "height", "filter", "palette">>

ColourTable  == <<"brightness", "contrast", "gamma", "saturation", "vibrance",
                  "predistance", "dither", "dither_val", "dither_rand">>

DetailsTable == <<"objective", "distance", "details", "details_mode", "details_val",
                  "details_floor", "details_feather", "details_refine_mix",
                  "details_score", "details_allocate", "details_global_period">>

SearchTable  == <<"optimizer", "solutions", "init", "unstuck_after", "unstuck_drift",
                  "seed", "onoff">>

DualTable    == <<"dual", "first_dual_steps", "after_dual_steps", "altering_dual_steps",
                  "dual_blending", "dual_luma", "dual_chroma", "dual_dither",
                  "dual_dither_val", "dual_dither_rand">>

OutputTable  == <<"output", "threads", "cache", "max_evals", "save", "continue",
                  "subfolder", "preprocess">>

Table == SourceTable \o ColourTable \o DetailsTable \o SearchTable \o DualTable
         \o OutputTable

Modified(c, o) == c[o] # DefaultConfiguration[o]

Switches == {"details_score", "dual", "subfolder"}

\* A line cache is written in whole megabytes.
Printed(c, o) ==
    IF o \in Switches THEN IF c[o] THEN "on" ELSE "off"
    ELSE IF o = "cache" THEN (c.cache \div 1000) * 1000
    ELSE c[o]

BuildCommandLineArgs(c) ==
    LET changed == SelectSeq(Table, LAMBDA o : Modified(c, o))
    IN [i \in DOMAIN changed |->
          IF changed[i] \in ToSet(Flags) THEN <<changed[i]>>
          ELSE <<changed[i], Printed(c, changed[i])>>]

\* An option of a recipe set anew: it goes, with its value, and comes last.
SetRecipeOption(line, o, value) ==
    LET kept == SelectSeq([i \in DOMAIN line |-> i],
                          LAMBDA i : /\ line[i][1] # o
                                     /\ ~(i > 1 /\ line[i - 1] = <<o>>))
    IN Append([i \in DOMAIN kept |-> line[kept[i]]], <<o, value>>)

===============================================================================
