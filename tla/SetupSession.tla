---------------------------- MODULE SetupSession ----------------------------
(***************************************************************************)
(* A session of the live user interface: the setup screen with its form,   *)
(* its history of runs and its own idea of where a run is to be written;   *)
(* the conversions started from it, one after the other in one process;    *)
(* and what they leave on disk for the next session, or for /continue on   *)
(* the command line.                                                       *)
(*                                                                         *)
(* Paths are absolute.  A picture is <<"src", image>>.  The output of a    *)
(* run is <<image, n, "run">> in a folder of its own, <<image, n>>, or     *)
(* <<"beside", image, n>> in the picture's.  Its artifacts, the edited     *)
(* details layer and target, have its path and one more component.  The    *)
(* programs of a dual-frame run have the same names in every folder.       *)
(***************************************************************************)
EXTENDS Recipe

CONSTANTS
    Images, Masks,      \* names of pictures, paths of details masks
    Offered,            \* Offered[o]: what the user may set option o to
    TypedOutputs,       \* outputs the user may type
    Launches,           \* command lines
    MaxRunIndex,        \* the last number of a run folder
    MaxEdits, MaxStarts             \* bounds: of edits, of launches and conversions

ASSUME SessionAssumption ==
    /\ \A o \in DOMAIN Offered : o \in DOMAIN DefaultConfiguration
    /\ {MaxRunIndex, MaxEdits, MaxStarts} \subseteq Nat

VARIABLES
    phase,              \* off, between runs, in the setup screen, starting, running
    opts,               \* the options of the session
    live, parser,       \* live_gui; what the last command line parsed gave
    override, baseline, \* resume_override_tokens, resume_saved_*
    line,               \* command_line
    touched, dualE,     \* the form: output_touched, antic_e_dual_mode
    preference,         \* the saved choice of a folder of its own
    run,                \* the conversion, from when it is accepted
    saved,              \* programs on disk: recipe, and what they were found with
    states,             \* outputs with a saved optimizer state
    files,              \* details layers and targets on disk
    folders,            \* folders of runs
    recent,             \* the index of recent runs
    reset,              \* history: Reset was pressed in this session
    edits, starts

session == <<opts, live, parser, override, baseline, line, reset>>
form    == <<touched, dualE>>
disk    == <<saved, states, files, folders>>
bounds  == <<edits, starts>>
vars    == <<phase, session, form, preference, run, disk, recent, bounds>>

-----------------------------------------------------------------------------
(* Where a run is written. *)

FolderOf(out) == IF out[1] = "beside" THEN <<"beside">> ELSE SubSeq(out, 1, Len(out) - 1)

\* Where its program is: those of dual-frame runs are called out_dual_A and B.
DualProgram(out) == FolderOf(out) \o <<"out_dual">>

ProgramOf(out, c) == IF c.dual THEN DualProgram(out) ELSE out

PictureExists(out) == out \in DOMAIN saved

\* The first number that is free, or the last one.
FirstFree(free) ==
    IF free = {} THEN MaxRunIndex ELSE CHOOSE n \in free : \A m \in free : n <= m

AllocateRunOutputPath(input, subfolder) ==
    LET image == input[2]
    IN IF input = NoPath THEN PlainOutput
       ELSE IF subfolder
       THEN <<image, FirstFree({n \in 1..MaxRunIndex : <<image, n>> \notin folders}), "run">>
       ELSE <<"beside", image,
              FirstFree({n \in 0..MaxRunIndex : ~PictureExists(<<"beside", image, n>>)})>>

CreateRunFolder(out) == folders' = folders \cup {FolderOf(out)}

RegisterRecentRun(folder) ==
    recent' = <<folder>> \o SelectSeq(recent, LAMBDA f : f # folder)

-----------------------------------------------------------------------------
(* The start of the program and of each pass through the setup screen. *)

\* What is looked up in the parser after it has made the options.
Arguments(l) ==
    LET p == Parse(l)
    IN [seed |-> "seed" \in DOMAIN p.values, threads |-> "threads" \in DOMAIN p.values,
        output |-> Given(p, "output", PlainOutput)]

Init ==
    /\ phase = "off"
    /\ opts = DefaultConfiguration
    /\ live = TRUE
    /\ parser = Arguments(<<>>)
    /\ override = <<>> /\ baseline = {} /\ line = <<>> /\ reset = FALSE
    /\ touched = FALSE /\ dualE = FALSE
    /\ preference = TRUE
    /\ run = {}
    /\ saved = [p \in {} |-> 0] /\ states = {} /\ files = {} /\ folders = {<<"beside">>}
    /\ recent = <<>>
    /\ edits = 0 /\ starts = 0

\* What a process leaves is on disk: programs, pictures, history, preference.
Exit ==
    /\ phase' = "off"
    /\ opts' = DefaultConfiguration
    /\ live' = TRUE
    /\ parser' = Arguments(<<>>)
    /\ override' = <<>> /\ baseline' = {} /\ line' = <<>> /\ reset' = FALSE
    /\ touched' = FALSE /\ dualE' = FALSE

\* What is resumed from the command line is an output that was saved.
Resuming == {<<<<"continue">>, <<"output", out>>>> : out \in states}

Launch ==
    /\ phase = "off"
    /\ starts < MaxStarts
    /\ starts' = starts + 1
    /\ \E l \in Launches \cup Resuming :
         LET p == Parse(l)
             c == Process(l)
         IN /\ ~BadArguments(l)
            /\ opts' = IF LiveGui(l) /\ "subfolder" \notin DOMAIN p.values
                       THEN [c EXCEPT !.subfolder = preference] ELSE c
            /\ live' = LiveGui(l)
            /\ parser' = Arguments(l)
            /\ override' = IF c.continue THEN NormalizedTokens(p) ELSE <<>>
            /\ line' = l
            /\ phase' = IF LiveGui(l) THEN "between" ELSE "starting"
            /\ run' = IF LiveGui(l) THEN {} ELSE {[opts |-> c, setup |-> FALSE, picked |-> {}, own |-> FALSE]}
    /\ baseline' = {} /\ reset' = FALSE
    /\ UNCHANGED <<form, preference, disk, recent, edits>>

\* The form follows a configuration that comes as a whole.
Synced(c) ==
    IF c.graphics_mode = "antic4"
    THEN [c EXCEPT !.height = IF @ > 0 THEN NormalizeAntic4Height(@) ELSE @,
                   !.dual = FALSE]
    ELSE c

SyncStateFromConfig(c) ==
    /\ opts' = Synced(c)
    /\ dualE' = Synced(c).dual

\* Each pass starts a run of its own unless the user picks one to continue.
FreshPass_mutant(c) == [c EXCEPT !.continue = FALSE]

FreshPass(c) == [c EXCEPT !.output = PlainOutput, !.continue = FALSE]

Derived(c) ==
    IF c.output = PlainOutput /\ c.input # NoPath
    THEN [c EXCEPT !.output = AllocateRunOutputPath(c.input, c.subfolder)] ELSE c

OpenSetup ==
    /\ phase = "between"
    /\ phase' = "setup"
    /\ SyncStateFromConfig(Derived(
         [FreshPass(opts) EXCEPT
            !.seed = IF parser.seed THEN @ ELSE 0,
            !.threads = IF parser.threads THEN @ ELSE Hardware]))
    /\ touched' = FALSE
    /\ UNCHANGED <<live, parser, override, baseline, line, reset, preference, run, disk,
                   recent, bounds>>

-----------------------------------------------------------------------------
(* The form.  A box that stands for automatic, random or unlimited sets    *)
(* that value of its option.                                               *)

Editing ==
    /\ phase = "setup"
    /\ edits < MaxEdits
    /\ edits' = edits + 1
    /\ UNCHANGED <<phase, live, parser, override, baseline, line, reset, preference, run,
                   disk, recent, starts>>

Rows(group) == group \cap DOMAIN Offered

EditPicture ==
    /\ Editing
    /\ \E o \in Rows({"filter", "palette", "height"}) : \E v \in Offered[o] :
         opts' = [opts EXCEPT ![o] =
                    IF o = "height" /\ opts.graphics_mode = "antic4" /\ v # -1
                    THEN NormalizeAntic4Height(v) ELSE v]
    /\ UNCHANGED form

\* Mode E gets its dual frames back when the user returns from ANTIC 4.
ApplyGraphicsModeChoice ==
    /\ Editing
    /\ opts' = IF opts.graphics_mode = "e"
               THEN [opts EXCEPT
                       !.graphics_mode = "antic4", !.dual = FALSE,
                       !.height = IF @ > 0 THEN NormalizeAntic4Height(@) ELSE @]
               ELSE [opts EXCEPT
                       !.graphics_mode = "e",
                       !.dual = opts.playfield = "normal" /\ dualE]
    /\ dualE' = IF opts.graphics_mode = "e" THEN opts.dual ELSE dualE
    /\ UNCHANGED touched

Widened_mutant(c, w) == [c EXCEPT !.playfield = w]

Widened(c, w) == [c EXCEPT !.playfield = w, !.dual = @ /\ w # "wide"]

EditPlayfield ==
    /\ Editing
    /\ \E w \in {"normal", "wide"} : opts' = Widened(opts, w)
    /\ UNCHANGED form

\* The controls that are enabled, and the values they offer.
Available(o) ==
    CASE o \in {"dither_val", "dither_rand"} -> opts.dither \notin {"none", "rfloyd"}
      [] o \in {"objective", "distance"} -> ~opts.dual
      [] o \in {"details_floor", "details_feather"} -> opts.details_mode = "normalized"
      [] o = "details_refine_mix" -> opts.details_mode = "refined"
      [] o = "details_allocate" -> opts.details_mode # "legacy"
      [] o = "details_global_period" ->
           opts.details_mode # "legacy" /\ opts.details_allocate
      [] o = "unstuck_drift" -> opts.unstuck_after # 0
      [] o = "dual" -> opts.graphics_mode = "e" /\ opts.playfield = "normal"
      [] o \in {"dual_dither_val", "dual_dither_rand"} -> opts.dual_dither # "none"
      [] OTHER -> TRUE

EditRow(group) ==
    /\ Editing
    /\ \E o \in Rows(group) : Available(o) /\ \E v \in Offered[o] : opts' = [opts EXCEPT ![o] = v]
    /\ UNCHANGED form

EditColour ==
    EditRow({"brightness", "contrast", "gamma", "saturation", "vibrance", "predistance",
             "dither", "dither_val", "dither_rand"})

EditObjective == EditRow({"objective", "distance"})

IsArtifact(p, kind) == p # NoPath /\ p[Len(p)] = kind

\* The mask is any picture, or the edited layer of a run.
EditMask ==
    /\ Editing
    /\ ~opts.dual
    /\ \E m \in {NoPath} \cup Masks \cup {f \in files : IsArtifact(f, "details")} :
         opts' = [opts EXCEPT !.details = m]
    /\ UNCHANGED form

EditDetails ==
    \/ EditMask
    \/ /\ ~opts.dual /\ opts.details # NoPath
       /\ EditRow({"details_mode", "details_val", "details_floor", "details_feather",
                   "details_refine_mix", "details_score", "details_allocate",
                   "details_global_period"})

EditSearch ==
    EditRow({"optimizer", "solutions", "init", "unstuck_after", "unstuck_drift", "seed",
             "onoff"})

EditDual ==
    \/ EditRow({"dual"})
    \/ opts.dual /\ EditRow(ToSet(DualOptions) \ {"dual"})

EditLimits == EditRow({"threads", "cache", "max_evals", "save", "continue", "preprocess"})

EditOutput ==
    /\ Editing
    /\ \E out \in TypedOutputs : opts' = [opts EXCEPT !.output = out]
    /\ touched' = TRUE
    /\ UNCHANGED dualE

AdoptInputFile ==
    /\ Editing
    /\ \E i \in Images :
         LET c == [opts EXCEPT !.input = <<"src", i>>]
         IN opts' = IF touched THEN c
                    ELSE [c EXCEPT !.output = AllocateRunOutputPath(c.input, c.subfolder)]
    /\ UNCHANGED form

OwnFolder ==
    /\ phase = "setup"
    /\ edits < MaxEdits
    /\ edits' = edits + 1
    /\ LET c == [opts EXCEPT !.subfolder = ~@]
       IN /\ opts' = IF touched \/ c.input = NoPath THEN c
                     ELSE [c EXCEPT !.output = AllocateRunOutputPath(c.input, c.subfolder)]
          /\ preference' = c.subfolder
    /\ UNCHANGED <<phase, live, parser, override, baseline, line, reset, form, run, disk,
                   recent, starts>>

\* Reset makes a new configuration of the defaults, with all that goes with one.
Reset ==
    /\ phase = "setup"
    /\ edits < MaxEdits
    /\ edits' = edits + 1
    /\ opts' = [DefaultConfiguration EXCEPT
                  !.input = opts.input, !.output = opts.output,
                  !.threads = opts.threads, !.subfolder = opts.subfolder]
    /\ live' = FALSE
    /\ override' = <<>> /\ baseline' = {}
    /\ reset' = TRUE
    /\ dualE' = FALSE
    /\ UNCHANGED <<phase, parser, line, touched, preference, run, disk, recent,
                   starts>>

-----------------------------------------------------------------------------
(* The history of runs. *)

\* Of the programs in a folder any one may be found.
OptFiles(folder) == {p \in DOMAIN saved : FolderOf(p) = folder}

\* A program the gallery may take for that of a run.
Listed(p) == \E i \in DOMAIN recent : p \in OptFiles(recent[i])

\* A recipe becomes the configuration; the run gets an output of its own.
UseSettings ==
    /\ phase = "setup"
    /\ edits < MaxEdits
    /\ edits' = edits + 1
    /\ \E p \in DOMAIN saved :
         LET recipe == saved[p].line
             c == [Process(recipe) EXCEPT
                     !.input = saved[p].opts.input, !.continue = FALSE,
                     !.subfolder = opts.subfolder]
         IN /\ Listed(p)
            /\ line' = recipe
            /\ parser' = Arguments(recipe)
            /\ baseline' = IF baseline = {} THEN {Baseline(Process(recipe))} ELSE baseline
            /\ SyncStateFromConfig([c EXCEPT
                 !.output = AllocateRunOutputPath(c.input, c.subfolder)])
    /\ touched' = FALSE
    /\ UNCHANGED <<phase, live, override, reset, preference, run, disk, recent,
                   starts>>

\* Only folders made for a run are deleted, with all that is in them.
InFolder(p, f) == Len(p) > Len(f) /\ SubSeq(p, 1, Len(f)) = f

DeleteFolders(gone) ==
    LET stays(p) == \A f \in gone : ~InFolder(p, f)
    IN /\ saved' = [p \in {p \in DOMAIN saved : stays(p)} |-> saved[p]]
       /\ states' = {p \in states : stays(p)}
       /\ files' = {p \in files : stays(p)}
       /\ folders' = folders \ gone

RemoveRecentRuns(listed) ==
    /\ phase = "setup"
    /\ edits < MaxEdits
    /\ edits' = edits + 1
    /\ recent' = SelectSeq(recent, LAMBDA f : f \notin listed)
    /\ \/ DeleteFolders(listed \ {<<"beside">>})
       \/ UNCHANGED disk
    /\ UNCHANGED <<phase, session, form, preference, run, starts>>

RemoveRecentRun == \E i \in DOMAIN recent : RemoveRecentRuns({recent[i]})

ClearRecentRuns ==
    Len(recent) > 1 /\ RemoveRecentRuns({recent[i] : i \in DOMAIN recent})

-----------------------------------------------------------------------------
(* Accepting.  A run with an edited layer or a target of its own gets      *)
(* copies of them, and the recipe is written from the options, with the    *)
(* two that are not in the table.                                          *)

CopiedDetails(c) ==
    IF ~c.continue /\ c.details \in files /\ IsArtifact(c.details, "details")
    THEN {Append(c.output, "details")} ELSE {}

CopiedTarget_mutant(c) == {}

CopiedTarget(c) ==
    IF ~c.continue /\ c.target \in files THEN {Append(c.output, "target")} ELSE {}

Copied(c) ==
    [c EXCEPT !.details = IF CopiedDetails(c) # {} THEN Append(c.output, "details") ELSE @,
              !.target = IF CopiedTarget(c) # {} THEN Append(c.output, "target") ELSE @]

Recipe(c) ==
    BuildCommandLineArgs(c)
    \o (IF c.details_layer THEN <<<<"details_layer", "on">>>> ELSE <<>>)
    \o (IF c.target # NoPath THEN <<<<"target", c.target>>>> ELSE <<>>)

Accept(c, picked) ==
    /\ phase = "setup"
    /\ starts < MaxStarts
    /\ starts' = starts + 1
    /\ phase' = "starting"
    /\ opts' = Copied(c)
    /\ files' = files \cup CopiedDetails(c) \cup CopiedTarget(c)
    /\ line' = Recipe(Copied(c))
    /\ preference' = c.subfolder
    /\ RegisterRecentRun(FolderOf(c.output))
    /\ run' = {[opts |-> Copied(c), setup |-> TRUE, picked |-> picked,
                own |-> ~touched /\ ~c.continue]}
    /\ UNCHANGED <<live, parser, override, baseline, reset, dualE, saved, states, edits>>

Convert ==
    /\ opts.input # NoPath
    /\ Accept(opts, {})
    /\ CreateRunFolder(opts.output)
    /\ UNCHANGED touched

\* A run picked from the history goes on where it was.
Continued_mutant(p) ==
    [opts EXCEPT !.input = saved[p].opts.input, !.continue = TRUE]

Continued(p) ==
    [opts EXCEPT !.input = saved[p].opts.input, !.output = p, !.continue = TRUE]

Continue ==
    \E p \in DOMAIN saved :
        /\ Listed(p)
        /\ Accept(Continued(p), {p})
        /\ touched' = TRUE
        /\ UNCHANGED folders

Quit ==
    /\ phase = "setup"
    /\ preference' = opts.subfolder
    /\ Exit
    /\ UNCHANGED <<run, disk, recent, bounds>>

-----------------------------------------------------------------------------
(* The conversion. *)

Run ==
    /\ phase' = "running"
    /\ UNCHANGED <<form, preference, recent, bounds>>

\* Back to the setup screen, if the run was started there.
End ==
    /\ \E r \in run : IF r.setup THEN phase' = "between" /\ UNCHANGED <<session, form>>
                     ELSE Exit
    /\ run' = {}
    /\ UNCHANGED <<preference, recent, bounds>>

\* What the program cannot start without.
LoadInputBitmap(c) == c.input \in {<<"src", i>> : i \in Images}

Loadable(c) ==
    /\ LoadInputBitmap(c)
    /\ c.details \in {NoPath} \cup Masks \cup files
    /\ c.target \in {NoPath} \cup files
    /\ c.details_allocate => c.details # NoPath

\* What /continue loads, preferring the programs of two frames.
ResumedProgram(out) ==
    IF DualProgram(out) \in DOMAIN saved THEN {DualProgram(out)}
    ELSE {out} \cap DOMAIN saved

DetailsMetric ==
    {"details", "details_mode", "details_val", "details_floor", "details_feather",
     "details_refine_mix"}

\* The options are those of the recipe, and those given with /continue.
HistoryChanged(base, c) ==
    \/ base # Baseline(c)
    \/ ~c.details_score
    \/ \E o \in DetailsMetric : Modified(c, o)

StartingAt == IF live THEN opts.output ELSE parser.output

ResumedLine(p) == saved[p].line \o override

ResumedOptions(p) == [Process(ResumedLine(p)) EXCEPT !.output = StartingAt]

CanResume(p) ==
    /\ p \in ResumedProgram(StartingAt)
    /\ Loadable(ResumedOptions(p))
    /\ \A o \in {"graphics_mode", "playfield"} : ResumedOptions(p)[o] = saved[p].opts[o]

Resume ==
    /\ phase = "starting" /\ opts.continue
    /\ \E p \in DOMAIN saved :
         LET c == ResumedOptions(p)
             base == IF baseline = {} THEN Baseline(Process(saved[p].line))
                     ELSE CHOOSE b \in baseline : TRUE
         IN /\ CanResume(p)
            /\ run' = {With(r, [opts |-> c, line |-> ResumedLine(p),
                               program |-> p, kept |-> StartingAt \in states,
                               rebuilt |-> HistoryChanged(base, c)]) : r \in run}
            /\ opts' = [opts EXCEPT !.solutions = c.solutions]
    /\ Run
    /\ UNCHANGED <<live, parser, override, baseline, line, reset, disk>>

Start ==
    /\ phase = "starting" /\ ~opts.continue
    /\ Loadable(opts) /\ ~opts.preprocess
    /\ run' = {With(r, [line |-> line, program |-> ProgramOf(opts.output, opts),
                       kept |-> FALSE, rebuilt |-> FALSE]) : r \in run}
    /\ Run
    /\ UNCHANGED <<session, disk>>

Preprocess ==
    /\ phase = "starting" /\ ~opts.continue
    /\ Loadable(opts) /\ opts.preprocess
    /\ End
    /\ UNCHANGED disk

\* A missing file, or no program: a message, and the program is over.
Fail ==
    /\ phase = "starting"
    /\ \/ opts.continue /\ \A p \in DOMAIN saved : ~CanResume(p)
       \/ ~opts.continue /\ ~Loadable(opts)
    /\ run' = {}
    /\ Exit
    /\ UNCHANGED <<preference, disk, recent, bounds>>

\* The first save of an edited layer writes it into the options and the recipe.
EditedDetails(r) ==
    LET artifact == Append(r.opts.output, "details")
        c == [r.opts EXCEPT !.details = artifact, !.details_score = TRUE,
                            !.details_layer = TRUE]
        Set(l, o) == SetRecipeOption(l, o, Printed(c, o))
        l1 == Set(Set(Set(r.line, "details"), "details_mode"), "details_val")
        l2 == Set(Set(Set(l1, "details_floor"), "details_feather"), "details_refine_mix")
    IN IF r.opts.details = artifact THEN r
       ELSE With(r, [opts |-> c,
                     line |-> SetRecipeOption(Set(l2, "details_score"),
                                              "details_layer", "on")])

EditedTarget(r) ==
    LET artifact == Append(r.opts.output, "target")
    IN With(r, [opts |-> [r.opts EXCEPT !.target = artifact],
                line |-> SetRecipeOption(r.line, "target", artifact)])

\* What the run is when it has ended: single-frame ones may have been edited.
Edited(r) ==
    {r} \cup (IF r.opts.dual THEN {} ELSE {EditedDetails(r)}
              \cup IF r.opts.objective = "target" THEN {EditedTarget(r)} ELSE {})

Save ==
    /\ phase = "running"
    /\ \E r \in UNION {Edited(r) : r \in run} :
         LET p == ProgramOf(r.opts.output, r.opts)
         IN /\ saved' = With(saved, [q \in {p} |->
                           [line |-> r.line, opts |-> r.opts]])
            /\ states' = states \cup {r.opts.output}
            /\ files' = files \cup {f \in {r.opts.details, r.opts.target} :
                                    f # NoPath /\ f \notin Masks}
    /\ End
    /\ UNCHANGED folders

Abort ==
    /\ phase = "running"
    /\ End
    /\ UNCHANGED disk

-----------------------------------------------------------------------------

Form ==
    \/ EditPicture \/ ApplyGraphicsModeChoice \/ EditPlayfield \/ EditColour
    \/ EditObjective \/ EditDetails \/ EditSearch \/ EditDual \/ EditLimits
    \/ EditOutput \/ AdoptInputFile \/ OwnFolder \/ Reset

Gallery == UseSettings \/ RemoveRecentRun \/ ClearRecentRuns \/ Continue

Conversion == Resume \/ Start \/ Preprocess \/ Fail \/ Save \/ Abort

Next ==
    Launch \/ OpenSetup \/ Form \/ Gallery \/ Convert \/ Quit \/ Conversion

Spec == Init /\ [][Next]_vars

-----------------------------------------------------------------------------

\* Options a run does not read, or that its recipe does not fix: where it is
\* written, whether it was resumed, a seed from the clock, and what two frames
\* have no use for.
Loose(c) ==
    {"output", "subfolder", "continue"}
    \cup (IF c.seed \in {0, Clock} THEN {"seed"} ELSE {})
    \cup (IF c.dual THEN {"objective"} ELSE {})

SameOptions(c, d) == \A o \in DOMAIN c \ Loose(c) : c[o] = d[o]

\* A saved recipe is a command line the program accepts, and it gives the options
\* the program was found with: whatever was chosen in the form, reused, resumed,
\* edited while it ran, or given on the command line.  (One is saved only at the
\* end of a run.)
RecipeReproduces ==
    phase \in {"between", "off"} =>
        \A r \in Range(saved) :
            ~BadArguments(r.line) /\ SameOptions(r.opts, Process(r.line))

\* And it can be used: every picture it names is the user's, or there, whatever
\* other runs were deleted.
RecipeComplete ==
    \A r \in Range(saved) :
        \A o \in {"details", "target"} :
            Given(Parse(r.line), o, NoPath) \in {NoPath} \cup Masks \cup files

\* A run that names no output of its own and starts anew in a folder of its own
\* is not written over an earlier one, unless the numbers have run out.
RunsKeptApart ==
    phase = "starting" =>
        \A r \in run :
            (r.own /\ r.opts.subfolder /\ r.opts.output[2] < MaxRunIndex)
               => \A p \in DOMAIN saved : FolderOf(p) # FolderOf(r.opts.output)

\* A single-frame run picked from the history goes on as it was saved, unless a
\* dual-frame run is in its folder: that program, under that output, with its
\* options and its optimizer state, and with its history, if nothing was changed
\* in this session that resuming compares with, and no details layer is scored.
ResumesAsLeft ==
    [][\A r \in run : \A p \in r.picked :
         (/\ phase = "starting" /\ ~reset /\ override = <<>>
          /\ ~saved[p].opts.dual /\ DualProgram(p) \notin DOMAIN saved) =>
            \E q \in run' :
              /\ q.program = p /\ q.opts.output = p /\ q.kept
              /\ SameOptions(saved[p].opts, q.opts)
              /\ (baseline = {} /\ saved[p].opts.details = NoPath
                  /\ ~HistoryChanged(Baseline(saved[p].opts), saved[p].opts))
                    => ~q.rebuilt]_vars

=============================================================================
