------------------------------ MODULE RunFolder ------------------------------
(***************************************************************************)
(* The folder of a single-frame run: what the main thread writes to it,    *)
(* file by file, while workers publish better programs; the editor, which  *)
(* changes what is optimized for and keeps a snapshot of what was before;  *)
(* branching to a new folder; and /continue after the end of the process,  *)
(* however it came.                                                        *)
(*                                                                         *)
(* What a run optimizes for, an objective, is the editable details layer,  *)
(* the parameters that turn it into weights (mode, strength, floor,        *)
(* feather, and whether it is scored at all) and the target picture.  A    *)
(* folder is a number: 0 stands for the files the user gave, every other   *)
(* one for a run folder, a branch or a snapshot.  A recipe, the saved      *)
(* command line, says which folder's details and target to load.           *)
(***************************************************************************)
EXTENDS Naturals

CONSTANTS
    Progs,              \* raster programs
    Layers, GivenLayer, \* contents of the details layer; that of the user's file
    Params,             \* details parameters
    Scoring,            \* those with /details_score
    Legacy,             \* those in legacy mode, where a weight is a pixel's own
    ScoreOn,            \* ScoreOn[p]: p with /details_score
    EffectiveHash,      \* EffectiveHash[p][l]: hash of the weights l has under p
    Targets, GivenTarget,
    MaxFolders, MaxPublications, MaxEdits, MaxLives     \* bounds

ASSUME GivenAssumption == GivenLayer \in Layers /\ GivenTarget \in Targets
ASSUME ParamsAssumption ==
    /\ Scoring \subseteq Params /\ Legacy \subseteq Params
    /\ ScoreOn \in [Params -> Scoring] /\ \A p \in Scoring : ScoreOn[p] = p
ASSUME HashAssumption ==
    /\ DOMAIN EffectiveHash = Params
    /\ \A p \in Params, l, m \in Layers :
         l # m => EffectiveHash[p][l] # EffectiveHash[p][m]
ASSUME RunFolderBounds ==
    {MaxFolders, MaxPublications, MaxEdits, MaxLives} \subseteq Nat /\ MaxFolders > 0

Folders  == 1..MaxFolders
Requests == [kind : {"mask", "target"}, layer : Layers, params : Params,
             target : Targets, branch : BOOLEAN, prior : Params]

\* No file is there: a file is a set with its content, if it exists.
NoFiles == [details |-> {}, target |-> {}, rp |-> {}, opt |-> {}, pmg |-> {},
            mic |-> {}, png |-> {}, optstate |-> {}]

VARIABLES
    best,               \* the published program
    layer, params, target,  \* the details layer, cfg.details_*, m_picture
    built,              \* the objective the weights were made for, and m_target_hash
    table,              \* the objectives the entries of m_picture_all_errors are of
    scale,              \* the table m_previous_results was scored with, if known
    buffer,             \* what m_created_picture and m_sprites_memory show
    bitmap,             \* output_bitmap
    recipe,             \* cfg.command_line
    output,             \* the folder of cfg.output_file
    maskEdited, targetEdited, editedSinceSave,
    at,                 \* where the main thread is: the file it writes next
    then,               \* where it goes when the files are written
    locked,             \* it has the mutex, or there are no workers
    editor,             \* the open editor session
    request,            \* the edit being applied
    pic,                \* the snapshot SaveBestSolution took
    disk,               \* the files of each folder
    used,               \* folders in use: 1 to used
    complete,           \* history: what the last save of a folder, if it ended, saved
    raced,              \* history: a program was published amid the exports
    publications, edits, lives

search  == <<best, scale, built, table>>
details == <<layer, params, target>>
shown   == <<buffer, bitmap>>
flags   == <<maskEdited, targetEdited, editedSinceSave>>
files   == <<disk, used, complete>>
bounds  == <<publications, edits, lives>>
vars    == <<search, details, shown, recipe, output, flags, at, then, locked, editor,
             request, pic, files, raced, bounds>>

Objective == [layer |-> layer, params |-> params, target |-> target]

-----------------------------------------------------------------------------
(* A new run: its folder is empty. *)

Init ==
    /\ best \in Progs
    /\ layer = GivenLayer /\ params \in Params /\ target = GivenTarget
    /\ built = Objective /\ table = {built}
    /\ scale = {}
    /\ buffer = [pic |-> best, optimized |-> FALSE] /\ bitmap = buffer
    /\ recipe = [details |-> 0, target |-> 0, params |-> params]
    /\ output = 1
    /\ maskEdited = FALSE /\ targetEdited = FALSE /\ editedSinceSave = FALSE
    /\ at = "run" /\ then = "run" /\ locked = FALSE
    /\ editor = "closed" /\ request = {}
    /\ pic = {}
    /\ disk = [f \in Folders |-> NoFiles]
    /\ used = 1
    /\ complete = [f \in Folders |-> {}]
    /\ raced = FALSE
    /\ publications = 0 /\ edits = 0 /\ lives = 0

-----------------------------------------------------------------------------
(* A worker publishes a better program together with its rendered rows and *)
(* its history, under the mutex, in the buffers that a save exports from.  *)

Publish ==
    /\ at # "off" /\ ~locked /\ editor = "closed"
    /\ publications < MaxPublications
    /\ publications' = publications + 1
    /\ best' \in Progs
    /\ scale' = {table}
    /\ buffer' = [pic |-> best', optimized |-> FALSE]
    /\ raced' = (raced \/ at \in {"show", "opt", "pmg", "mic"})
    /\ UNCHANGED <<built, table, details, bitmap, recipe, output, flags, at, then, locked,
                   editor, request, pic, files, edits, lives>>

-----------------------------------------------------------------------------
(* SaveBestSolution.  The Save button runs it without the mutex, autosave  *)
(* and the editor with it, and the last save when the workers have gone.   *)

StartSave(next, lock) ==
    /\ at' = "details"
    /\ then' = next
    /\ locked' = lock

Save ==
    /\ at = "run" /\ editor = "closed"
    /\ \E lock \in BOOLEAN : StartSave("run", lock)
    /\ UNCHANGED <<search, details, shown, recipe, output, flags, editor, request, pic,
                   files, raced, bounds>>

\* The Stop button or an interrupt discards an open edit; when the workers
\* have drained, the program saves once more and is over.
Stop ==
    /\ at = "run"
    /\ editor' = "closed"
    /\ StartSave("end", TRUE)
    /\ UNCHANGED <<search, details, shown, recipe, output, flags, request, pic, files,
                   raced, bounds>>

\* The first save of an edited mask in a folder writes it into the recipe,
\* with the parameters there are, and scored from then on.  The error table
\* stays as it is, also if it has been built without scoring.
Repointed_mutant == recipe

Repointed ==
    IF recipe.details = output THEN recipe
    ELSE [recipe EXCEPT !.details = output, !.params = ScoreOn[params]]

SaveEditedMaskArtifact ==
    /\ at = "details"
    /\ IF maskEdited
       THEN /\ disk' = [disk EXCEPT ![output].details = {layer}]
            /\ recipe' = Repointed
            /\ params' = IF recipe.details = output THEN params ELSE ScoreOn[params]
       ELSE UNCHANGED <<disk, recipe, params>>
    /\ complete' = [complete EXCEPT ![output] = {}]
    /\ at' = "target"
    /\ UNCHANGED <<search, layer, target, shown, output, flags, then, locked, editor,
                   request, pic, used, raced, bounds>>

SaveEditedTargetArtifact ==
    /\ at = "target"
    /\ IF targetEdited
       THEN /\ disk' = [disk EXCEPT ![output].target = {target}]
            /\ recipe' = [recipe EXCEPT !.target = output]
       ELSE UNCHANGED <<disk, recipe>>
    /\ at' = "rp"
    /\ UNCHANGED <<search, details, shown, output, flags, then, locked, editor, request,
                   pic, used, complete, raced, bounds>>

\* The program as it was found, with what /continue needs to know.  The header
\* has the hashes of the weights and of the target, not the pictures.
SaveRasterProgram ==
    /\ at = "rp"
    /\ pic' = {best}
    /\ disk' = [disk EXCEPT ![output].rp =
                  {[prog |-> best, recipe |-> recipe, built |-> built,
                    maskEdited |-> maskEdited, targetEdited |-> targetEdited]}]
    /\ at' = "render"
    /\ UNCHANGED <<search, details, shown, recipe, output, flags, then, locked, editor,
                   request, used, complete, raced, bounds>>

\* It is optimized, and every export comes from the optimized program.
Rendered_mutant(p) == buffer

Rendered(p) == [pic |-> p, optimized |-> TRUE]

RenderCreatedPicture ==
    /\ at = "render"
    /\ \E p \in pic : buffer' = Rendered(p)
    /\ at' = "show"
    /\ UNCHANGED <<search, details, bitmap, recipe, output, flags, then, locked, editor,
                   request, pic, files, raced, bounds>>

ShowLastCreatedPicture ==
    /\ at = "show"
    /\ bitmap' = buffer
    /\ at' = "opt"
    /\ UNCHANGED <<search, details, buffer, recipe, output, flags, then, locked, editor,
                   request, pic, files, raced, bounds>>

Export(next) ==
    /\ at' = next
    /\ UNCHANGED <<search, details, shown, recipe, output, flags, then, locked, editor,
                   request, pic, used, complete, raced, bounds>>

SaveOptimizedProgram ==
    /\ at = "opt"
    /\ disk' = [disk EXCEPT ![output].opt = pic]
    /\ Export("pmg")

SavePMG ==
    /\ at = "pmg"
    /\ disk' = [disk EXCEPT ![output].pmg = {buffer}]
    /\ Export("mic")

SaveScreenData ==
    /\ at = "mic"
    /\ disk' = [disk EXCEPT ![output].mic = {buffer}]
    /\ Export("png")

SavePicture ==
    /\ at = "png"
    /\ disk' = [disk EXCEPT ![output].png = {bitmap}]
    /\ Export("optstate")

SaveOptimizerState ==
    /\ at = "optstate"
    /\ disk' = [disk EXCEPT ![output].optstate = scale]
    /\ complete' = [complete EXCEPT ![output] =
                      {[prog |-> p, layer |-> layer, target |-> target, raced |-> raced] :
                       p \in pic}]
    /\ editedSinceSave' = FALSE
    /\ at' = then
    /\ then' = "run"
    /\ locked' = (then # "run")
    /\ pic' = {}
    /\ raced' = FALSE
    /\ UNCHANGED <<search, details, shown, recipe, output, maskEdited, targetEdited,
                   editor, request, used, bounds>>

SaveBestSolution ==
    \/ SaveEditedMaskArtifact \/ SaveEditedTargetArtifact \/ SaveRasterProgram
    \/ RenderCreatedPicture \/ ShowLastCreatedPicture \/ SaveOptimizedProgram
    \/ SavePMG \/ SaveScreenData \/ SavePicture \/ SaveOptimizerState

-----------------------------------------------------------------------------
(* The editor.  While it is open the workers are parked. *)

BeginEditorSession ==
    /\ at = "run" /\ editor = "closed"
    /\ edits < MaxEdits
    /\ editor' \in {"mask", "target"}
    /\ UNCHANGED <<search, details, shown, recipe, output, flags, at, then, locked,
                   request, pic, files, raced, bounds>>

DiscardEditorSession ==
    /\ at = "run" /\ editor # "closed"
    /\ editor' = "closed"
    /\ UNCHANGED <<search, details, shown, recipe, output, flags, at, then, locked,
                   request, pic, files, raced, bounds>>

\* The first edit since the last save asks for a snapshot, and the snapshot for
\* a save: the one before may be older than the best program.
TowardsSnapshot_mutant == at' = "copy" /\ locked' = TRUE /\ UNCHANGED then

TowardsSnapshot == StartSave("copy", TRUE)

\* Parameters come with every request for the mask and are set at once: scoring
\* may go on or off.  One that changes neither them nor the layer is no edit.
ApplyEditorSession ==
    /\ at = "run" /\ editor # "closed"
    /\ editor' = "closed"
    /\ \E r \in Requests :
         /\ r.kind = editor /\ r.prior = params
         /\ IF r.kind = "mask"
            THEN r.target = target
            ELSE r.layer = layer /\ r.params = params
         /\ IF r.kind = "mask" /\ r.layer = layer /\ r.params = params
            THEN UNCHANGED <<params, request, edits, at, then, locked>>
            ELSE /\ params' = r.params
                 /\ request' = {r}
                 /\ edits' = edits + 1
                 /\ IF editedSinceSave
                    THEN at' = "edit" /\ locked' = TRUE /\ UNCHANGED then
                    ELSE TowardsSnapshot
    /\ UNCHANGED <<search, layer, target, shown, recipe, output, flags, pic, files, raced,
                   publications, lives>>

\* A snapshot has a folder of its own.  Its recipe is rewritten, that the
\* snapshot may not reach back into the run, and its layer is saved again.
CopyToSnapshot ==
    /\ at = "copy"
    /\ used < MaxFolders
    /\ used' = used + 1
    /\ disk' = [disk EXCEPT ![used + 1] = disk[output]]
    /\ at' = "recipe"
    /\ UNCHANGED <<search, details, shown, recipe, output, flags, then, locked, editor,
                   request, pic, complete, raced, bounds>>

Relocated(r) ==
    [r EXCEPT !.details = IF @ = output THEN used ELSE @,
              !.target = IF @ = output THEN used ELSE @]

CompleteSnapshot ==
    /\ at = "recipe"
    /\ disk' = [disk EXCEPT
                  ![used].details = {layer},
                  ![used].rp = {[h EXCEPT !.recipe = Relocated(h.recipe)] : h \in @}]
    /\ complete' = [complete EXCEPT ![used] = complete[output]]
    /\ at' = "edit"
    /\ UNCHANGED <<search, details, shown, recipe, output, flags, then, locked, editor,
                   request, pic, used, raced, bounds>>

\* If any of it fails the snapshot is removed and the edit refused.
Removed == [disk EXCEPT ![used] = NoFiles]

Refused(r) == r.prior

FailSnapshot ==
    /\ at \in {"copy", "recipe"}
    /\ IF at = "recipe"
       THEN used' = used - 1 /\ disk' = Removed
       ELSE UNCHANGED <<used, disk>>
    /\ \E r \in request : params' = Refused(r)
    /\ request' = {}
    /\ at' = "run"
    /\ locked' = FALSE
    /\ UNCHANGED <<search, layer, target, shown, recipe, output, flags, then, editor, pic,
                   complete, raced, bounds>>

\* The entries of a table that are not painted over have the value they had:
\* their pixels are the same in the new layer.
Patched(old) == {[o EXCEPT !.layer = layer'] : o \in old} \cup {Objective'}

\* A stroke in legacy mode touches only the entries of the pixels it covers,
\* unless the request changes parameters or scoring comes on with it.
FullRebuild_mutant(r) == params \notin Scoring \/ params \notin Legacy

FullRebuild(r) == r.params # r.prior \/ params \notin Scoring \/ params \notin Legacy

\* The layer or the target is changed and the error table made to follow, ...
ApplyMaskEdit(r) ==
    /\ layer' = r.layer
    /\ params' = IF r.layer # layer THEN ScoreOn[params] ELSE params
    /\ maskEdited' = TRUE
    /\ UNCHANGED <<target, targetEdited, buffer>>
    /\ IF FullRebuild(r) THEN table' = {Objective'}
       ELSE \E left \in SUBSET table : table' = Patched(left)

ApplyDestinationEdit(r) ==
    /\ target' = r.target
    /\ targetEdited' = TRUE
    /\ buffer' = [pic |-> best, optimized |-> FALSE]
    /\ UNCHANGED <<layer, params, maskEdited>>
    /\ table' = {Objective'}

\* ... and the best program is scored with the table as it is now, and the
\* history starts from that.
Retarget ==
    /\ built' = Objective'
    /\ scale' = {table'}

Edit ==
    /\ at = "edit"
    /\ \E r \in request :
         /\ IF r.kind = "mask" THEN ApplyMaskEdit(r) ELSE ApplyDestinationEdit(r)
         /\ IF r.branch THEN StartSave("branch", TRUE)
            ELSE at' = "run" /\ locked' = FALSE /\ UNCHANGED then
    /\ Retarget
    /\ editedSinceSave' = TRUE
    /\ request' = {}
    /\ UNCHANGED <<best, bitmap, recipe, output, editor, pic, files, raced, bounds>>

\* The edited run was just saved; it goes on in a new folder, saved there too.
BranchCurrentRun ==
    /\ at = "branch"
    /\ \/ /\ used < MaxFolders
          /\ used' = used + 1
          /\ output' = used + 1
          /\ editedSinceSave' = TRUE
          /\ StartSave("run", TRUE)
       \/ /\ at' = "run" /\ locked' = FALSE
          /\ UNCHANGED <<used, output, editedSinceSave, then>>
    /\ UNCHANGED <<search, details, shown, recipe, maskEdited, targetEdited, editor,
                   request, pic, disk, complete, raced, bounds>>

-----------------------------------------------------------------------------
(* The process ends: after its last save, or without one at any moment     *)
(* between two files, by Abort or a crash.  Only the files remain, and     *)
(* /continue reads those of one folder.                                    *)

Die ==
    /\ at # "off"
    /\ at' = "off" /\ then' = "run" /\ locked' = TRUE
    /\ layer' = GivenLayer /\ params' = params /\ target' = GivenTarget
    /\ best' = best
    /\ built' = Objective' /\ table' = {built'}
    /\ scale' = {}
    /\ buffer' = [pic |-> best', optimized |-> FALSE] /\ bitmap' = buffer'
    /\ recipe' = [details |-> 0, target |-> 0, params |-> params']
    /\ maskEdited' = FALSE /\ targetEdited' = FALSE /\ editedSinceSave' = FALSE
    /\ editor' = "closed" /\ request' = {} /\ pic' = {} /\ raced' = FALSE
    /\ UNCHANGED <<output, files, bounds>>

\* What a folder and what a recipe load.
LoadRasterProgram(f) == disk[f].rp

LoadOptimizerState(f) == disk[f].optstate

LayerOf(r) == IF r.details = 0 THEN {GivenLayer} ELSE disk[r.details].details

TargetOf(r) == IF r.target = 0 THEN {GivenTarget} ELSE disk[r.target].target

\* Options given with /continue may change the parameters.  The saved ones they
\* are compared with never get the details options: ProcessCmdLine parses the
\* recipe before it records them, and Process, with its six, has said already
\* that they are recorded.  So a run that scores a layer passes for changed.
OptionsChanged(old, new) == {old, new} \cap Scoring # {}

\* The pictures are compared with the hashes in the header.
PicturesChanged_mutant(h, loaded) ==
    /\ loaded.params \in Scoring
    /\ EffectiveHash[loaded.params][loaded.layer]
         # EffectiveHash[h.built.params][h.built.layer]

PicturesChanged(h, loaded) ==
    \/ /\ loaded.params \in Scoring
       /\ EffectiveHash[loaded.params][loaded.layer]
            # EffectiveHash[h.built.params][h.built.layer]
    \/ h.built.target # loaded.target

\* If the objective has changed the saved program is scored under it, and the
\* history filled with that score (reconfigureAcceptanceHistory); so it is if
\* the recipe has /details_score=off.
ResumedScales(f, h, loaded) ==
    LET rescored == {{loaded}}
    IN  IF OptionsChanged(h.recipe.params, loaded.params) \/ PicturesChanged(h, loaded)
        THEN {rescored} ELSE {rescored, LoadOptimizerState(f)}

Resume ==
    /\ at = "off"
    /\ lives < MaxLives
    /\ lives' = lives + 1
    /\ \E f \in 1..used : \E h \in LoadRasterProgram(f), p \in Params :
         \E l \in LayerOf(h.recipe), t \in TargetOf(h.recipe) :
           /\ output' = f
           /\ best' = h.prog
           /\ recipe' = [h.recipe EXCEPT !.params = p]
           /\ layer' = l /\ params' = p /\ target' = t
           /\ maskEdited' = (h.maskEdited \/ h.recipe.details # 0)
           /\ targetEdited' = (h.targetEdited \/ h.recipe.target # 0)
           /\ built' = Objective' /\ table' = {built'}
           /\ scale' \in ResumedScales(f, h, built')
    /\ editedSinceSave' = FALSE
    /\ buffer' = [pic |-> best', optimized |-> FALSE]
    /\ bitmap' = buffer'
    /\ pic' = {}
    /\ raced' = FALSE
    /\ at' = "run" /\ then' = "run" /\ locked' = FALSE
    /\ UNCHANGED <<editor, request, files, publications, edits>>

-----------------------------------------------------------------------------

Terminated == at = "off" /\ UNCHANGED vars

Editor ==
    \/ BeginEditorSession \/ DiscardEditorSession \/ ApplyEditorSession
    \/ CopyToSnapshot \/ CompleteSnapshot \/ FailSnapshot \/ Edit \/ BranchCurrentRun

Next ==
    Publish \/ Save \/ Stop \/ SaveBestSolution \/ Editor \/ Die \/ Resume \/ Terminated

Spec == Init /\ [][Next]_vars

-----------------------------------------------------------------------------

\* Every artifact of a finished save comes from the exact optimized program in
\* its .opt, and that from the program in its .rp, unless a worker published
\* while a save without the mutex was exporting.
ExportsAgree ==
    \A f \in Folders : \A c \in complete[f] :
        /\ \A h \in disk[f].rp : h.prog = c.prog
        /\ disk[f].opt = {c.prog}
        /\ ~c.raced =>
             \A file \in {"pmg", "mic", "png"} :
                 disk[f][file] = {[pic |-> c.prog, optimized |-> TRUE]}

\* While candidates are scored no entry of the error table is of a layer or a
\* target, or of parameters, that are no longer in force: after an edit, a
\* refused edit, a branch and a resume alike, with strokes that patch entries
\* and strokes that rebuild them all.  There is one exception, and it can last:
\* a save that wrote the edited layer into the recipe has switched scoring on,
\* and an entry may still be of the same parameters without scoring.
ErrorTableCurrent ==
    at = "run" =>
        \A o \in table :
            \/ o = Objective
            \/ /\ o = [Objective EXCEPT !.params = o.params]
               /\ o.params \notin Scoring /\ params = ScoreOn[o.params]
               /\ maskEdited /\ recipe.details = output /\ recipe.params = params

\* What /continue would restore from a folder, through its recipe.
Restored(f) ==
    UNION {{[prog |-> h.prog, layer |-> l, target |-> t] :
            l \in LayerOf(h.recipe), t \in TargetOf(h.recipe)} : h \in disk[f].rp}

Resumes == at = "off" /\ at' = "run"

\* A run resumed from a folder whose last save was finished, a snapshot or a
\* branch too, has the program, the layer and the target it was saved with.
SaveRoundTrips ==
    [][Resumes => \A c \in complete[output'] :
                    best' = c.prog /\ layer' = c.layer /\ target' = c.target]_vars

\* A snapshot is a true restore point: before the first edit since the last
\* save there is a folder, not the run's own, from which the best program, the
\* layer and the target as they are before the edit would be restored.  And it
\* stays one: whatever a run does, what would be restored from the finished
\* snapshots and runs that are not its own does not change.
RestorePoint ==
    [][/\ at = "edit" /\ at' # "off" /\ ~editedSinceSave =>
            \E f \in Folders \ {output} :
                Restored(f) = {[prog |-> best, layer |-> layer, target |-> target]}
       /\ \A f \in Folders \ {output} :
            complete[f] # {} => Restored(f)' = Restored(f)]_vars

\* A resumed history is one that was scored under the objective the run is
\* resumed with, or has been scored anew: even if the pictures in the folder are
\* newer than the program.  It cannot be told when the history is older than
\* the program, or if the recipe has not the parameters it was saved under.
ResumedOnScale ==
    [][Resumes =>
         \A h \in disk[output'].rp :
             (disk[output'].optstate \subseteq {{h.built}} /\ h.recipe.params = h.built.params)
               => \A o \in UNION scale' :
                    o.target = target' /\ (params' \in Scoring \/ o.params \in Scoring
                                              => o.layer = layer' /\ o.params = params')]_vars

=============================================================================
