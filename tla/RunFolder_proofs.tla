--------------------------- MODULE RunFolder_proofs ---------------------------
(***************************************************************************)
(* The folders of a run for any number of folders, edits, publications and *)
(* lives: what a save that was finished left in its folder can be restored *)
(* from it, also when the process ends between any two files; and what is  *)
(* optimized for agrees with what is scored.                               *)
(***************************************************************************)
EXTENDS RunFolder, TLAPS

\* The kinds of values the files and the variables hold.
Objectives == [layer : Layers, params : Params, target : Targets]
Tables     == SUBSET Objectives
Shots      == [pic : Progs, optimized : BOOLEAN]
Recipes    == [details : 0 .. MaxFolders, target : 0 .. MaxFolders, params : Params]
Headers    == [prog : Progs, recipe : Recipes, built : Objectives,
               maskEdited : BOOLEAN, targetEdited : BOOLEAN]
Contents   == [details : SUBSET Layers, target : SUBSET Targets, rp : SUBSET Headers,
               opt : SUBSET Progs, pmg : SUBSET Shots, mic : SUBSET Shots,
               png : SUBSET Shots, optstate : SUBSET Tables]
Saves      == [prog : Progs, layer : Layers, target : Targets, raced : BOOLEAN]

\* Where a save is, by what it has written.
Rendering  == {"render", "show", "opt", "pmg", "mic", "png", "optstate"}
Mapped     == {"target", "rp"} \cup Rendering
Writing    == {"details"} \cup Mapped
Places     == {"run", "end", "copy", "recipe", "edit", "branch", "off"} \cup Writing

Typed ==
    /\ best \in Progs /\ layer \in Layers /\ params \in Params /\ target \in Targets
    /\ built \in Objectives /\ table \in Tables /\ scale \subseteq Tables
    /\ buffer \in Shots /\ bitmap \in Shots
    /\ recipe \in Recipes
    /\ used \in 1 .. MaxFolders /\ output \in 1 .. used
    /\ at = "recipe" => output # used
    /\ maskEdited \in BOOLEAN /\ targetEdited \in BOOLEAN /\ editedSinceSave \in BOOLEAN
    /\ at \in Places /\ then \in {"run", "end", "copy", "branch"}
    /\ locked \in BOOLEAN /\ raced \in BOOLEAN
    /\ editor \in {"closed", "mask", "target"}
    /\ request \subseteq Requests /\ pic \subseteq Progs
    /\ disk \in [Folders -> Contents]
    /\ complete \in [Folders -> SUBSET Saves]

\* A program file is one program.
OneProgram == \A f \in Folders : \A g, h \in disk[f].rp : g = h

\* The mutex is held through a save that leads to something else than the run,
\* and until that is done.
MutexKept ==
    /\ at \in {"copy", "recipe", "edit", "branch", "end", "off"} => locked
    /\ then # "run" => locked /\ at \in Writing

\* An edit is pending only on its way through the snapshot.
RequestPending == request # {} => at \in {"copy", "recipe", "edit"} \/ then = "copy"

\* The recipe loads the user's picture until the picture is edited, and the
\* edited one from the folder once a save has reached it.
EditsMarked ==
    /\ ~maskEdited => recipe.details = 0 /\ layer = GivenLayer
    /\ ~targetEdited => recipe.target = 0 /\ target = GivenTarget

PicturesSaved ==
    /\ at \in Mapped =>
         complete[output] = {} /\ (maskEdited => recipe.details = output
                                                /\ disk[output].details = {layer})
    /\ at \in Mapped \ {"target"} =>
         (targetEdited => recipe.target = output /\ disk[output].target = {target})

\* What a save has written so far, from the program file on.
ProgramSaved ==
    at \in Rendering =>
        \E p \in Progs :
            /\ pic = {p} /\ (locked => p = best)
            /\ \E h \in Headers : disk[output].rp = {h} /\ h.prog = p /\ h.recipe = recipe

ExportsSaved ==
    \A p \in pic :
        /\ at \in {"pmg", "mic", "png", "optstate"} => disk[output].opt = {p}
        /\ ~raced =>
             /\ at \in {"show", "opt", "pmg", "mic"} => buffer = Rendered(p)
             /\ at \in {"opt", "pmg", "mic", "png"} => bitmap = Rendered(p)
             /\ at \in {"mic", "png", "optstate"} => disk[output].pmg = {Rendered(p)}
             /\ at \in {"png", "optstate"} => disk[output].mic = {Rendered(p)}
             /\ at = "optstate" => disk[output].png = {Rendered(p)}

\* A folder holds what its last finished save saved, and its recipe reads from
\* no other folder.
Holds(f, c) ==
    \E h \in Headers :
        /\ disk[f].rp = {h} /\ h.prog = c.prog
        /\ \/ h.recipe.details = 0 /\ c.layer = GivenLayer
           \/ h.recipe.details = f /\ disk[f].details = {c.layer}
        /\ \/ h.recipe.target = 0 /\ c.target = GivenTarget
           \/ h.recipe.target = f /\ disk[f].target = {c.target}

Exported(f, c) ==
    /\ disk[f].opt = {c.prog}
    /\ ~c.raced => disk[f].pmg = {Rendered(c.prog)} /\ disk[f].mic = {Rendered(c.prog)}
                   /\ disk[f].png = {Rendered(c.prog)}

SavesHeld == \A f \in Folders : \A c \in complete[f] : Holds(f, c) /\ Exported(f, c)

UnusedEmpty == \A f \in Folders : f > used => complete[f] = {}

\* The last save of folder f saved the run as it is.
UpToDate(f) ==
    /\ complete[f] # {}
    /\ \A c \in complete[f] : c.prog = best /\ c.layer = layer /\ c.target = target

SnapshotTaken ==
    /\ at \in {"copy", "recipe"} => UpToDate(output)
    /\ at = "recipe" => disk[used] = disk[output] /\ complete[used] = {}
    /\ at = "edit" /\ ~editedSinceSave => used # output /\ UpToDate(used)

\* A save that wrote the edited layer into the recipe has switched scoring on:
\* p are those parameters, and no other folder has been written to since.
SwitchedOn(p) == maskEdited /\ recipe.details = output /\ recipe.params = p

\* The parameters of a pending edit are in force, but for scoring that the save
\* before the snapshot has switched on.
RequestInForce ==
    \A r \in request :
        params = r.params \/ (params = ScoreOn[r.params] /\ SwitchedOn(params))

\* The parameters that count when the edit, if one is pending, is refused.
InForce == IF request = {} THEN {params} ELSE {r.prior : r \in request}

TableKept ==
    \A o \in table :
        /\ o.layer = layer /\ o.target = target
        /\ \A p \in InForce :
             \/ o.params = p
             \/ /\ o.params \notin Scoring /\ p = ScoreOn[o.params]
                /\ \/ SwitchedOn(p)
                   \/ at = "details" /\ request = {} /\ maskEdited /\ recipe.params = p

DiskInv == OneProgram /\ EditsMarked /\ PicturesSaved /\ ProgramSaved /\ ExportsSaved
           /\ SavesHeld /\ UnusedEmpty /\ SnapshotTaken

RInv == Typed /\ MutexKept /\ RequestPending /\ RequestInForce /\ TableKept /\ DiskInv

-----------------------------------------------------------------------------

\* A file written anew has its type.
LEMMA FileWritten ==
    ASSUME NEW c \in Contents
    PROVE  /\ \A s \in SUBSET Layers : [c EXCEPT !.details = s] \in Contents
           /\ \A s \in SUBSET Targets : [c EXCEPT !.target = s] \in Contents
           /\ \A s \in SUBSET Headers : [c EXCEPT !.rp = s] \in Contents
           /\ \A s \in SUBSET Progs : [c EXCEPT !.opt = s] \in Contents
           /\ \A s \in SUBSET Shots : /\ [c EXCEPT !.pmg = s] \in Contents
                                      /\ [c EXCEPT !.mic = s] \in Contents
                                      /\ [c EXCEPT !.png = s] \in Contents
           /\ \A s \in SUBSET Tables : [c EXCEPT !.optstate = s] \in Contents
BY DEF Contents

LEMMA PlacesAre ==
    Places = {"run", "end", "copy", "recipe", "edit", "branch", "off", "details", "target",
              "rp", "render", "show", "opt", "pmg", "mic", "png", "optstate"}
BY DEF Places, Writing, Mapped, Rendering

LEMMA InitTyped == Init => Typed
<1> SUFFICES ASSUME Init PROVE Typed
  OBVIOUS
<1>1. NoFiles \in Contents
  BY DEF NoFiles, Contents
<1>2. disk \in [Folders -> Contents] /\ complete \in [Folders -> SUBSET Saves]
  BY <1>1 DEF Init
<1>3. best \in Progs /\ layer \in Layers /\ params \in Params /\ target \in Targets
  BY GivenAssumption DEF Init
<1>4. used \in 1 .. MaxFolders /\ output \in 1 .. used /\ 0 \in 0 .. MaxFolders
  BY RunFolderBounds DEF Init
<1>5. built \in Objectives /\ table \in Tables /\ buffer \in Shots /\ bitmap \in Shots /\ recipe \in Recipes
  BY <1>3, <1>4 DEF Init, Objective, Objectives, Tables, Shots, Recipes
<1> QED
  BY <1>2, <1>3, <1>4, <1>5, PlacesAre DEF Init, Typed

LEMMA TypedNext == Typed /\ [Next]_vars => Typed'
<1> SUFFICES ASSUME Typed, [Next]_vars PROVE Typed'
  OBVIOUS
<1> USE PlacesAre DEF Typed
<1>a. MaxFolders \in Nat /\ output \in Folders /\ used \in Folders
      /\ output \in 0 .. MaxFolders /\ 0 \in 0 .. MaxFolders /\ output <= used
      /\ output \in Nat /\ used \in Nat
  BY RunFolderBounds DEF Folders
<1>1. CASE Publish
  BY <1>1 DEF Publish, details, flags, files, Shots
<1>2. CASE Save
  BY <1>2 DEF Save, StartSave, search, details, shown, flags, files, bounds
<1>3. CASE Stop
  BY <1>3 DEF Stop, StartSave, search, details, shown, flags, files, bounds
<1>4. CASE SaveEditedMaskArtifact
  <2>1. disk' \in [Folders -> Contents]
    <3>1. {layer} \in SUBSET Layers /\ disk[output] \in Contents
      BY <1>a
    <3>2. [disk[output] EXCEPT !.details = {layer}] \in Contents
      BY <3>1, FileWritten
    <3> QED
      BY <1>4, <3>2 DEF SaveEditedMaskArtifact
  <2>2. ScoreOn[params] \in Params
    BY ParamsAssumption
  <2>3. Repointed \in Recipes
    BY <1>a, <2>2 DEF Repointed, Recipes
  <2> QED
    BY <1>4, <2>1, <2>2, <2>3 DEF SaveEditedMaskArtifact, search, shown, flags, bounds
<1>5. CASE SaveEditedTargetArtifact
  <2>1. disk' \in [Folders -> Contents]
    <3>1. {target} \in SUBSET Targets /\ disk[output] \in Contents
      BY <1>a
    <3>2. [disk[output] EXCEPT !.target = {target}] \in Contents
      BY <3>1, FileWritten
    <3> QED
      BY <1>5, <3>2 DEF SaveEditedTargetArtifact
  <2>2. recipe' \in Recipes
    BY <1>a, <1>5 DEF SaveEditedTargetArtifact, Recipes
  <2> QED
    BY <1>5, <2>1, <2>2 DEF SaveEditedTargetArtifact, search, details, shown, flags, bounds
<1>6. CASE SaveRasterProgram
  <2>1. disk' \in [Folders -> Contents]
    <3>1. [prog |-> best, recipe |-> recipe, built |-> built, maskEdited |-> maskEdited,
           targetEdited |-> targetEdited] \in Headers
      BY DEF Headers
    <3> QED
      BY <1>6, <3>1, FileWritten DEF SaveRasterProgram
  <2> QED
    BY <1>6, <2>1 DEF SaveRasterProgram, search, details, shown, flags, bounds
<1>7. CASE RenderCreatedPicture
  BY <1>7 DEF RenderCreatedPicture, Rendered, search, details, flags, files, bounds, Shots
<1>8. CASE ShowLastCreatedPicture
  BY <1>8 DEF ShowLastCreatedPicture, search, details, flags, files, bounds
<1>9. CASE SaveOptimizedProgram
  <2>1. disk' \in [Folders -> Contents]
    BY <1>9, FileWritten DEF SaveOptimizedProgram
  <2> QED
    BY <1>9, <2>1 DEF SaveOptimizedProgram, Export, search, details, shown, flags, bounds
<1>10. CASE SavePMG
  <2>1. disk' \in [Folders -> Contents]
    BY <1>10, FileWritten DEF SavePMG
  <2> QED
    BY <1>10, <2>1 DEF SavePMG, Export, search, details, shown, flags, bounds
<1>11. CASE SaveScreenData
  <2>1. disk' \in [Folders -> Contents]
    BY <1>11, FileWritten DEF SaveScreenData
  <2> QED
    BY <1>11, <2>1 DEF SaveScreenData, Export, search, details, shown, flags, bounds
<1>12. CASE SavePicture
  <2>1. disk' \in [Folders -> Contents]
    BY <1>12, FileWritten DEF SavePicture
  <2> QED
    BY <1>12, <2>1 DEF SavePicture, Export, search, details, shown, flags, bounds
<1>13. CASE SaveOptimizerState
  <2>1. disk' \in [Folders -> Contents]
    BY <1>13, FileWritten DEF SaveOptimizerState
  <2>2. complete' \in [Folders -> SUBSET Saves]
    <3>1. {[prog |-> p, layer |-> layer, target |-> target, raced |-> raced] : p \in pic}
            \in SUBSET Saves
      BY DEF Saves
    <3> QED
      BY <1>13, <3>1 DEF SaveOptimizerState
  <2> QED
    BY <1>13, <2>1, <2>2 DEF SaveOptimizerState, search, details, shown
<1>14. CASE BeginEditorSession
  BY <1>14 DEF BeginEditorSession, search, details, shown, flags, files, bounds
<1>15. CASE DiscardEditorSession
  BY <1>15 DEF DiscardEditorSession, search, details, shown, flags, files, bounds
<1>16. CASE ApplyEditorSession
  <2>1. PICK r \in Requests :
          /\ r.prior = params
          /\ \/ UNCHANGED <<params, request, edits, at, then, locked>>
             \/ /\ params' = r.params /\ request' = {r} /\ locked' = TRUE
                /\ at' \in {"edit", "details"} /\ then' \in {then, "copy"}
    BY <1>16 DEF ApplyEditorSession, TowardsSnapshot, StartSave
  <2>2. params' \in Params /\ request' \subseteq Requests /\ locked' \in BOOLEAN
    BY <2>1 DEF Requests
  <2>3. at' \in Places \ {"recipe"} /\ then' \in {"run", "end", "copy", "branch"}
    BY <1>16, <2>1 DEF ApplyEditorSession
  <2> QED
    BY <1>16, <2>2, <2>3 DEF ApplyEditorSession, search, shown, flags, files
<1>17. CASE CopyToSnapshot
  <2>1. used' \in 1 .. MaxFolders /\ output \in 1 .. used'
    BY <1>a, <1>17 DEF CopyToSnapshot
  <2>2. disk' \in [Folders -> Contents]
    BY <1>a, <1>17, <2>1 DEF CopyToSnapshot
  <2> QED
    BY <1>a, <1>17, <2>1, <2>2 DEF CopyToSnapshot, search, details, shown, flags, bounds
<1>18. CASE CompleteSnapshot
  <2>1. PICK c \in Contents : c = disk[used]
    BY <1>a
  <2>2. {[h EXCEPT !.recipe = Relocated(h.recipe)] : h \in c.rp} \in SUBSET Headers
    <3>1. ASSUME NEW h \in c.rp PROVE [h EXCEPT !.recipe = Relocated(h.recipe)] \in Headers
      <4>1. h \in Headers /\ h.recipe \in Recipes
        BY <2>1 DEF Contents, Headers
      <4>2. Relocated(h.recipe) \in Recipes
        <5>1. used \in 0 .. MaxFolders
          BY <1>a DEF Folders
        <5> QED
          BY <4>1, <5>1 DEF Relocated, Recipes
      <4> QED
        BY <4>1, <4>2 DEF Headers
    <3> QED
      BY <3>1
  <2>3. [c EXCEPT !.details = {layer}] \in Contents
    BY FileWritten
  <2>4. [[c EXCEPT !.details = {layer}] EXCEPT
           !.rp = {[h EXCEPT !.recipe = Relocated(h.recipe)] : h \in c.rp}] \in Contents
    BY <2>2, <2>3, FileWritten
  <2>5. disk' = [disk EXCEPT ![used] = [[c EXCEPT !.details = {layer}] EXCEPT
           !.rp = {[h EXCEPT !.recipe = Relocated(h.recipe)] : h \in c.rp}]]
    BY <1>18, <2>1 DEF CompleteSnapshot
  <2>6. disk' \in [Folders -> Contents]
    BY <2>4, <2>5
  <2>7. complete' \in [Folders -> SUBSET Saves]
    <3>1. complete[output] \in SUBSET Saves
      BY <1>a
    <3> QED
      BY <1>18, <3>1 DEF CompleteSnapshot
  <2> QED
    BY <1>18, <2>6, <2>7 DEF CompleteSnapshot, search, details, shown, flags, bounds
<1>19. CASE FailSnapshot
  <2>1. NoFiles \in Contents
    BY DEF NoFiles, Contents
  <2>2. disk' \in [Folders -> Contents]
    BY <1>19, <2>1 DEF FailSnapshot, Removed
  <2>3. params' \in Params
    BY <1>19 DEF FailSnapshot, Refused, Requests
  <2> QED
    <3>1. used' \in 1 .. MaxFolders /\ output' \in 1 .. used'
      BY <1>a, <1>19 DEF FailSnapshot
    <3> QED
      BY <1>19, <2>2, <2>3, <3>1 DEF FailSnapshot, search, shown, flags, bounds
<1>20. CASE Edit
  <2>1. PICK r \in Requests :
          /\ \/ ApplyMaskEdit(r) \/ ApplyDestinationEdit(r)
          /\ at' \in {"run", "details"} /\ then' \in {then, "branch"} /\ locked' \in BOOLEAN
    BY <1>20 DEF Edit, StartSave
  <2>2. ScoreOn[params] \in Params /\ r.layer \in Layers /\ r.target \in Targets
    BY ParamsAssumption DEF Requests
  <2>3. layer' \in Layers /\ params' \in Params /\ target' \in Targets
    BY <2>1, <2>2 DEF ApplyMaskEdit, ApplyDestinationEdit
  <2>4. maskEdited' \in BOOLEAN /\ targetEdited' \in BOOLEAN /\ buffer' \in Shots
    <3>1. [pic |-> best, optimized |-> FALSE] \in Shots
      BY DEF Shots
    <3> QED
      BY <2>1, <3>1 DEF ApplyMaskEdit, ApplyDestinationEdit
  <2>5. Objective' \in Objectives /\ {Objective'} \in Tables
    BY <2>3 DEF Objective, Objectives, Tables
  <2>6. table' \in Tables
    <3>1. CASE table' = {Objective'}
      BY <2>5, <3>1
    <3>2. ASSUME NEW left \in SUBSET table, table' = Patched(left) PROVE table' \in Tables
      <4>1. \A o \in left : [o EXCEPT !.layer = layer'] \in Objectives
        BY <2>3 DEF Tables, Objectives
      <4> QED
        BY <2>5, <3>2, <4>1 DEF Patched, Tables
    <3> QED
      BY <2>1, <3>1, <3>2 DEF ApplyMaskEdit, ApplyDestinationEdit
  <2>7. built' \in Objectives /\ scale' \subseteq Tables
    BY <1>20, <2>5, <2>6 DEF Edit, Retarget
  <2> QED
    BY <1>20, <2>1, <2>3, <2>4, <2>6, <2>7 DEF Edit, files
<1>21. CASE BranchCurrentRun
  <2>1. used' \in 1 .. MaxFolders /\ output' \in 1 .. used'
    <3>1. CASE used < MaxFolders /\ used' = used + 1 /\ output' = used + 1
      BY <1>a, <3>1
    <3>2. CASE UNCHANGED <<used, output>>
      BY <3>2
    <3> QED
      BY <1>21, <3>1, <3>2 DEF BranchCurrentRun
  <2>2. at' \in {"details", "run"} /\ then' \in {"run", then} /\ locked' \in BOOLEAN
        /\ editedSinceSave' \in BOOLEAN
    BY <1>21 DEF BranchCurrentRun, StartSave
  <2> QED
    BY <1>21, <2>1, <2>2 DEF BranchCurrentRun, search, details, shown, bounds
<1>22. CASE Die
  <2>1. layer' \in Layers /\ params' \in Params /\ target' \in Targets /\ best' \in Progs
    BY <1>22, GivenAssumption DEF Die
  <2>2. built' \in Objectives /\ table' \in Tables /\ scale' \subseteq Tables
    BY <1>22, <2>1 DEF Die, Objective, Objectives, Tables
  <2>3. buffer' \in Shots /\ bitmap' \in Shots /\ recipe' \in Recipes
    BY <1>22, <1>a, <2>1 DEF Die, Shots, Recipes
  <2> QED
    BY <1>22, <2>1, <2>2, <2>3 DEF Die, files, bounds
<1>23. CASE Resume
  <2>1. PICK f \in 1 .. used : \E h \in disk[f].rp, p \in Params :
         \E l \in LayerOf(h.recipe), t \in TargetOf(h.recipe) :
           /\ output' = f
           /\ best' = h.prog
           /\ recipe' = [h.recipe EXCEPT !.params = p]
           /\ layer' = l /\ params' = p /\ target' = t
           /\ maskEdited' = (h.maskEdited \/ h.recipe.details # 0)
           /\ targetEdited' = (h.targetEdited \/ h.recipe.target # 0)
           /\ built' = Objective' /\ table' = {built'}
           /\ scale' \in ResumedScales(f, h, built')
    BY <1>23 DEF Resume, LoadRasterProgram
  <2>2. PICK h \in disk[f].rp, p \in Params :
         \E l \in LayerOf(h.recipe), t \in TargetOf(h.recipe) :
           /\ best' = h.prog
           /\ recipe' = [h.recipe EXCEPT !.params = p]
           /\ layer' = l /\ params' = p /\ target' = t
           /\ maskEdited' = (h.maskEdited \/ h.recipe.details # 0)
           /\ targetEdited' = (h.targetEdited \/ h.recipe.target # 0)
           /\ built' = Objective' /\ table' = {built'}
           /\ scale' \in ResumedScales(f, h, built')
    BY <2>1
  <2>3. f \in Folders /\ disk[f] \in Contents
    BY <1>a DEF Folders
  <2>4. h \in Headers /\ h.prog \in Progs /\ h.recipe \in Recipes
    BY <2>3 DEF Contents, Headers
  <2>5. LayerOf(h.recipe) \subseteq Layers
    <3>1. h.recipe.details # 0 => h.recipe.details \in Folders
      BY <1>a, <2>4 DEF Recipes, Folders
    <3> QED
      BY <2>4, <3>1, GivenAssumption DEF LayerOf, Contents
  <2>6. TargetOf(h.recipe) \subseteq Targets
    <3>1. h.recipe.target # 0 => h.recipe.target \in Folders
      BY <1>a, <2>4 DEF Recipes, Folders
    <3> QED
      BY <2>4, <3>1, GivenAssumption DEF TargetOf, Contents
  <2>7. layer' \in Layers /\ params' \in Params /\ target' \in Targets /\ best' \in Progs
    BY <2>2, <2>4, <2>5, <2>6
  <2>8. built' \in Objectives /\ table' \in Tables /\ {built'} \in Tables
    BY <2>2, <2>7 DEF Objective, Objectives, Tables
  <2>9. scale' \subseteq Tables
    <3>1. disk[f].optstate \subseteq Tables
      BY <2>3 DEF Contents
    <3> QED
      BY <2>2, <2>8, <3>1 DEF ResumedScales, LoadOptimizerState
  <2>10. recipe' \in Recipes
    BY <2>2, <2>4 DEF Recipes
  <2>11. buffer' \in Shots /\ bitmap' \in Shots
    BY <1>23, <2>7 DEF Resume, Shots
  <2>12. maskEdited' \in BOOLEAN /\ targetEdited' \in BOOLEAN
    BY <2>2
  <2> QED
    BY <1>23, <2>1, <2>7, <2>8, <2>9, <2>10, <2>11, <2>12 DEF Resume, files
<1>24. CASE UNCHANGED vars
  BY <1>24 DEF vars, search, details, shown, flags, files, bounds
<1> QED
  BY <1>1, <1>2, <1>3, <1>4, <1>5, <1>6, <1>7, <1>8, <1>9, <1>10, <1>11, <1>12, <1>13, <1>14,
     <1>15, <1>16, <1>17, <1>18, <1>19, <1>20, <1>21, <1>22, <1>23, <1>24
     DEF Next, SaveBestSolution, Editor, Terminated

-----------------------------------------------------------------------------

\* The files of the run's folder are written in their order, and none of them
\* changes what the run is.
LEMMA SaveStep ==
    ASSUME Typed, SaveBestSolution
    PROVE  /\ UNCHANGED <<best, layer, target, output, used, maskEdited, targetEdited, request>>
           /\ at \in Writing
           /\ \/ /\ at # "optstate" /\ at' \in Mapped /\ at' # at
                 /\ UNCHANGED <<locked, then, editedSinceSave>>
              \/ /\ at = "optstate" /\ at' = then /\ then' = "run"
                 /\ locked' = (then # "run")
BY PlacesAre DEF SaveBestSolution, SaveEditedMaskArtifact, SaveEditedTargetArtifact,
   SaveRasterProgram, RenderCreatedPicture, ShowLastCreatedPicture, SaveOptimizedProgram,
   SavePMG, SaveScreenData, SavePicture, SaveOptimizerState, Export, Writing, Mapped,
   Rendering, search, details, flags, files

LEMMA ControlNext ==
    ASSUME Typed, MutexKept, RequestPending, [Next]_vars
    PROVE  MutexKept' /\ RequestPending'
<1> USE PlacesAre DEF Typed, MutexKept, RequestPending, Writing, Mapped, Rendering
<1>1. CASE Publish
  BY <1>1 DEF Publish
<1>2. CASE Save \/ Stop
  BY <1>2 DEF Save, Stop, StartSave
<1>3. CASE SaveBestSolution
  BY <1>3, SaveStep
<1>4. CASE BeginEditorSession \/ DiscardEditorSession
  BY <1>4 DEF BeginEditorSession, DiscardEditorSession
<1>5. CASE ApplyEditorSession
  BY <1>5 DEF ApplyEditorSession, TowardsSnapshot, StartSave
<1>6. CASE CopyToSnapshot \/ CompleteSnapshot
  BY <1>6 DEF CopyToSnapshot, CompleteSnapshot
<1>7. CASE FailSnapshot
  BY <1>7 DEF FailSnapshot
<1>8. CASE Edit
  BY <1>8 DEF Edit, StartSave
<1>9. CASE BranchCurrentRun
  BY <1>9 DEF BranchCurrentRun, StartSave
<1>10. CASE Die
  BY <1>10 DEF Die
<1>11. CASE Resume
  BY <1>11 DEF Resume
<1>12. CASE UNCHANGED vars
  BY <1>12 DEF vars
<1> QED
  BY <1>1, <1>2, <1>3, <1>4, <1>5, <1>6, <1>7, <1>8, <1>9, <1>10, <1>11, <1>12
     DEF Next, Editor, Terminated

LEMMA ScoreOnTwice ==
    ASSUME NEW p \in Params
    PROVE  ScoreOn[p] \in Scoring /\ ScoreOn[ScoreOn[p]] = ScoreOn[p]
BY ParamsAssumption

\* What a save does to the details parameters.
LEMMA MaskSaved ==
    ASSUME Typed, SaveEditedMaskArtifact
    PROVE  /\ UNCHANGED <<table, layer, target, request, maskEdited, output>>
           /\ at = "details" /\ at' = "target"
           /\ \/ UNCHANGED <<recipe, params>> /\ (maskEdited => recipe.details = output)
              \/ params' = ScoreOn[params] /\ SwitchedOn(params)'
<1>1. UNCHANGED <<table, layer, target, request, maskEdited, output>>
      /\ at = "details" /\ at' = "target"
  BY DEF SaveEditedMaskArtifact, search, flags
<1>2. CASE ~maskEdited \/ recipe.details = output
  BY <1>1, <1>2 DEF SaveEditedMaskArtifact, Repointed
<1>3. CASE maskEdited /\ recipe.details # output
  <2>1. recipe' = [recipe EXCEPT !.details = output, !.params = ScoreOn[params]]
        /\ params' = ScoreOn[params]
    BY <1>3 DEF SaveEditedMaskArtifact, Repointed
  <2>2. recipe'.details = output /\ recipe'.params = ScoreOn[params]
    BY <2>1 DEF Typed, Recipes
  <2> QED
    BY <1>1, <1>3, <2>1, <2>2 DEF SwitchedOn
<1> QED
  BY <1>1, <1>2, <1>3

LEMMA TargetSaved ==
    ASSUME Typed, SaveEditedTargetArtifact
    PROVE  /\ recipe'.details = recipe.details /\ recipe'.params = recipe.params
           /\ UNCHANGED <<table, layer, params, target, request, maskEdited, output>>
           /\ at # "details"
<1>1. recipe'.details = recipe.details /\ recipe'.params = recipe.params
  BY DEF SaveEditedTargetArtifact, Typed, Recipes
<1> QED
  BY <1>1 DEF SaveEditedTargetArtifact, search, details, flags

\* The steps that leave the table, the recipe and what is in force alone.
LEMMA TableAlone ==
    ASSUME Typed,
           \/ Publish \/ Save \/ Stop \/ BeginEditorSession \/ DiscardEditorSession
           \/ CopyToSnapshot \/ CompleteSnapshot \/ UNCHANGED vars
           \/ SaveBestSolution /\ ~SaveEditedMaskArtifact /\ ~SaveEditedTargetArtifact
    PROVE  /\ UNCHANGED <<table, layer, params, target, request, recipe, maskEdited, output>>
           /\ at # "details" \/ at' = at
<1> USE DEF search, details, flags
<1>1. CASE Publish \/ Save \/ Stop \/ BeginEditorSession \/ DiscardEditorSession
  BY <1>1 DEF Publish, Save, Stop, BeginEditorSession, DiscardEditorSession
<1>2. CASE CopyToSnapshot \/ CompleteSnapshot \/ UNCHANGED vars
  BY <1>2 DEF CopyToSnapshot, CompleteSnapshot, vars
<1>3. CASE SaveBestSolution /\ ~SaveEditedMaskArtifact /\ ~SaveEditedTargetArtifact
  BY <1>3 DEF SaveBestSolution, SaveRasterProgram, RenderCreatedPicture,
     ShowLastCreatedPicture, SaveOptimizedProgram, SavePMG, SaveScreenData, SavePicture,
     SaveOptimizerState, Export
<1> QED
  BY <1>1, <1>2, <1>3

LEMMA RequestNext ==
    ASSUME Typed, MutexKept, RequestPending, RequestInForce, [Next]_vars
    PROVE  RequestInForce'
<1> USE DEF RequestInForce, SwitchedOn
<1>1. CASE UNCHANGED <<params, request, recipe, maskEdited, output>>
  BY <1>1
<1>2. CASE SaveEditedMaskArtifact
  <2>1. SUFFICES ASSUME NEW r \in request
                 PROVE  \/ params' = r.params
                        \/ params' = ScoreOn[r.params] /\ SwitchedOn(params)'
    BY <1>2, MaskSaved
  <2>2. r.params \in Params
    BY DEF Typed, Requests
  <2>3. CASE UNCHANGED <<recipe, params>>
    BY <1>2, <2>3, MaskSaved
  <2>4. CASE params' = ScoreOn[params] /\ SwitchedOn(params)'
    BY <2>2, <2>4, ScoreOnTwice
  <2> QED
    BY <1>2, <2>3, <2>4, MaskSaved
<1>3. CASE SaveEditedTargetArtifact
  BY <1>3, TargetSaved
<1>4. CASE ApplyEditorSession
  <2>1. UNCHANGED <<recipe, maskEdited, output>>
    BY <1>4 DEF ApplyEditorSession, flags
  <2>2. CASE UNCHANGED <<params, request, edits, at, then, locked>>
    BY <1>1, <2>1, <2>2
  <2>3. CASE ~ UNCHANGED <<params, request, edits, at, then, locked>>
    BY <1>4, <2>3 DEF ApplyEditorSession
  <2> QED
    BY <2>2, <2>3
<1>5. CASE request' = {}
  BY <1>5
<1> QED
  <2>1. FailSnapshot \/ Edit \/ Die => request' = {}
    BY DEF FailSnapshot, Edit, Die
  <2>2. BranchCurrentRun \/ Resume => request' = {}
    BY DEF BranchCurrentRun, Resume, RequestPending, MutexKept, Writing, Mapped, Rendering
  <2>3. CASE SaveBestSolution
    BY <2>3, <1>1, <1>2, <1>3, TableAlone
  <2> QED
    BY <2>1, <2>2, <2>3, <1>1, <1>4, <1>5, TableAlone DEF Next, Editor, Terminated

\* A stroke that patches the table leaves entries of parameters that a save has
\* switched to scoring, and no others.
LEMMA PatchKept ==
    ASSUME Typed, RequestInForce, TableKept, NEW r \in request, ApplyMaskEdit(r),
           ~FullRebuild(r), UNCHANGED <<recipe, output>>, request' = {}
    PROVE  TableKept'
<1>1. /\ r.params = r.prior /\ params \in Scoring /\ params \in Params
      /\ r.prior \in InForce /\ r \in Requests
  BY DEF FullRebuild, InForce, Typed
<1>2. params' = params /\ maskEdited' = TRUE /\ target' = target
  <2>1. params' = params
    BY <1>1, ParamsAssumption DEF ApplyMaskEdit
  <2> QED
    BY <2>1 DEF ApplyMaskEdit
<1>3. ASSUME NEW o \in table
      PROVE  /\ [o EXCEPT !.layer = layer'].layer = layer'
             /\ [o EXCEPT !.layer = layer'].target = target'
             /\ [o EXCEPT !.layer = layer'].params = o.params
             /\ \/ o.params = params
                \/ o.params \notin Scoring /\ params = ScoreOn[o.params] /\ SwitchedOn(params)'
  <2>1. o \in Objectives /\ o.target = target
    BY DEF Typed, Tables, TableKept
  <2>2. \/ o.params = r.prior
        \/ o.params \notin Scoring /\ r.prior = ScoreOn[o.params] /\ SwitchedOn(r.prior)
    BY <1>1 DEF TableKept
  <2>3. params = r.prior \/ (params = ScoreOn[r.prior] /\ SwitchedOn(params))
    BY <1>1 DEF RequestInForce
  <2>4. \/ o.params = params
        \/ o.params \notin Scoring /\ params = ScoreOn[o.params] /\ SwitchedOn(params)
    <3>1. o.params \in Params
      BY <2>1 DEF Objectives
    <3>2. CASE o.params = r.prior
      BY <1>1, <2>3, <3>1, <3>2, ParamsAssumption
    <3>3. CASE o.params \notin Scoring /\ r.prior = ScoreOn[o.params] /\ SwitchedOn(r.prior)
      BY <2>3, <3>1, <3>3, ScoreOnTwice
    <3> QED
      BY <2>2, <3>2, <3>3
  <2>5. SwitchedOn(params) => SwitchedOn(params)'
    BY <1>2 DEF SwitchedOn
  <2> QED
    BY <1>2, <2>1, <2>4, <2>5 DEF Objectives
<1>4. PICK left \in SUBSET table : table' = Patched(left)
  BY DEF ApplyMaskEdit
<1>5. InForce' = {params}
  BY <1>2 DEF InForce
<1>6. ASSUME NEW e \in table'
      PROVE  /\ e.layer = layer' /\ e.target = target'
             /\ \/ e.params = params
                \/ e.params \notin Scoring /\ params = ScoreOn[e.params] /\ SwitchedOn(params)'
  <2>1. CASE e = Objective'
    BY <1>2, <2>1 DEF Objective
  <2>2. CASE e # Objective'
    <3>1. PICK o \in left : e = [o EXCEPT !.layer = layer']
      BY <1>4, <2>2 DEF Patched
    <3> QED
      BY <1>3, <3>1
  <2> QED
    BY <2>1, <2>2
<1> QED
  BY <1>2, <1>5, <1>6 DEF TableKept, SwitchedOn

LEMMA TableNext ==
    ASSUME Typed, MutexKept, RequestPending, RequestInForce, TableKept, [Next]_vars
    PROVE  TableKept'
<1> USE PlacesAre
<1>1. CASE /\ UNCHANGED <<table, layer, params, target, request, recipe, maskEdited, output>>
           /\ at # "details" \/ at' = at
  BY <1>1 DEF TableKept, InForce, SwitchedOn
<1>2. CASE table' = {Objective'} /\ request' = {}
  BY <1>2 DEF TableKept, InForce, Objective
<1>3. CASE SaveEditedMaskArtifact
  <2>1. SUFFICES ASSUME NEW o \in table, NEW p \in InForce'
                 PROVE  \/ o.params = p
                        \/ o.params \notin Scoring /\ p = ScoreOn[o.params] /\ SwitchedOn(p)'
    BY <1>3, MaskSaved DEF TableKept
  <2>2. o.params \in Params
    BY DEF Typed, Tables, Objectives
  <2>3. CASE request # {}
    <3>1. p \in InForce
      BY <1>3, <2>3, MaskSaved DEF InForce
    <3>2. CASE UNCHANGED <<recipe, params>>
      BY <1>3, <2>3, <3>1, <3>2, MaskSaved DEF TableKept, SwitchedOn
    <3>3. CASE o.params = p
      BY <3>3
    <3>4. CASE SwitchedOn(p)
      BY <1>3, <3>1, <3>4 DEF SaveEditedMaskArtifact, TableKept, SwitchedOn, Repointed, flags
    <3> QED
      BY <2>3, <3>1, <3>3, <3>4 DEF TableKept
  <2>4. CASE request = {}
    <3>1. p = params' /\ InForce = {params}
      BY <1>3, <2>4, MaskSaved DEF InForce
    <3>2. \/ o.params = params
          \/ /\ o.params \notin Scoring /\ params = ScoreOn[o.params]
             /\ maskEdited /\ recipe.params = params
      BY <3>1 DEF TableKept, SwitchedOn
    <3>3. CASE UNCHANGED <<recipe, params>>
      BY <1>3, <3>1, <3>2, <3>3, MaskSaved DEF SwitchedOn
    <3>4. CASE params' = ScoreOn[params] /\ SwitchedOn(params)'
      <4>1. params' = ScoreOn[o.params]
        BY <2>2, <3>2, <3>4, ScoreOnTwice
      <4> QED
        BY <2>2, <3>1, <3>4, <4>1, ParamsAssumption
    <3> QED
      BY <1>3, <3>3, <3>4, MaskSaved
  <2> QED
    BY <2>3, <2>4
<1>4. CASE SaveEditedTargetArtifact
  BY <1>4, TargetSaved DEF TableKept, InForce, SwitchedOn
<1>5. CASE ApplyEditorSession
  <2>1. UNCHANGED <<table, layer, target, recipe, maskEdited, output>> /\ at = "run"
    BY <1>5 DEF ApplyEditorSession, search, flags
  <2>2. CASE UNCHANGED <<params, request, edits, at, then, locked>>
    BY <1>1, <2>1, <2>2
  <2>3. CASE ~ UNCHANGED <<params, request, edits, at, then, locked>>
    <3>1. PICK r \in Requests : r.prior = params /\ request' = {r}
      BY <1>5, <2>3 DEF ApplyEditorSession
    <3>2. request = {}
      BY <2>1 DEF RequestPending, MutexKept, Writing, Mapped, Rendering
    <3>3. InForce = {params} /\ InForce' = {params}
      BY <3>1, <3>2 DEF InForce
    <3> QED
      BY <2>1, <3>3 DEF TableKept, SwitchedOn
  <2> QED
    BY <2>2, <2>3
<1>6. CASE FailSnapshot
  <2>1. PICK r \in request : params' = r.prior
    BY <1>6 DEF FailSnapshot, Refused
  <2>2. UNCHANGED <<table, layer, target, recipe, maskEdited, output>> /\ request' = {}
        /\ at # "details"
    BY <1>6 DEF FailSnapshot, search, flags
  <2>3. InForce' = {r.prior} /\ r.prior \in InForce
    BY <2>1, <2>2 DEF InForce
  <2> QED
    BY <2>2, <2>3 DEF TableKept, SwitchedOn
<1>7. CASE BranchCurrentRun
  <2>1. at = "branch" /\ request = {} /\ InForce = {params}
    BY <1>7 DEF BranchCurrentRun, RequestPending, MutexKept, Writing, Mapped, Rendering, InForce
  <2>2. UNCHANGED <<table, layer, params, target, recipe, maskEdited, request>>
        /\ (at' = "details" \/ UNCHANGED output)
    BY <1>7 DEF BranchCurrentRun, StartSave, search, details
  <2>3. InForce' = {params}
    BY <2>1, <2>2 DEF InForce
  <2> QED
    BY <2>1, <2>2, <2>3 DEF TableKept, SwitchedOn
<1>8. CASE Edit
  <2>1. PICK r \in request : ApplyMaskEdit(r) \/ ApplyDestinationEdit(r)
    BY <1>8 DEF Edit
  <2>2. request' = {} /\ UNCHANGED <<recipe, output>>
    BY <1>8 DEF Edit
  <2>3. CASE table' = {Objective'}
    BY <1>2, <2>2, <2>3
  <2>4. CASE ApplyMaskEdit(r) /\ ~FullRebuild(r)
    BY <2>2, <2>4, PatchKept
  <2> QED
    BY <2>1, <2>3, <2>4 DEF ApplyMaskEdit, ApplyDestinationEdit
<1>9. CASE Die \/ Resume
  <2>1. table' = {Objective'}
    BY <1>9 DEF Die, Resume
  <2>2. request' = {}
    BY <1>9 DEF Die, Resume, RequestPending, MutexKept, Writing, Mapped, Rendering
  <2> QED
    BY <1>2, <2>1, <2>2
<1> QED
  <2>1. CASE SaveBestSolution
    BY <2>1, <1>1, <1>3, <1>4, TableAlone
  <2> QED
    BY <2>1, <1>1, <1>5, <1>6, <1>7, <1>8, <1>9, TableAlone DEF Next, Editor, Terminated

-----------------------------------------------------------------------------

\* A save writes each file of its folder once, and no other folder.
LEMMA SaveWrites ==
    ASSUME Typed, SaveBestSolution
    PROVE  /\ \A f \in Folders \ {output} : disk'[f] = disk[f] /\ complete'[f] = complete[f]
           /\ at # "details" => disk'[output].details = disk[output].details
           /\ at # "target" => disk'[output].target = disk[output].target
           /\ at # "rp" => disk'[output].rp = disk[output].rp
           /\ at # "opt" => disk'[output].opt = disk[output].opt
           /\ at # "pmg" => disk'[output].pmg = disk[output].pmg
           /\ at # "mic" => disk'[output].mic = disk[output].mic
           /\ at # "png" => disk'[output].png = disk[output].png
           /\ at \notin {"details", "optstate"} => complete' = complete
           /\ at = "details" => complete'[output] = {}
<1> USE DEF Typed
<1>0. output \in Folders /\ disk[output] \in Contents
  BY RunFolderBounds DEF Folders
<1>1. CASE SaveEditedMaskArtifact
  BY <1>0, <1>1 DEF SaveEditedMaskArtifact, Contents
<1>2. CASE SaveEditedTargetArtifact
  BY <1>0, <1>2 DEF SaveEditedTargetArtifact, Contents
<1>3. CASE SaveRasterProgram
  BY <1>0, <1>3 DEF SaveRasterProgram, Contents
<1>4. CASE RenderCreatedPicture \/ ShowLastCreatedPicture
  BY <1>4 DEF RenderCreatedPicture, ShowLastCreatedPicture, files
<1>5. CASE SaveOptimizedProgram
  BY <1>0, <1>5 DEF SaveOptimizedProgram, Export, Contents
<1>6. CASE SavePMG
  BY <1>0, <1>6 DEF SavePMG, Export, Contents
<1>7. CASE SaveScreenData
  BY <1>0, <1>7 DEF SaveScreenData, Export, Contents
<1>8. CASE SavePicture
  BY <1>0, <1>8 DEF SavePicture, Export, Contents
<1>9. CASE SaveOptimizerState
  BY <1>0, <1>9 DEF SaveOptimizerState, Contents
<1> QED
  BY <1>1, <1>2, <1>3, <1>4, <1>5, <1>6, <1>7, <1>8, <1>9 DEF SaveBestSolution

\* Outside of a save nothing about its files is promised.
LEMMA OtherStep ==
    ASSUME Typed, MutexKept, [Next]_vars, ~Publish, ~SaveBestSolution, ~UNCHANGED vars
    PROVE  at' \notin Mapped
<1> USE PlacesAre DEF Typed, MutexKept, Writing, Mapped, Rendering
<1>1. CASE Save \/ Stop \/ BeginEditorSession \/ DiscardEditorSession
  BY <1>1 DEF Save, Stop, StartSave, BeginEditorSession, DiscardEditorSession
<1>2. CASE ApplyEditorSession
  BY <1>2 DEF ApplyEditorSession, TowardsSnapshot, StartSave
<1>3. CASE CopyToSnapshot \/ CompleteSnapshot \/ FailSnapshot
  BY <1>3 DEF CopyToSnapshot, CompleteSnapshot, FailSnapshot
<1>4. CASE Edit \/ BranchCurrentRun
  BY <1>4 DEF Edit, BranchCurrentRun, StartSave
<1>5. CASE Die \/ Resume
  BY <1>5 DEF Die, Resume
<1> QED
  BY <1>1, <1>2, <1>3, <1>4, <1>5 DEF Next, Editor, Terminated

LEMMA EditsMarkedNext ==
    ASSUME Typed, EditsMarked, [Next]_vars
    PROVE  EditsMarked'
<1> USE DEF EditsMarked, Typed, details, flags
<1>1. CASE UNCHANGED <<maskEdited, targetEdited, recipe, layer, target>>
  BY <1>1
<1>2. CASE SaveEditedMaskArtifact
  BY <1>2 DEF SaveEditedMaskArtifact, Repointed, Recipes
<1>3. CASE SaveEditedTargetArtifact
  BY <1>3 DEF SaveEditedTargetArtifact, Recipes
<1>4. CASE Edit
  BY <1>4 DEF Edit, ApplyMaskEdit, ApplyDestinationEdit
<1>5. CASE Die
  BY <1>5 DEF Die
<1>6. CASE Resume
  <2>1. PICK f \in 1 .. used : \E h \in disk[f].rp, p \in Params :
           \E l \in LayerOf(h.recipe), t \in TargetOf(h.recipe) :
             /\ recipe' = [h.recipe EXCEPT !.params = p]
             /\ layer' = l /\ target' = t
             /\ maskEdited' = (h.maskEdited \/ h.recipe.details # 0)
             /\ targetEdited' = (h.targetEdited \/ h.recipe.target # 0)
    BY <1>6 DEF Resume, LoadRasterProgram
  <2>2. f \in Folders
    BY RunFolderBounds DEF Folders
  <2>3. PICK h \in disk[f].rp, p \in Params :
             /\ recipe' = [h.recipe EXCEPT !.params = p]
             /\ layer' \in LayerOf(h.recipe) /\ target' \in TargetOf(h.recipe)
             /\ ~maskEdited' => h.recipe.details = 0
             /\ ~targetEdited' => h.recipe.target = 0
    BY <2>1
  <2>4. h.recipe \in Recipes
    BY <2>2 DEF Contents, Headers
  <2>5. recipe'.details = h.recipe.details /\ recipe'.target = h.recipe.target
    BY <2>3, <2>4 DEF Recipes
  <2> QED
    BY <2>3, <2>5 DEF LayerOf, TargetOf
<1> QED
  <2>1. CASE SaveBestSolution
    BY <2>1, <1>1, <1>2, <1>3 DEF SaveBestSolution, SaveRasterProgram, RenderCreatedPicture,
       ShowLastCreatedPicture, SaveOptimizedProgram, SavePMG, SaveScreenData, SavePicture,
       SaveOptimizerState, Export
  <2>2. CASE ~SaveBestSolution
    BY <2>2, <1>1, <1>4, <1>5, <1>6 DEF Next, Editor, Terminated, Publish, Save, Stop,
       BeginEditorSession, DiscardEditorSession, ApplyEditorSession, CopyToSnapshot,
       CompleteSnapshot, FailSnapshot, BranchCurrentRun, vars
  <2> QED
    BY <2>1, <2>2

LEMMA PicturesSavedNext ==
    ASSUME Typed, MutexKept, EditsMarked, PicturesSaved, [Next]_vars
    PROVE  PicturesSaved'
<1> USE PlacesAre DEF Writing, Mapped, Rendering
<1>0. output \in Folders /\ disk[output] \in Contents
  BY RunFolderBounds DEF Folders, Typed
<1>1. CASE Publish \/ UNCHANGED vars
  BY <1>1 DEF Publish, vars, PicturesSaved, details, flags, files
<1>2. CASE SaveEditedMaskArtifact
  <2>1. at' = "target" /\ UNCHANGED <<layer, maskEdited, output>>
    BY <1>2 DEF SaveEditedMaskArtifact, flags
  <2>2. complete'[output] = {}
    BY <1>2, SaveWrites DEF SaveBestSolution, SaveEditedMaskArtifact
  <2>3. maskEdited => recipe'.details = output /\ disk'[output].details = {layer}
    <3>1. Repointed.details = output
      BY DEF Repointed, Typed, Recipes
    <3>2. CASE maskEdited
      <4>1. disk' = [disk EXCEPT ![output].details = {layer}] /\ recipe' = Repointed
        BY <1>2, <3>2 DEF SaveEditedMaskArtifact
      <4> QED
        BY <1>0, <3>1, <4>1 DEF Typed, Contents
    <3> QED
      BY <3>2
  <2> QED
    BY <2>1, <2>2, <2>3 DEF PicturesSaved
<1>3. CASE SaveEditedTargetArtifact
  <2>1. at = "target" /\ at' = "rp"
        /\ UNCHANGED <<layer, target, maskEdited, targetEdited, output, complete>>
    BY <1>3 DEF SaveEditedTargetArtifact, flags, details
  <2>2. disk'[output].details = disk[output].details
    BY <2>1, <1>3, SaveWrites DEF SaveBestSolution
  <2>3. recipe'.details = recipe.details
    BY <1>3 DEF SaveEditedTargetArtifact, Typed, Recipes
  <2>4. targetEdited => recipe'.target = output /\ disk'[output].target = {target}
    BY <1>0, <1>3 DEF SaveEditedTargetArtifact, Typed, Recipes, Contents
  <2> QED
    BY <2>1, <2>2, <2>3, <2>4 DEF PicturesSaved
<1>4. CASE SaveBestSolution /\ ~SaveEditedMaskArtifact /\ ~SaveEditedTargetArtifact
  <2>1. at \in Mapped \ {"target"} /\ at' # "target"
        /\ UNCHANGED <<recipe, layer, target, maskEdited, targetEdited, output>>
    BY <1>4 DEF SaveBestSolution, SaveRasterProgram, RenderCreatedPicture,
       ShowLastCreatedPicture, SaveOptimizedProgram, SavePMG, SaveScreenData, SavePicture,
       SaveOptimizerState, Export, details, flags, Typed
  <2>2. UNCHANGED <<disk[output].details, disk[output].target>>
    BY <1>4, <2>1, SaveWrites
  <2>3. at' \in Mapped => complete' = complete
    BY <1>4, <2>1, SaveWrites, SaveStep DEF Typed
  <2> QED
    BY <2>1, <2>2, <2>3 DEF PicturesSaved
<1>5. CASE at' \notin Mapped
  BY <1>5 DEF PicturesSaved
<1> QED
  BY <1>1, <1>2, <1>3, <1>4, <1>5, OtherStep

LEMMA ProgramSavedNext ==
    ASSUME Typed, MutexKept, ProgramSaved, [Next]_vars
    PROVE  ProgramSaved'
<1> USE PlacesAre DEF Writing, Mapped, Rendering
<1>0. output \in Folders /\ disk[output] \in Contents
  BY RunFolderBounds DEF Folders, Typed
<1>1. CASE Publish
  BY <1>1 DEF Publish, ProgramSaved, flags, files
<1>2. CASE UNCHANGED vars
  BY <1>2 DEF vars, ProgramSaved, search, flags, files
<1>3. CASE SaveRasterProgram
  <2> DEFINE h == [prog |-> best, recipe |-> recipe, built |-> built,
                   maskEdited |-> maskEdited, targetEdited |-> targetEdited]
  <2>1. h \in Headers /\ h.prog = best /\ h.recipe = recipe
    BY DEF Typed, Headers
  <2>2. disk'[output].rp = {h}
    BY <1>0, <1>3 DEF SaveRasterProgram, Typed, Contents
  <2>3. at' = "render" /\ pic' = {best} /\ UNCHANGED <<best, recipe, output>>
    BY <1>3 DEF SaveRasterProgram, search
  <2> QED
    BY <2>1, <2>2, <2>3 DEF ProgramSaved, Typed
<1>4. CASE SaveBestSolution /\ at \in Rendering /\ at # "optstate"
  <2>1. UNCHANGED <<best, recipe, output, locked, pic>>
    BY <1>4 DEF SaveBestSolution, SaveEditedMaskArtifact, SaveEditedTargetArtifact,
       SaveRasterProgram, RenderCreatedPicture, ShowLastCreatedPicture,
       SaveOptimizedProgram, SavePMG, SaveScreenData, SavePicture, SaveOptimizerState, Export,
       search
  <2>2. disk'[output].rp = disk[output].rp
    BY <1>4, SaveWrites
  <2> QED
    BY <1>4, <2>1, <2>2 DEF ProgramSaved
<1>5. CASE at' \notin Rendering
  BY <1>5 DEF ProgramSaved
<1>6. SaveBestSolution => SaveRasterProgram \/ (at \in Rendering /\ at # "optstate")
                          \/ at' \notin Rendering
  BY DEF SaveBestSolution, SaveEditedMaskArtifact, SaveEditedTargetArtifact,
     RenderCreatedPicture, ShowLastCreatedPicture, SaveOptimizedProgram, SavePMG,
     SaveScreenData, SavePicture, SaveOptimizerState, Export, Typed
<1> QED
  BY <1>1, <1>2, <1>3, <1>4, <1>5, <1>6, OtherStep

LEMMA ExportsSavedNext ==
    ASSUME Typed, MutexKept, ProgramSaved, ExportsSaved, [Next]_vars
    PROVE  ExportsSaved'
<1> USE PlacesAre DEF Writing, Mapped, Rendering
<1>0. output \in Folders /\ disk[output] \in Contents
  BY RunFolderBounds DEF Folders, Typed
<1>s. SUFFICES ASSUME at' \in {"show", "opt", "pmg", "mic", "png", "optstate"},
                      NEW p \in pic'
               PROVE  /\ at' \in {"pmg", "mic", "png", "optstate"} => disk'[output'].opt = {p}
                      /\ ~raced' =>
                         /\ at' \in {"show", "opt", "pmg", "mic"} => buffer' = Rendered(p)
                         /\ at' \in {"opt", "pmg", "mic", "png"} => bitmap' = Rendered(p)
                         /\ at' \in {"mic", "png", "optstate"} =>
                              disk'[output'].pmg = {Rendered(p)}
                         /\ at' \in {"png", "optstate"} => disk'[output'].mic = {Rendered(p)}
                         /\ at' = "optstate" => disk'[output'].png = {Rendered(p)}
  BY DEF ExportsSaved, Rendered
<1>1. CASE Publish
  BY <1>1, <1>s DEF Publish, ExportsSaved, Typed, files
<1>2. CASE UNCHANGED vars
  BY <1>2, <1>s DEF vars, ExportsSaved, shown, files
<1>3. CASE SaveBestSolution
  <2>1. at \in {"render", "show", "opt", "pmg", "mic", "png"} /\ pic = {p}
        /\ UNCHANGED <<pic, output, raced>>
    BY <1>3, <1>s DEF SaveBestSolution, SaveEditedMaskArtifact, SaveEditedTargetArtifact,
       SaveRasterProgram, RenderCreatedPicture, ShowLastCreatedPicture,
       SaveOptimizedProgram, SavePMG, SaveScreenData, SavePicture, SaveOptimizerState, Export,
       Typed, ProgramSaved
  <2>2. /\ at # "opt" => disk'[output].opt = disk[output].opt
        /\ at # "pmg" => disk'[output].pmg = disk[output].pmg
        /\ at # "mic" => disk'[output].mic = disk[output].mic
        /\ at # "png" => disk'[output].png = disk[output].png
    BY <1>3, SaveWrites
  <2>3. CASE RenderCreatedPicture
    BY <2>1, <2>3 DEF RenderCreatedPicture
  <2>4. CASE ShowLastCreatedPicture
    BY <2>1, <2>4 DEF ShowLastCreatedPicture, ExportsSaved
  <2>5. CASE SaveOptimizedProgram
    <3>1. disk'[output].opt = {p} /\ at = "opt" /\ at' = "pmg" /\ UNCHANGED <<buffer, bitmap>>
      BY <1>0, <2>1, <2>5 DEF SaveOptimizedProgram, Export, shown, Typed, Contents
    <3> QED
      BY <2>1, <2>2, <3>1 DEF ExportsSaved
  <2>6. CASE SavePMG
    <3>1. disk'[output].pmg = {buffer} /\ at = "pmg" /\ at' = "mic"
          /\ UNCHANGED <<buffer, bitmap>>
      BY <1>0, <2>1, <2>6 DEF SavePMG, Export, shown, Typed, Contents
    <3> QED
      BY <2>1, <2>2, <3>1 DEF ExportsSaved
  <2>7. CASE SaveScreenData
    <3>1. disk'[output].mic = {buffer} /\ at = "mic" /\ at' = "png"
          /\ UNCHANGED <<buffer, bitmap>>
      BY <1>0, <2>1, <2>7 DEF SaveScreenData, Export, shown, Typed, Contents
    <3> QED
      BY <2>1, <2>2, <3>1 DEF ExportsSaved
  <2>8. CASE SavePicture
    <3>1. disk'[output].png = {bitmap} /\ at = "png" /\ at' = "optstate"
          /\ UNCHANGED <<buffer, bitmap>>
      BY <1>0, <2>1, <2>8 DEF SavePicture, Export, shown, Typed, Contents
    <3> QED
      BY <2>1, <2>2, <3>1 DEF ExportsSaved
  <2> QED
    BY <1>3, <2>1, <2>3, <2>4, <2>5, <2>6, <2>7, <2>8 DEF SaveBestSolution,
       SaveEditedMaskArtifact, SaveEditedTargetArtifact, SaveRasterProgram, SaveOptimizerState
<1> QED
  BY <1>1, <1>2, <1>3, <1>s, OtherStep

\* Outside of a save only the snapshot writes files, all of them in its folder.
LEMMA OtherWrites ==
    ASSUME [Next]_vars, ~SaveBestSolution, ~CopyToSnapshot, ~CompleteSnapshot, ~FailSnapshot
    PROVE  UNCHANGED <<disk, complete>>
BY DEF Next, Editor, Terminated, Publish, Save, Stop, BeginEditorSession,
   DiscardEditorSession, ApplyEditorSession, Edit, BranchCurrentRun, Die, Resume, vars, files

\* What the snapshot's folder has once it is complete.
LEMMA SnapshotWrites ==
    ASSUME Typed, CompleteSnapshot
    PROVE  /\ \A f \in Folders \ {used} : disk'[f] = disk[f] /\ complete'[f] = complete[f]
           /\ disk'[used].details = {layer}
           /\ disk'[used].rp = {[h EXCEPT !.recipe = Relocated(h.recipe)] : h \in disk[used].rp}
           /\ disk'[used].target = disk[used].target
           /\ disk'[used].opt = disk[used].opt /\ disk'[used].pmg = disk[used].pmg
           /\ disk'[used].mic = disk[used].mic /\ disk'[used].png = disk[used].png
           /\ complete'[used] = complete[output]
<1>1. used \in Folders /\ disk[used] \in Contents
  BY DEF Folders, Typed
<1>2. disk' = [disk EXCEPT
                 ![used].details = {layer},
                 ![used].rp = {[h EXCEPT !.recipe = Relocated(h.recipe)] : h \in @}]
      /\ complete' = [complete EXCEPT ![used] = complete[output]]
  BY DEF CompleteSnapshot
<1> QED
  BY <1>1, <1>2 DEF Typed, Contents

LEMMA OneProgramNext ==
    ASSUME Typed, OneProgram, [Next]_vars
    PROVE  OneProgram'
<1>0. output \in Folders /\ used \in Folders /\ used + 1 \in Nat /\ MaxFolders \in Nat
  BY RunFolderBounds DEF Folders, Typed
<1>s. SUFFICES ASSUME NEW f \in Folders, NEW g \in disk'[f].rp, NEW h \in disk'[f].rp
               PROVE  g = h
  BY DEF OneProgram
<1>1. CASE disk'[f].rp = disk[f].rp
  BY <1>1, <1>s DEF OneProgram
<1>2. CASE SaveBestSolution
  <2>1. CASE SaveRasterProgram /\ f = output
    BY <1>0, <2>1, <1>s DEF SaveRasterProgram, Typed, Contents
  <2>2. CASE f = output /\ at # "rp"
    BY <1>1, <1>2, <2>2, SaveWrites
  <2>3. CASE f # output
    BY <1>1, <1>2, <2>3, SaveWrites
  <2>4. SaveBestSolution /\ at = "rp" => SaveRasterProgram
    BY DEF SaveBestSolution, SaveEditedMaskArtifact, SaveEditedTargetArtifact,
       RenderCreatedPicture, ShowLastCreatedPicture, SaveOptimizedProgram, SavePMG,
       SaveScreenData, SavePicture, SaveOptimizerState
  <2> QED
    BY <1>2, <2>1, <2>2, <2>3, <2>4
<1>3. CASE CopyToSnapshot
  BY <1>0, <1>1, <1>3, <1>s DEF CopyToSnapshot, Typed, OneProgram
<1>4. CASE CompleteSnapshot
  <2>1. CASE f = used
    BY <1>4, <2>1, <1>s, SnapshotWrites DEF OneProgram
  <2>2. CASE f # used
    BY <1>1, <1>4, <2>2, SnapshotWrites
  <2> QED
    BY <2>1, <2>2
<1>5. CASE FailSnapshot
  BY <1>0, <1>1, <1>5, <1>s DEF FailSnapshot, Removed, NoFiles, Typed
<1> QED
  BY <1>1, <1>2, <1>3, <1>4, <1>5, OtherWrites

\* The save that ends has saved the program, the layer and the target as they
\* are.
LEMMA SaveEnds ==
    ASSUME Typed, EditsMarked, PicturesSaved, ProgramSaved, ExportsSaved, SaveOptimizerState,
           NEW c \in complete'[output]
    PROVE  /\ Holds(output, c)' /\ Exported(output, c)'
           /\ c.layer = layer /\ c.target = target /\ (locked => c.prog = best)
<1>0. output \in Folders /\ at = "optstate"
  BY RunFolderBounds DEF Folders, Typed, SaveOptimizerState
<1>1. PICK p \in Progs :
        /\ pic = {p} /\ (locked => p = best)
        /\ \E h \in Headers : disk[output].rp = {h} /\ h.prog = p /\ h.recipe = recipe
  BY <1>0 DEF ProgramSaved, Rendering
<1>2. c = [prog |-> p, layer |-> layer, target |-> target, raced |-> raced]
  BY <1>0, <1>1 DEF SaveOptimizerState, Typed
<1>3. /\ disk'[output].details = disk[output].details
      /\ disk'[output].target = disk[output].target
      /\ disk'[output].rp = disk[output].rp /\ disk'[output].opt = disk[output].opt
      /\ disk'[output].pmg = disk[output].pmg /\ disk'[output].mic = disk[output].mic
      /\ disk'[output].png = disk[output].png
  BY <1>0, SaveWrites DEF SaveBestSolution
<1>4. Holds(output, c)'
  <2>1. PICK h \in Headers : disk[output].rp = {h} /\ h.prog = p /\ h.recipe = recipe
    BY <1>1
  <2>2. \/ recipe.details = 0 /\ layer = GivenLayer
        \/ recipe.details = output /\ disk[output].details = {layer}
    BY <1>0 DEF EditsMarked, PicturesSaved, Mapped, Rendering, Typed
  <2>3. \/ recipe.target = 0 /\ target = GivenTarget
        \/ recipe.target = output /\ disk[output].target = {target}
    BY <1>0 DEF EditsMarked, PicturesSaved, Mapped, Rendering, Typed
  <2>4. output' = output
    BY DEF SaveOptimizerState
  <2> QED
    BY <1>2, <1>3, <2>1, <2>2, <2>3, <2>4 DEF Holds
<1>5. Exported(output, c)'
  <2>1. /\ disk[output].opt = {p}
        /\ ~raced => /\ disk[output].pmg = {Rendered(p)} /\ disk[output].mic = {Rendered(p)}
                     /\ disk[output].png = {Rendered(p)}
    BY <1>0, <1>1 DEF ExportsSaved
  <2>2. output' = output
    BY DEF SaveOptimizerState
  <2> QED
    BY <1>2, <1>3, <2>1, <2>2 DEF Exported, Rendered
<1> QED
  BY <1>1, <1>2, <1>4, <1>5

\* The snapshot holds what the run's folder held.
LEMMA SnapshotHolds ==
    ASSUME Typed, SavesHeld, SnapshotTaken, CompleteSnapshot, NEW c \in complete[output]
    PROVE  Holds(used, c)' /\ Exported(used, c)'
<1>0. output \in Folders /\ used \in Folders /\ used # output /\ disk[used] = disk[output]
      /\ c.layer = layer /\ used' = used /\ 0 # output
  BY RunFolderBounds DEF Folders, Typed, SnapshotTaken, UpToDate, CompleteSnapshot
<1>1. PICK h \in Headers :
        /\ disk[output].rp = {h} /\ h.prog = c.prog
        /\ \/ h.recipe.details = 0 /\ c.layer = GivenLayer
           \/ h.recipe.details = output /\ disk[output].details = {c.layer}
        /\ \/ h.recipe.target = 0 /\ c.target = GivenTarget
           \/ h.recipe.target = output /\ disk[output].target = {c.target}
  BY <1>0 DEF SavesHeld, Holds
<1> DEFINE g == [h EXCEPT !.recipe = Relocated(h.recipe)]
<1>2. disk'[used].rp = {g} /\ disk'[used].details = {c.layer}
      /\ disk'[used].target = disk[output].target
  BY <1>0, <1>1, SnapshotWrites
<1>3. Relocated(h.recipe) \in Recipes
      /\ Relocated(h.recipe).details = (IF h.recipe.details = output THEN used ELSE 0)
      /\ Relocated(h.recipe).target = (IF h.recipe.target = output THEN used ELSE 0)
  <2>1. h.recipe \in Recipes /\ used \in 0 .. MaxFolders
    BY <1>0 DEF Headers, Folders, Typed
  <2> QED
    BY <1>1, <2>1 DEF Relocated, Recipes
<1>4. g \in Headers /\ g.prog = c.prog /\ g.recipe = Relocated(h.recipe)
  BY <1>1, <1>3 DEF Headers
<1>5. Holds(used, c)'
  <2> HIDE DEF g
  <2> QED
    BY <1>0, <1>1, <1>2, <1>3, <1>4 DEF Holds
<1>6. Exported(used, c)'
  BY <1>0, SnapshotWrites DEF SavesHeld, Exported, Rendered
<1> QED
  BY <1>5, <1>6

LEMMA SavesHeldNext ==
    ASSUME Typed, DiskInv, [Next]_vars
    PROVE  SavesHeld'
<1> USE DEF DiskInv
<1>0. output \in Folders /\ used \in Folders /\ used \in Nat /\ MaxFolders \in Nat
  BY RunFolderBounds DEF Folders, Typed
<1>s. SUFFICES ASSUME NEW f \in Folders, NEW c \in complete'[f]
               PROVE  Holds(f, c)' /\ Exported(f, c)'
  BY DEF SavesHeld
<1>1. CASE disk'[f] = disk[f] /\ complete'[f] = complete[f]
  BY <1>1, <1>s DEF SavesHeld, Holds, Exported, Rendered
<1>2. CASE SaveBestSolution
  <2>1. CASE f # output
    BY <1>1, <1>2, <2>1, SaveWrites
  <2>2. CASE f = output /\ SaveOptimizerState
    <3>1. Holds(output, c)' /\ Exported(output, c)'
      BY <1>s, <2>2, SaveEnds
    <3>2. output' = output
      BY <2>2 DEF SaveOptimizerState
    <3> QED
      BY <2>2, <3>1, <3>2 DEF Holds, Exported, Rendered
  <2>3. CASE f = output /\ ~SaveOptimizerState
    <3>1. at # "optstate" /\ (at = "details" \/ at \in Mapped)
      BY <1>2, <2>3 DEF SaveBestSolution, SaveEditedMaskArtifact, SaveEditedTargetArtifact,
         SaveRasterProgram, RenderCreatedPicture, ShowLastCreatedPicture,
         SaveOptimizedProgram, SavePMG, SaveScreenData, SavePicture, Mapped, Rendering
    <3>2. complete'[output] = {}
      BY <1>2, <3>1, SaveWrites DEF PicturesSaved, Mapped, Rendering
    <3> QED
      BY <1>s, <2>3, <3>2
  <2> QED
    BY <2>1, <2>2, <2>3
<1>3. CASE CopyToSnapshot
  <2>1. CASE f = used + 1
    BY <1>0, <1>3, <2>1, <1>s DEF CopyToSnapshot, UnusedEmpty
  <2>2. CASE f # used + 1
    BY <1>1, <1>3, <2>2 DEF CopyToSnapshot, Typed
  <2> QED
    BY <2>1, <2>2
<1>4. CASE CompleteSnapshot
  <2>1. CASE f = used
    <3>1. Holds(used, c)' /\ Exported(used, c)'
      BY <1>4, <2>1, <1>s, SnapshotWrites, SnapshotHolds
    <3>2. used' = used
      BY <1>4 DEF CompleteSnapshot
    <3> QED
      BY <2>1, <3>1, <3>2 DEF Holds, Exported, Rendered
  <2>2. CASE f # used
    BY <1>1, <1>4, <2>2, SnapshotWrites
  <2> QED
    BY <2>1, <2>2
<1>5. CASE FailSnapshot
  <2>1. CASE f = used /\ at = "recipe"
    BY <1>0, <1>5, <2>1, <1>s DEF FailSnapshot, SnapshotTaken
  <2>2. CASE ~(f = used /\ at = "recipe")
    BY <1>1, <1>5, <2>2 DEF FailSnapshot, Removed, Typed
  <2> QED
    BY <2>1, <2>2
<1> QED
  BY <1>1, <1>2, <1>3, <1>4, <1>5, OtherWrites

LEMMA UnusedEmptyNext ==
    ASSUME Typed, UnusedEmpty, SnapshotTaken, [Next]_vars
    PROVE  UnusedEmpty'
<1> USE DEF UnusedEmpty
<1>0. output \in Folders /\ used \in Folders /\ used \in Nat /\ MaxFolders \in Nat
      /\ output <= used /\ output \in Nat
  BY RunFolderBounds DEF Folders, Typed
<1>s. SUFFICES ASSUME NEW f \in Folders, f > used' PROVE complete'[f] = {}
  OBVIOUS
<1>f. f \in Nat
  BY <1>0 DEF Folders
<1>1. CASE SaveBestSolution
  BY <1>0, <1>f, <1>1, <1>s, SaveWrites, SaveStep
<1>2. CASE CopyToSnapshot
  BY <1>0, <1>f, <1>2, <1>s DEF CopyToSnapshot
<1>3. CASE CompleteSnapshot
  <2>1. used' = used /\ f # used
    BY <1>0, <1>f, <1>3, <1>s DEF CompleteSnapshot
  <2> QED
    BY <1>3, <1>s, <2>1, SnapshotWrites
<1>4. CASE FailSnapshot
  <2>1. CASE at = "recipe"
    <3>1. used' = used - 1 /\ complete' = complete
      BY <1>4, <2>1 DEF FailSnapshot
    <3>2. f = used \/ f > used
      BY <1>0, <1>f, <1>s, <3>1
    <3> QED
      BY <2>1, <3>1, <3>2 DEF SnapshotTaken
  <2>2. CASE at # "recipe"
    BY <1>4, <1>s, <2>2 DEF FailSnapshot
  <2> QED
    BY <2>1, <2>2
<1>5. CASE BranchCurrentRun
  <2>1. complete' = complete /\ (used' = used + 1 \/ used' = used)
    BY <1>5 DEF BranchCurrentRun
  <2>2. f > used
    BY <1>0, <1>f, <1>s, <2>1
  <2> QED
    BY <2>1, <2>2
<1>6. CASE UNCHANGED <<used, complete>>
  BY <1>6, <1>s
<1> QED
  BY <1>1, <1>2, <1>3, <1>4, <1>5, <1>6 DEF Next, Editor, Terminated, Publish, Save, Stop,
     BeginEditorSession, DiscardEditorSession, ApplyEditorSession, Edit, Die, Resume, vars, files

LEMMA SnapshotTakenNext ==
    ASSUME Typed, MutexKept, DiskInv, [Next]_vars
    PROVE  SnapshotTaken'
<1> USE PlacesAre DEF DiskInv
<1>0. output \in Folders /\ used \in Folders /\ used \in Nat /\ MaxFolders \in Nat
      /\ output <= used /\ output \in Nat
  BY RunFolderBounds DEF Folders, Typed
<1>1. CASE SaveOptimizerState
  <2>1. CASE then = "copy"
    <3>1. at' = "copy" /\ locked /\ UNCHANGED <<best, layer, target, output>>
      BY <1>1, <2>1 DEF SaveOptimizerState, MutexKept, search, details
    <3>2. complete'[output] # {}
      <4>1. at = "optstate"
        BY <1>1 DEF SaveOptimizerState
      <4>2. PICK p \in Progs : pic = {p}
        BY <4>1 DEF ProgramSaved, Rendering
      <4>3. complete'[output] = {[prog |-> q, layer |-> layer, target |-> target,
                                  raced |-> raced] : q \in pic}
        BY <1>0, <1>1 DEF SaveOptimizerState, Typed
      <4> QED
        BY <4>2, <4>3
    <3>3. \A c \in complete'[output] : c.prog = best /\ c.layer = layer /\ c.target = target
      BY <1>1, <3>1, SaveEnds
    <3> QED
      BY <3>1, <3>2, <3>3 DEF SnapshotTaken, UpToDate
  <2>2. CASE then # "copy"
    BY <1>1, <2>2 DEF SaveOptimizerState, SnapshotTaken, Typed
  <2> QED
    BY <2>1, <2>2
<1>2. CASE SaveBestSolution /\ ~SaveOptimizerState
  BY <1>2 DEF SaveBestSolution, SaveEditedMaskArtifact, SaveEditedTargetArtifact,
     SaveRasterProgram, RenderCreatedPicture, ShowLastCreatedPicture, SaveOptimizedProgram,
     SavePMG, SaveScreenData, SavePicture, Export, SnapshotTaken
<1>3. CASE Publish
  <2>1. at \notin {"copy", "recipe", "edit"} /\ at' = at
    BY <1>3 DEF Publish, MutexKept
  <2> QED
    BY <2>1 DEF SnapshotTaken
<1>4. CASE ApplyEditorSession
  <2>1. at' \notin {"copy", "recipe"} /\ (at' = "edit" => editedSinceSave')
    BY <1>4 DEF ApplyEditorSession, TowardsSnapshot, StartSave, flags
  <2> QED
    BY <2>1 DEF SnapshotTaken
<1>5. CASE CopyToSnapshot
  <2>1. at = "copy" /\ at' = "recipe" /\ used' = used + 1 /\ used < MaxFolders
        /\ UNCHANGED <<best, layer, target, output, complete>>
        /\ disk' = [disk EXCEPT ![used + 1] = disk[output]]
    BY <1>5 DEF CopyToSnapshot, search, details
  <2>2. used + 1 \in Folders
    BY <1>0, <2>1 DEF Folders
  <2>3. disk'[used + 1] = disk[output] /\ disk'[output] = disk[output]
    BY <1>0, <2>1, <2>2 DEF Typed
  <2>4. complete[used + 1] = {}
    BY <1>0, <2>2 DEF UnusedEmpty
  <2> QED
    BY <2>1, <2>3, <2>4 DEF SnapshotTaken, UpToDate
<1>6. CASE CompleteSnapshot
  <2>1. at = "recipe" /\ at' = "edit" /\ UNCHANGED <<best, layer, target, output, used>>
    BY <1>6 DEF CompleteSnapshot, search, details
  <2>2. complete'[used] = complete[output] /\ used # output
    BY <1>6, <2>1, SnapshotWrites DEF Typed
  <2> QED
    BY <2>1, <2>2 DEF SnapshotTaken, UpToDate
<1>7. CASE at' \notin {"copy", "recipe", "edit"}
  BY <1>7 DEF SnapshotTaken
<1>8. CASE UNCHANGED vars
  BY <1>8 DEF vars, SnapshotTaken, UpToDate, search, details, flags, files
<1> QED
  BY <1>1, <1>2, <1>3, <1>4, <1>5, <1>6, <1>7, <1>8 DEF Next, Editor, Terminated, Save, Stop,
     StartSave, BeginEditorSession, DiscardEditorSession, FailSnapshot, Edit, BranchCurrentRun,
     Die, Resume

-----------------------------------------------------------------------------

LEMMA InitRInv == Init => RInv
<1> SUFFICES ASSUME Init PROVE RInv
  OBVIOUS
<1>1. Typed
  BY InitTyped
<1>2. at = "run" /\ then = "run" /\ request = {} /\ pic = {}
      /\ \A f \in Folders : disk[f] = NoFiles /\ complete[f] = {}
  BY DEF Init
<1>3. MutexKept /\ RequestPending /\ PicturesSaved /\ ProgramSaved /\ ExportsSaved
      /\ UnusedEmpty /\ SnapshotTaken
  BY <1>2 DEF MutexKept, RequestPending, PicturesSaved, ProgramSaved, ExportsSaved, UnusedEmpty,
              SnapshotTaken, Mapped, Rendering
<1>4. OneProgram /\ SavesHeld
  BY <1>2 DEF OneProgram, SavesHeld, NoFiles
<1>5. EditsMarked /\ RequestInForce /\ TableKept
  BY DEF Init, EditsMarked, RequestInForce, TableKept, InForce, Objective
<1> QED
  BY <1>1, <1>3, <1>4, <1>5 DEF RInv, DiskInv

LEMMA RInvNext == RInv /\ [Next]_vars => RInv'
<1> SUFFICES ASSUME RInv, [Next]_vars PROVE RInv'
  OBVIOUS
<1> USE DEF RInv, DiskInv
<1>1. Typed'
  BY TypedNext
<1>2. MutexKept' /\ RequestPending'
  BY ControlNext
<1>3. RequestInForce' /\ TableKept'
  BY RequestNext, TableNext
<1>4. OneProgram' /\ EditsMarked' /\ PicturesSaved' /\ ProgramSaved' /\ ExportsSaved'
  BY OneProgramNext, EditsMarkedNext, PicturesSavedNext, ProgramSavedNext, ExportsSavedNext
<1>5. SavesHeld' /\ UnusedEmpty' /\ SnapshotTaken'
  BY SavesHeldNext, UnusedEmptyNext, SnapshotTakenNext
<1> QED
  BY <1>1, <1>2, <1>3, <1>4, <1>5

LEMMA RInvAlways == Spec => []RInv
BY InitRInv, RInvNext, PTL DEF Spec

\* Whatever is published during a save, and wherever the process ends: all that
\* a finished save left in a folder comes from one program, unless a worker
\* published amid the exports of a save without the mutex.
THEOREM ExportsCorrect == Spec => []ExportsAgree
<1>1. RInv => ExportsAgree
  BY DEF RInv, DiskInv, SavesHeld, Holds, Exported, ExportsAgree, Rendered
<1> QED
  BY <1>1, RInvAlways, PTL

\* While candidates are scored no entry of the error table is of a layer, a target
\* or parameters no longer in force, whichever edits patched or rebuilt it, were
\* refused or resumed, but for scoring that a save of the edited layer switched
\* on.
THEOREM TableCorrect == Spec => []ErrorTableCurrent
<1>1. RInv => ErrorTableCurrent
  <2> SUFFICES ASSUME RInv, at = "run", NEW o \in table
               PROVE  \/ o = Objective
                      \/ /\ o = [Objective EXCEPT !.params = o.params]
                         /\ o.params \notin Scoring /\ params = ScoreOn[o.params]
                         /\ SwitchedOn(params)
    BY DEF ErrorTableCurrent, SwitchedOn
  <2>1. InForce = {params}
    BY DEF RInv, RequestPending, MutexKept, Writing, Mapped, Rendering, InForce
  <2>2. /\ o.layer = layer /\ o.target = target
        /\ \/ o.params = params
           \/ o.params \notin Scoring /\ params = ScoreOn[o.params] /\ SwitchedOn(params)
    BY <2>1 DEF RInv, TableKept
  <2>3. o = [layer |-> layer, params |-> o.params, target |-> target]
    BY <2>2 DEF RInv, Typed, Tables, Objectives
  <2>4. [Objective EXCEPT !.params = o.params]
          = [layer |-> layer, params |-> o.params, target |-> target]
    BY DEF Objective
  <2> QED
    BY <2>2, <2>3, <2>4 DEF Objective
<1> QED
  BY <1>1, RInvAlways, PTL

-----------------------------------------------------------------------------
(* What /continue finds. *)

\* From a folder that holds a save that save is restored.
LEMMA HeldRestored ==
    ASSUME NEW f \in Folders, NEW c, Holds(f, c)
    PROVE  /\ Restored(f) = {[prog |-> c.prog, layer |-> c.layer, target |-> c.target]}
           /\ \A h \in disk[f].rp : /\ h.prog = c.prog /\ LayerOf(h.recipe) = {c.layer}
                                    /\ TargetOf(h.recipe) = {c.target}
<1>1. PICK h : /\ disk[f].rp = {h} /\ h.prog = c.prog
               /\ LayerOf(h.recipe) = {c.layer} /\ TargetOf(h.recipe) = {c.target}
  BY RunFolderBounds DEF Holds, LayerOf, TargetOf, Folders
<1> QED
  BY <1>1 DEF Restored

LEMMA HeldRestoredNext ==
    ASSUME NEW f \in Folders, NEW CONSTANT c, Holds(f, c)'
    PROVE  Restored(f)' = {[prog |-> c.prog, layer |-> c.layer, target |-> c.target]}
<1>1. PICK h : /\ disk'[f].rp = {h} /\ h.prog = c.prog
               /\ LayerOf(h.recipe)' = {c.layer} /\ TargetOf(h.recipe)' = {c.target}
  BY RunFolderBounds DEF Holds, LayerOf, TargetOf, Folders
<1> QED
  BY <1>1 DEF Restored

LEMMA OnlyResume ==
    ASSUME Typed, [Next]_vars, Resumes
    PROVE  Resume
BY PlacesAre DEF Resumes, Next, SaveBestSolution, SaveEditedMaskArtifact, SaveEditedTargetArtifact,
   SaveRasterProgram, RenderCreatedPicture, ShowLastCreatedPicture, SaveOptimizedProgram,
   SavePMG, SaveScreenData, SavePicture, SaveOptimizerState, Editor, Terminated, Publish, Save,
   Stop, BeginEditorSession, DiscardEditorSession, ApplyEditorSession, CopyToSnapshot,
   CompleteSnapshot, FailSnapshot, Edit, BranchCurrentRun, Die, vars

\* Everything a resumed run has, it has from the folder it was resumed from.
LEMMA ResumeStep ==
    ASSUME Typed, Resume
    PROVE  output' \in Folders /\ \E h \in disk[output'].rp :
             /\ best' = h.prog /\ layer' \in LayerOf(h.recipe) /\ target' \in TargetOf(h.recipe)
             /\ built' = Objective' /\ table' = {built'}
             /\ scale' \in ResumedScales(output', h, built')
<1>1. PICK f \in 1 .. used : \E h \in disk[f].rp, p \in Params :
         \E l \in LayerOf(h.recipe), t \in TargetOf(h.recipe) :
           /\ output' = f
           /\ best' = h.prog /\ layer' = l /\ target' = t
           /\ built' = Objective' /\ table' = {built'}
           /\ scale' \in ResumedScales(f, h, built')
  BY DEF Resume, LoadRasterProgram
<1>2. f \in Folders
  BY RunFolderBounds DEF Folders, Typed
<1> QED
  BY <1>1, <1>2

\* A run resumed from a folder whose last save was finished has the program,
\* the layer and the target it was saved with: also from a snapshot or a branch,
\* and wherever the process ended in between.
THEOREM RoundTripCorrect == Spec => SaveRoundTrips
<1>1. RInv /\ [Next]_vars =>
        [Resumes => \A c \in complete[output'] :
                      best' = c.prog /\ layer' = c.layer /\ target' = c.target]_vars
  <2> SUFFICES ASSUME RInv, [Next]_vars, Resumes, NEW c \in complete[output']
               PROVE  best' = c.prog /\ layer' = c.layer /\ target' = c.target
    OBVIOUS
  <2>1. Resume
    BY OnlyResume DEF RInv
  <2>2. PICK f \in Folders : output' = f
    BY <2>1, ResumeStep DEF RInv
  <2>3. Holds(f, c)
    BY <2>2 DEF RInv, DiskInv, SavesHeld
  <2> QED
    BY <2>1, <2>2, <2>3, ResumeStep, HeldRestored DEF RInv
<1> QED
  BY <1>1, RInvAlways, PTL DEF Spec, SaveRoundTrips

\* What a finished save of a folder was is what stays restorable from it, unless
\* it is the run's own folder.
LEMMA CompleteKept ==
    ASSUME Typed, UnusedEmpty, SnapshotTaken, [Next]_vars,
           NEW f \in Folders \ {output}, complete[f] # {}
    PROVE  complete'[f] = complete[f]
<1>1. CASE SaveBestSolution
  BY <1>1, SaveWrites
<1>2. CASE CompleteSnapshot
  BY <1>2, SnapshotWrites DEF CompleteSnapshot, SnapshotTaken
<1>3. CASE CopyToSnapshot \/ FailSnapshot
  BY <1>3 DEF CopyToSnapshot, FailSnapshot
<1> QED
  BY <1>1, <1>2, <1>3, OtherWrites

\* A snapshot is a true restore point: before the first edit since the last save
\* some other folder restores the program, the layer and the target as they are,
\* and what is restored from the finished folders that are not the run's own
\* never changes.
THEOREM RestorePointCorrect == Spec => RestorePoint
<1> DEFINE Taken == at = "edit" /\ at' # "off" /\ ~editedSinceSave =>
                      \E f \in Folders \ {output} :
                        Restored(f) = {[prog |-> best, layer |-> layer, target |-> target]}
           Stays == \A f \in Folders \ {output} :
                      complete[f] # {} => Restored(f)' = Restored(f)
<1>1. RInv => Taken
  <2> SUFFICES ASSUME RInv, at = "edit", ~editedSinceSave
               PROVE  \E f \in Folders \ {output} :
                        Restored(f) = {[prog |-> best, layer |-> layer, target |-> target]}
    OBVIOUS
  <2>1. used \in Folders \ {output} /\ UpToDate(used)
    BY DEF RInv, DiskInv, SnapshotTaken, Typed, Folders
  <2>2. PICK c \in complete[used] : c.prog = best /\ c.layer = layer /\ c.target = target
    BY <2>1 DEF UpToDate
  <2>3. Holds(used, c)
    BY <2>1 DEF RInv, DiskInv, SavesHeld
  <2>4. Restored(used) = {[prog |-> best, layer |-> layer, target |-> target]}
    BY <2>1, <2>2, <2>3, HeldRestored
  <2> QED
    BY <2>1, <2>4
<1>2. RInv /\ RInv' /\ [Next]_vars => Stays
  <2> SUFFICES ASSUME RInv, RInv', [Next]_vars, NEW f \in Folders \ {output}, complete[f] # {}
               PROVE  Restored(f)' = Restored(f)
    OBVIOUS
  <2>1. PICK c \in complete[f] : TRUE
    OBVIOUS
  <2>2. c \in complete'[f]
    BY <2>1, CompleteKept DEF RInv, DiskInv
  <2>3. Holds(f, c)
    BY <2>1 DEF RInv, DiskInv, SavesHeld
  <2>4. Holds(f, c)'
    BY <2>2 DEF RInv, DiskInv, SavesHeld
  <2> QED
    <3>1. Restored(f) = {[prog |-> c.prog, layer |-> c.layer, target |-> c.target]}
      BY <2>3, HeldRestored
    <3>2. Restored(f)' = {[prog |-> c.prog, layer |-> c.layer, target |-> c.target]}
      BY <2>4, HeldRestoredNext
    <3> QED
      BY <3>1, <3>2
<1>3. RInv /\ RInv' /\ [Next]_vars => [Taken /\ Stays]_vars
  BY <1>1, <1>2
<1> QED
  BY <1>3, RInvAlways, PTL DEF Spec, RestorePoint

\* A resumed history was scored under the objective the run is resumed with, or
\* has been scored anew, provided the history is of the program it was saved with
\* and the recipe has the parameters it was saved under.
THEOREM ScaleCorrect == Spec => ResumedOnScale
<1> DEFINE OnScale ==
      \A h \in disk[output'].rp :
        (disk[output'].optstate \subseteq {{h.built}} /\ h.recipe.params = h.built.params)
          => \A o \in UNION scale' :
               o.target = target' /\ (params' \in Scoring \/ o.params \in Scoring
                                        => o.layer = layer' /\ o.params = params')
<1>1. RInv /\ [Next]_vars => [Resumes => OnScale]_vars
  <2> SUFFICES ASSUME RInv, [Next]_vars, Resumes, NEW h \in disk[output'].rp,
                      disk[output'].optstate \subseteq {{h.built}},
                      h.recipe.params = h.built.params, NEW o \in UNION scale'
               PROVE  o.target = target' /\ (params' \in Scoring \/ o.params \in Scoring
                                               => o.layer = layer' /\ o.params = params')
    OBVIOUS
  <2>1. Resume
    BY OnlyResume DEF RInv
  <2>2. PICK g \in disk[output'].rp :
          built' = Objective' /\ scale' \in ResumedScales(output', g, built')
    BY <2>1, ResumeStep DEF RInv
  <2>3. output' \in Folders /\ g = h
    BY <2>1, ResumeStep DEF RInv, DiskInv, OneProgram
  <2>4. built'.layer = layer' /\ built'.params = params' /\ built'.target = target'
    BY <2>2 DEF Objective
  <2>5. CASE o = built'
    BY <2>4, <2>5
  <2>6. CASE o # built'
    <3>1. /\ scale' # {{built'}}
          /\ ~OptionsChanged(h.recipe.params, params') /\ ~PicturesChanged(h, built')
          /\ scale' = disk[output'].optstate
      BY <2>2, <2>3, <2>4, <2>6 DEF ResumedScales, LoadOptimizerState
    <3>2. o = h.built
      BY <3>1
    <3>3. params' \notin Scoring /\ h.recipe.params \notin Scoring /\ h.built.target = target'
      BY <2>4, <3>1 DEF OptionsChanged, PicturesChanged
    <3> QED
      BY <3>2, <3>3
  <2> QED
    BY <2>5, <2>6
<1> QED
  BY <1>1, RInvAlways, PTL DEF Spec, ResumedOnScale

=============================================================================
