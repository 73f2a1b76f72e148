-------------------------- MODULE DeploymentProofs --------------------------
(***************************************************************************)
(* Proofs about ResolverSetup, for any number of faults, and about         *)
(* Deployment, for any configurations and lists of nameservers.            *)
(***************************************************************************)
EXTENDS Deployment, FiniteSetTheorems, SequenceTheorems, TLAPS

Current == Subtasks(command)[task]
Acts == {"setup", "teardown"}

(* Every command is a list of one to three subtasks.                       *)
LEMMA SubtaskLists ==
  ASSUME NEW c \in Commands
  PROVE  /\ Len(Subtasks(c)) \in {1, 3} /\ DOMAIN Subtasks(c) = 1 .. Len(Subtasks(c))
         /\ \A i \in DOMAIN Subtasks(c) : Subtasks(c)[i] \in [act : Acts, file : Files]
<1>1. CASE c = "setup"
  BY <1>1 DEF Subtasks, SetupAll, Subtask, Acts, Files, Confs
<1>2. CASE c = "teardown"
  BY <1>2 DEF Subtasks, TeardownAll, Subtask, Acts, Files, Confs
<1>3. CASE c \notin {"setup", "teardown"}
  <2>1. \E a \in Acts, f \in Files : Subtasks(c) = <<[act |-> a, file |-> f]>>
    BY <1>3 DEF Commands, Subtasks, Subtask, Acts, Files, Confs
  <2> QED BY <2>1
<1> QED BY <1>1, <1>2, <1>3

(* What a subtask's act and file say about the command.                    *)
LEMMA WhereIs ==
  ASSUME NEW c \in Commands, NEW i \in DOMAIN Subtasks(c)
  PROVE  /\ c = "setup" => (i = 1 <=> Subtasks(c)[i].file = "run")
         /\ c = "setup" \/ c = "setup-resolv" \/ c = "setup-run-resolv" \/ c = "setup-nss"
              <=> Subtasks(c)[i].act = "setup"
         /\ c = "teardown" => (i = 2 <=> Subtasks(c)[i].file = "resolv") /\ (i = 3 <=> Subtasks(c)[i].file = "run")
         /\ c = "setup-resolv" \/ c = "teardown-resolv" => Subtasks(c)[i].file = "resolv"
         /\ c = "setup-nss" \/ c = "teardown-nss" => Subtasks(c)[i].file = "nss"
         /\ c = "setup-run-resolv" \/ c = "teardown-run-resolv" => Subtasks(c)[i].file = "run"
<1>1. CASE c = "setup"
  BY <1>1 DEF Subtasks, SetupAll, Subtask
<1>2. CASE c = "teardown"
  BY <1>2 DEF Subtasks, TeardownAll, Subtask
<1>3. CASE c \notin {"setup", "teardown"}
  BY <1>3 DEF Commands, Subtasks, Subtask
<1> QED BY <1>1, <1>2, <1>3

LEMMA FirstStepOK ==
  ASSUME NEW s \in [act : Acts, file : Files]
  PROVE  /\ FirstStep(s) \in StepsOf(s)
         /\ FirstStep(s) \in {"saveFile", "removeConf", "discard"}
         /\ FirstStep(s) = "discard" => s.file = "run"
BY DEF FirstStep, StepsOf, Acts, Files, Confs

(* The steps that belong to the two configurations only, and to whom the   *)
(* others belong.                                                          *)
LEMMA CurrentStep ==
  ASSUME TypeOKSetup, command # "none"
  PROVE  /\ command \in Commands /\ task \in DOMAIN Subtasks(command)
         /\ task \in {1, 2, 3} /\ Current \in [act : Acts, file : Files]
         /\ File \in Files /\ Current.file = File
         /\ step \in StepsOf(Current)
         /\ step \in {"saveLink", "removeLink", "write", "removeConf", "restore"} => File \in Confs
         /\ step \in {"saveFile", "saveLink", "removeLink", "write"} <=> Current.act = "setup"
<1>1. command \in Commands /\ task \in DOMAIN Subtasks(command) /\ step \in StepsOf(Current)
  BY DEF TypeOKSetup, Current
<1>2. Current \in [act : Acts, file : Files] /\ task \in {1, 2, 3} /\ Current.file = File
  BY <1>1, SubtaskLists DEF Current, File
<1> QED BY <1>1, <1>2 DEF StepsOf, Acts, Files, Confs

(* Where the script is after the last step of a subtask.                   *)
LEMMA AfterSubtask ==
  ASSUME TypeOKSetup, command # "none", NextSubtask
  PROVE  \/ command' = "none"
         \/ /\ command' = command /\ task' = task + 1
            /\ task' \in DOMAIN Subtasks(command) /\ step' = FirstStep(Subtasks(command)[task'])
            /\ Subtasks(command)[task'] \in [act : Acts, file : Files]
            /\ step' \in StepsOf(Subtasks(command)[task'])
            /\ step' \in {"saveFile", "removeConf", "discard"}
            /\ step' = "discard" => File' = "run"
<1>1. CASE task < Len(Subtasks(command))
  <2>1. command' = command /\ task' = task + 1 /\ step' = FirstStep(Subtasks(command)[task + 1])
    BY <1>1 DEF NextSubtask
  <2>2. task' \in DOMAIN Subtasks(command) /\ Subtasks(command)[task'] \in [act : Acts, file : Files]
    BY <1>1, <2>1, CurrentStep, SubtaskLists
  <2>3. File' = Subtasks(command)[task'].file
    BY <2>1 DEF File
  <2> QED BY <2>1, <2>2, <2>3, FirstStepOK
<1>2. CASE ~(task < Len(Subtasks(command)))
  BY <1>2 DEF NextSubtask, BackToPrompt
<1> QED BY <1>1, <1>2
-----------------------------------------------------------------------------
(* Type correctness, in two parts.                                         *)
FilesOK ==
    /\ conf \in [Files -> Contents] /\ origin \in [Files -> Contents]
    /\ backup \in [Files -> Contents] /\ linkBackup \in [Confs -> BOOLEAN]
    /\ removing \in BOOLEAN /\ reasons \subseteq Reasons
    /\ faults \in 0 .. MaxFaults /\ cut \subseteq Files \X {"half", "saveLink", "discard"}
ScriptOK ==
    /\ command \in Commands \cup {"none"}
    /\ command # "none" => task \in DOMAIN Subtasks(command) /\ step \in StepsOf(Subtasks(command)[task])

LEMMA Parts == TypeOKSetup <=> FilesOK /\ ScriptOK
BY DEF TypeOKSetup, FilesOK, ScriptOK

LEMMA ScriptAfterSubtask == TypeOKSetup /\ command # "none" /\ NextSubtask => ScriptOK'
BY AfterSubtask, CurrentStep DEF ScriptOK

LEMMA ScriptAfterGoto ==
  ASSUME TypeOKSetup, command # "none", NEW s, Goto(s), s \in StepsOf(Current)
  PROVE  ScriptOK'
BY CurrentStep DEF ScriptOK, Goto, Current

LEMMA ScriptAtPrompt == BackToPrompt => ScriptOK'
BY DEF BackToPrompt, ScriptOK

(* The files after a step that was not completed.                          *)
LEMMA FilesAfterFault ==
  ASSUME TypeOKSetup, Wrong, Changes, Undone \/ HalfDone
  PROVE  /\ conf' \in [Files -> Contents] /\ backup' \in [Files -> Contents]
         /\ linkBackup' \in [Confs -> BOOLEAN] /\ origin' = origin /\ removing' = removing
         /\ faults' \in 0 .. MaxFaults /\ cut' \subseteq Files \X {"half", "saveLink", "discard"}
<1>1. File \in Files
  BY CurrentStep DEF Changes
<1>2. faults' \in 0 .. MaxFaults /\ origin' = origin /\ removing' = removing
  BY FaultsAssumption DEF TypeOKSetup, Wrong
<1>3. CASE Undone
  BY <1>1, <1>2, <1>3 DEF Undone, files, TypeOKSetup
<1>4. CASE HalfDone
  BY <1>1, <1>2, <1>4 DEF HalfDone, TypeOKSetup, Contents
<1> QED BY <1>3, <1>4

LEMMA TypeStep == TypeOKSetup /\ [Next]_vars => TypeOKSetup'
<1> SUFFICES ASSUME TypeOKSetup, [Next]_vars PROVE FilesOK' /\ ScriptOK'
  BY Parts DEF TypeOKSetup, FilesOK, ScriptOK
<1> USE DEF files, history, script
<1>1. ASSUME NEW c \in Commands, Call(c) PROVE FilesOK' /\ ScriptOK'
  <2>1. 1 \in DOMAIN Subtasks(c) /\ Subtasks(c)[1] \in [act : Acts, file : Files]
    BY SubtaskLists
  <2>2. ScriptOK'
    BY <1>1, <2>1, FirstStepOK DEF Call, ScriptOK
  <2>3. reasons' \subseteq Reasons
    BY <1>1 DEF Call, TypeOKSetup, Reasons
  <2> QED BY <1>1, <2>2, <2>3 DEF Call, TypeOKSetup, FilesOK
<1>2. CASE GiveUpProxy
  BY <1>2 DEF GiveUpProxy, TypeOKSetup, FilesOK, ScriptOK
<1>3. CASE SaveFile
  <2>1. command # "none" /\ step = "saveFile" /\ File \in Files /\ Current \in [act : Acts, file : Files]
        /\ step \in StepsOf(Current) /\ Current.file = File
    BY <1>3, CurrentStep DEF SaveFile, At
  <2>2. ScriptOK'
    <3>1. CASE File = "run"
      BY <1>3, <2>1, <3>1, ScriptAfterSubtask DEF SaveFile, AfterSaveFile
    <3>2. CASE File # "run"
      <4>1. "saveLink" \in StepsOf(Current)
        BY <2>1, <3>2 DEF StepsOf
      <4> QED BY <1>3, <2>1, <3>2, <4>1, ScriptAfterGoto DEF SaveFile, AfterSaveFile
    <3> QED BY <3>1, <3>2
  <2>3. Copied(File) \in Contents
    BY <2>1 DEF Copied, TypeOKSetup, Contents
  <2>4. reasons' \subseteq Reasons
    BY <1>3 DEF SaveFile, Left, TypeOKSetup, Reasons
  <2> QED BY <1>3, <2>1, <2>2, <2>3, <2>4 DEF SaveFile, TypeOKSetup, FilesOK
<1>4. CASE NothingToSave
  <2>1. ScriptOK'
    BY <1>4, ScriptAfterSubtask DEF NothingToSave, At
  <2>2. reasons' \subseteq Reasons
    BY <1>4 DEF NothingToSave, TypeOKSetup, Reasons
  <2> QED BY <1>4, <2>1, <2>2 DEF NothingToSave, TypeOKSetup, FilesOK
<1>5. CASE SaveLink
  <2>1. command # "none" /\ step = "saveLink" /\ File \in Confs
        /\ step \in StepsOf(Current) /\ Current.file = File
    BY <1>5, CurrentStep DEF SaveLink, At
  <2>2. {"removeLink", "write"} \subseteq StepsOf(Current)
    BY <2>1 DEF StepsOf, Confs
  <2>3. ScriptOK'
    BY <1>5, <2>1, <2>2, ScriptAfterGoto DEF SaveLink
  <2> QED BY <1>5, <2>1, <2>3 DEF SaveLink, TypeOKSetup, FilesOK
<1>6. CASE RemoveLink
  <2>1. command # "none" /\ step = "removeLink" /\ File \in Confs
        /\ step \in StepsOf(Current) /\ Current.file = File
    BY <1>6, CurrentStep DEF RemoveLink, At
  <2>2. "write" \in StepsOf(Current)
    BY <2>1 DEF StepsOf, Confs
  <2>3. ScriptOK'
    BY <1>6, <2>1, <2>2, ScriptAfterGoto DEF RemoveLink
  <2> QED BY <1>6, <2>1, <2>3 DEF RemoveLink, TypeOKSetup, FilesOK, Files, Contents
<1>7. CASE Write
  <2>1. command # "none" /\ File \in Files
    BY <1>7, CurrentStep DEF Write, At
  <2>2. ScriptOK'
    BY <1>7, <2>1, ScriptAfterSubtask DEF Write
  <2> QED BY <1>7, <2>1, <2>2 DEF Write, TypeOKSetup, FilesOK, Contents
<1>8. CASE NothingToRestore
  <2>1. ScriptOK'
    BY <1>8, ScriptAfterSubtask DEF NothingToRestore, At
  <2> QED BY <1>8, <2>1 DEF NothingToRestore, TypeOKSetup, FilesOK
<1>9. CASE RemoveConf
  <2>1. command # "none" /\ step = "removeConf" /\ File \in Confs
        /\ step \in StepsOf(Current) /\ Current.file = File
    BY <1>9, CurrentStep DEF RemoveConf, At
  <2>2. "restore" \in StepsOf(Current)
    BY <2>1 DEF StepsOf, Confs
  <2>3. ScriptOK'
    BY <1>9, <2>1, <2>2, ScriptAfterGoto DEF RemoveConf
  <2> QED BY <1>9, <2>1, <2>3 DEF RemoveConf, TypeOKSetup, FilesOK, Files, Contents
<1>10. CASE Restore
  <2>1. command # "none" /\ step = "restore" /\ File \in Confs
        /\ step \in StepsOf(Current) /\ Current.file = File
    BY <1>10, CurrentStep DEF Restore, At
  <2>2. "discard" \in StepsOf(Current)
    BY <2>1 DEF StepsOf, Confs
  <2>3. ScriptOK'
    BY <1>10, <2>1, <2>2, ScriptAfterGoto DEF Restore
  <2>4. File \in Files /\ backup[File] \in Contents /\ {"link", "absent"} \subseteq Contents
    BY <2>1 DEF Files, TypeOKSetup, Contents
  <2>5. /\ conf' \in [Files -> Contents] /\ backup' \in [Files -> Contents]
        /\ linkBackup' \in [Confs -> BOOLEAN]
    <3>1. CASE linkBackup[File]
      BY <1>10, <2>4, <3>1 DEF Restore, TypeOKSetup
    <3>2. CASE ~linkBackup[File]
      BY <1>10, <2>4, <3>2 DEF Restore, TypeOKSetup
    <3> QED BY <3>1, <3>2
  <2> QED BY <1>10, <2>3, <2>5 DEF Restore, TypeOKSetup, FilesOK
<1>11. CASE Discard
  <2>1. command # "none" /\ File \in Files
    BY <1>11, CurrentStep DEF Discard, At
  <2>2. ScriptOK'
    BY <1>11, <2>1, ScriptAfterSubtask DEF Discard
  <2> QED BY <1>11, <2>1, <2>2 DEF Discard, TypeOKSetup, FilesOK, Contents
<1>12. CASE Interrupt
  <2>1. ScriptOK'
    BY <1>12, ScriptAtPrompt DEF Interrupt
  <2>2. reasons' \subseteq Reasons
    BY <1>12 DEF Interrupt, Left, TypeOKSetup, Reasons
  <2> QED BY <1>12, <2>1, <2>2, FilesAfterFault DEF Interrupt, TypeOKSetup, FilesOK
<1>13. CASE Fail
  <2>1. ScriptOK'
    BY <1>13, ScriptAfterSubtask DEF Fail, Changes
  <2>2. reasons' \subseteq Reasons
    BY <1>13 DEF Fail, Left, TypeOKSetup, Reasons
  <2> QED BY <1>13, <2>1, <2>2, FilesAfterFault DEF Fail, TypeOKSetup, FilesOK
<1>14. CASE Reboot
  <2>1. ScriptOK'
    BY <1>14 DEF Reboot, ScriptOK
  <2>2. backup' \in [Files -> Contents]
    BY <1>14 DEF Reboot, TypeOKSetup, Contents
  <2>3. faults' \in 0 .. MaxFaults
    BY <1>14, FaultsAssumption DEF Reboot, Wrong, TypeOKSetup
  <2>4. reasons' \subseteq Reasons
    BY <1>14 DEF Reboot, Reasons, TypeOKSetup
  <2> QED BY <1>14, <2>1, <2>2, <2>3, <2>4 DEF Reboot, Wrong, TypeOKSetup, FilesOK
<1>15. CASE UNCHANGED vars
  BY <1>15 DEF vars, TypeOKSetup, FilesOK, ScriptOK
<1> QED
  BY <1>1, <1>2, <1>3, <1>4, <1>5, <1>6, <1>7, <1>8, <1>9, <1>10, <1>11, <1>12, <1>13, <1>14, <1>15
  DEF Next, ScriptStep

LEMMA TypeInit == Init => TypeOKSetup
<1> SUFFICES ASSUME Init PROVE TypeOKSetup
  OBVIOUS
<1>1. conf \in [Files -> Contents]
  BY DEF Init, Contents
<1>2. reasons \subseteq Reasons /\ removing \in BOOLEAN /\ linkBackup \in [Confs -> BOOLEAN]
  BY DEF Init
<1>3. faults \in 0 .. MaxFaults /\ cut \subseteq Files \X {"half", "saveLink", "discard"}
  BY FaultsAssumption DEF Init
<1>4. backup \in [Files -> Contents] /\ origin \in [Files -> Contents]
  BY <1>1 DEF Init, Contents
<1>5. command = "none"
  BY DEF Init
<1> QED BY <1>1, <1>2, <1>3, <1>4, <1>5 DEF TypeOKSetup

(* The variables keep their types, and the script is always at a step of   *)
(* the subtask that it executes.                                           *)
THEOREM SetupTypeCorrect == Spec => []TypeOKSetup
BY TypeInit, TypeStep, PTL DEF Spec
-----------------------------------------------------------------------------
(* The inductive invariant.  Before a configuration is touched there is a  *)
(* copy of it, and while it is not the original the copy stays.            *)
CopyFirst == \A x \in Confs : conf[x] \in {"absent", "managed"} => backup[x] # "absent"
WholeUnlessCut ==
    /\ conf["run"] \in {"absent", "original"}
    /\ \A f \in Files : <<f, "half">> \notin cut => backup[f] \in {"absent", "original"} /\ conf[f] # "half"

(* What is so between the steps of a subtask.                              *)
MidwayCopies ==
    command # "none" =>
        /\ step \in {"saveLink", "removeLink", "write", "restore"} => backup[File] # "absent"
        /\ step = "restore" => conf[File] = "absent"
        /\ step = "discard" /\ File \in Confs => conf[File] \notin {"absent", "managed"}
CopyInv == CopyFirst /\ WholeUnlessCut /\ NeverSavesOwn /\ MidwayCopies

(* A copy without a link beside it exists only in the two moments in which *)
(* an interruption counts as a cut.                                        *)
Kept(x) == {<<x, "half">>, <<x, "saveLink">>, <<x, "discard">>} \cap cut = {}
LinkSaved ==
    \A x \in Confs :
        origin[x] = "link" /\ Kept(x) /\ backup[x] # "absent" /\ ~linkBackup[x]
            => command # "none" /\ File = x /\ step \in {"saveLink", "discard"}
MidwayLinks ==
    command # "none" =>
        /\ step = "removeLink" => linkBackup[File]
        /\ step = "write" => conf[File] # "link"
        /\ step = "discard" /\ File \in Confs => ~linkBackup[File]
LinkInv == LinkKept /\ LinkSaved /\ MidwayLinks

(* The snapshot is there from before the proxy is entered in RESOLV_CONF   *)
(* until after it has been removed.                                        *)
SnapshotInv ==
    /\ reasons = {} /\ conf["resolv"] = "managed" => backup["run"] # "absent"
    /\ reasons = {} /\ command = "setup" /\ task # 1 => backup["run"] # "absent"
    /\ reasons = {} /\ command = "teardown" /\ task = 3 => conf["resolv"] # "managed"
    /\ command \in {"setup-resolv", "teardown-run-resolv"} => reasons # {}

(* A snapshot is the list itself or what a copy cut short has left of it,  *)
(* and of the latter it is known that it is one.                           *)
SnapshotKinds == backup["run"] \in {"absent", "original", "half"}
HalfKnown == backup["run"] = "half" => "half" \in reasons
-----------------------------------------------------------------------------
(* After the last step of a subtask nothing is midway.                     *)
LEMMA NothingMidway ==
  ASSUME TypeOKSetup, command # "none", NextSubtask
  PROVE  MidwayCopies' /\ MidwayLinks'
<1>1. command' # "none" => step' \in {"saveFile", "removeConf"} \/ (step' = "discard" /\ File' \notin Confs)
  BY AfterSubtask DEF Confs
<1> QED BY <1>1 DEF MidwayCopies, MidwayLinks

LEMMA PromptNotMidway == command' = "none" => MidwayCopies' /\ MidwayLinks'
BY DEF MidwayCopies, MidwayLinks

LEMMA GotoKeepsFile == ASSUME NEW s, Goto(s) PROVE File' = File /\ command' = command /\ task' = task /\ step' = s
BY DEF Goto, File

(* Nothing is midway when a command begins.                                *)
LEMMA CallNotMidway ==
  ASSUME NEW c \in Commands, Call(c)
  PROVE  MidwayCopies' /\ MidwayLinks'
<1>1. /\ Subtasks(c)[1] \in [act : Acts, file : Files]
      /\ step' = FirstStep(Subtasks(c)[1]) /\ File' = Subtasks(c)[1].file
  BY SubtaskLists DEF Call, File
<1> QED BY <1>1, FirstStepOK DEF MidwayCopies, MidwayLinks, Confs

(* Of a step that is not completed: a copy may appear that is cut, and a   *)
(* file may be written whose copy exists.                                  *)
LEMMA FaultKeepsCopies ==
  ASSUME TypeOKSetup, CopyInv, Changes, Undone \/ HalfDone
  PROVE  CopyFirst' /\ WholeUnlessCut' /\ NeverSavesOwn'
<1>1. command # "none" /\ File \in Files /\ (step = "write" => File \in Confs /\ backup[File] # "absent")
  BY CurrentStep DEF Changes, CopyInv, MidwayCopies
<1>2. CASE Undone
  BY <1>2 DEF Undone, files, CopyInv, CopyFirst, WholeUnlessCut, NeverSavesOwn
<1>3. CASE HalfDone /\ step = "saveFile"
  <2>1. /\ backup' = [backup EXCEPT ![File] = "half"] /\ conf' = conf
        /\ cut' = cut \cup {<<File, "half">>}
    BY <1>3 DEF HalfDone
  <2> QED BY <1>1, <2>1 DEF TypeOKSetup, CopyInv, CopyFirst, WholeUnlessCut, NeverSavesOwn, Files
<1>4. CASE HalfDone /\ step = "write"
  <2>1. conf' = [conf EXCEPT ![File] = "managed"] /\ backup' = backup /\ cut' = cut
    BY <1>4 DEF HalfDone
  <2> QED BY <1>1, <1>4, <2>1 DEF TypeOKSetup, CopyInv, CopyFirst, WholeUnlessCut, NeverSavesOwn, Files, Confs
<1> QED BY <1>2, <1>3, <1>4 DEF HalfDone

LEMMA CopyStep == TypeOKSetup /\ CopyInv /\ [Next]_vars => CopyInv'
<1> SUFFICES ASSUME TypeOKSetup, CopyInv, [Next]_vars PROVE CopyInv'
  OBVIOUS
<1> DEFINE Copies == CopyFirst /\ WholeUnlessCut /\ NeverSavesOwn
<1>0. Copies' /\ MidwayCopies' => CopyInv'
  BY DEF CopyInv
<1> USE DEF files, history, script
<1>1. ASSUME NEW c \in Commands, Call(c) PROVE CopyInv'
  BY <1>0, <1>1, CallNotMidway DEF Call, CopyInv, CopyFirst, WholeUnlessCut, NeverSavesOwn
<1>2. CASE GiveUpProxy
  BY <1>2 DEF GiveUpProxy, CopyInv, CopyFirst, WholeUnlessCut, NeverSavesOwn, MidwayCopies, File
<1>3. CASE SaveFile
  <2>1. command # "none" /\ step = "saveFile" /\ File \in Files
    BY <1>3, CurrentStep DEF SaveFile, At
  <2>2. conf' = conf /\ cut' = cut
    BY <1>3 DEF SaveFile
  <2>3. /\ \/ backup' = backup
           \/ backup[File] = "absent" /\ conf[File] # "absent" /\ backup' = [backup EXCEPT ![File] = Copied(File)]
        /\ backup'[File] # "absent"
    BY <1>3, <2>1 DEF SaveFile, Copied, TypeOKSetup
  <2>4. backup[File] = "absent" /\ conf[File] # "absent" =>
          /\ Copied(File) \in {"original", "half"} /\ (Copied(File) = "half" => conf[File] = "half")
    BY <2>1 DEF Copied, CopyInv, CopyFirst, WholeUnlessCut, TypeOKSetup, Contents, Files, Confs
  <2>5. Copies'
    BY <2>1, <2>2, <2>3, <2>4 DEF CopyInv, CopyFirst, WholeUnlessCut, NeverSavesOwn, TypeOKSetup, Files
  <2>6. MidwayCopies'
    <3>1. CASE File = "run"
      BY <1>3, <2>1, <3>1, NothingMidway DEF SaveFile, AfterSaveFile
    <3>2. CASE File # "run"
      <4>1. File' = File /\ step' = "saveLink"
        BY <1>3, <3>2, GotoKeepsFile DEF SaveFile, AfterSaveFile
      <4> QED BY <2>3, <4>1 DEF MidwayCopies
    <3> QED BY <3>1, <3>2
  <2> QED BY <1>0, <2>5, <2>6
<1>4. CASE NothingToSave
  BY <1>0, <1>4, NothingMidway DEF NothingToSave, At, CopyInv, CopyFirst, WholeUnlessCut, NeverSavesOwn
<1>5. CASE SaveLink
  <2>1. command # "none" /\ step = "saveLink" /\ File' = File /\ step' \in {"removeLink", "write"}
    BY <1>5, GotoKeepsFile DEF SaveLink, At
  <2>2. MidwayCopies'
    BY <1>5, <2>1 DEF SaveLink, CopyInv, MidwayCopies
  <2> QED BY <1>0, <1>5, <2>2 DEF SaveLink, CopyInv, CopyFirst, WholeUnlessCut, NeverSavesOwn
<1>6. CASE RemoveLink
  <2>1. command # "none" /\ File \in Confs /\ File' = File /\ step' = "write" /\ backup[File] # "absent"
    BY <1>6, CurrentStep, GotoKeepsFile DEF RemoveLink, At, CopyInv, MidwayCopies
  <2>2. conf' = [conf EXCEPT ![File] = "absent"] /\ backup' = backup /\ cut' = cut
    BY <1>6 DEF RemoveLink
  <2>3. Copies'
    BY <2>1, <2>2 DEF CopyInv, CopyFirst, WholeUnlessCut, NeverSavesOwn, TypeOKSetup, Files, Confs
  <2>4. MidwayCopies'
    BY <2>1, <2>2 DEF MidwayCopies
  <2> QED BY <1>0, <2>3, <2>4
<1>7. CASE Write
  <2>1. command # "none" /\ File \in Confs /\ backup[File] # "absent"
    BY <1>7, CurrentStep DEF Write, At, CopyInv, MidwayCopies
  <2>2. conf' = [conf EXCEPT ![File] = "managed"] /\ backup' = backup /\ cut' = cut
    BY <1>7 DEF Write
  <2>3. Copies'
    BY <2>1, <2>2 DEF CopyInv, CopyFirst, WholeUnlessCut, NeverSavesOwn, TypeOKSetup, Files, Confs
  <2> QED BY <1>0, <1>7, <2>1, <2>3, NothingMidway DEF Write
<1>8. CASE NothingToRestore
  BY <1>0, <1>8, NothingMidway DEF NothingToRestore, At, CopyInv, CopyFirst, WholeUnlessCut, NeverSavesOwn
<1>9. CASE RemoveConf
  <2>1. command # "none" /\ File \in Confs /\ File' = File /\ step' = "restore" /\ backup[File] # "absent"
    BY <1>9, CurrentStep, GotoKeepsFile DEF RemoveConf, At
  <2>2. conf' = [conf EXCEPT ![File] = "absent"] /\ backup' = backup /\ cut' = cut
    BY <1>9 DEF RemoveConf
  <2>3. Copies'
    BY <2>1, <2>2 DEF CopyInv, CopyFirst, WholeUnlessCut, NeverSavesOwn, TypeOKSetup, Files, Confs
  <2>4. MidwayCopies'
    BY <2>1, <2>2 DEF MidwayCopies, TypeOKSetup, Files
  <2> QED BY <1>0, <2>3, <2>4
<1>10. CASE Restore
  <2>1. command # "none" /\ File \in Confs /\ File' = File /\ step' = "discard" /\ backup[File] # "absent"
    BY <1>10, CurrentStep, GotoKeepsFile DEF Restore, At, CopyInv, MidwayCopies
  <2>2. cut' = cut /\ backup[File] \in Contents
    BY <1>10, <2>1 DEF Restore, TypeOKSetup, Files
  <2>3. CASE linkBackup[File]
    <3>1. conf' = [conf EXCEPT ![File] = "link"] /\ backup' = backup
      BY <1>10, <2>3 DEF Restore
    <3>2. Copies'
      BY <2>1, <2>2, <3>1 DEF CopyInv, CopyFirst, WholeUnlessCut, NeverSavesOwn, TypeOKSetup, Files, Confs
    <3>3. MidwayCopies'
      BY <2>1, <3>1 DEF MidwayCopies, TypeOKSetup, Files
    <3> QED BY <1>0, <3>2, <3>3
  <2>4. CASE ~linkBackup[File]
    <3>1. conf' = [conf EXCEPT ![File] = backup[File]] /\ backup' = [backup EXCEPT ![File] = "absent"]
      BY <1>10, <2>4 DEF Restore
    <3>2. backup[File] # "managed"
      BY <2>1 DEF CopyInv, NeverSavesOwn, Files
    <3>3. Copies'
      BY <2>1, <2>2, <3>1, <3>2 DEF CopyInv, CopyFirst, WholeUnlessCut, NeverSavesOwn, TypeOKSetup, Files, Confs
    <3>4. MidwayCopies'
      BY <2>1, <3>1, <3>2 DEF MidwayCopies, TypeOKSetup, Files
    <3> QED BY <1>0, <3>3, <3>4
  <2> QED BY <2>3, <2>4
<1>11. CASE Discard
  <2>1. command # "none" /\ File \in Files /\ (File \in Confs => conf[File] \notin {"absent", "managed"})
    BY <1>11, CurrentStep DEF Discard, At, CopyInv, MidwayCopies
  <2>2. conf' = conf /\ cut' = cut /\ backup' = [backup EXCEPT ![File] = "absent"]
    BY <1>11 DEF Discard
  <2>3. Copies'
    BY <2>1, <2>2 DEF CopyInv, CopyFirst, WholeUnlessCut, NeverSavesOwn, TypeOKSetup, Files
  <2> QED BY <1>0, <1>11, <2>1, <2>3, NothingMidway DEF Discard
<1>12. CASE Interrupt
  <2>1. command' = "none"
    BY <1>12 DEF Interrupt, BackToPrompt
  <2> QED BY <1>0, <1>12, <2>1, FaultKeepsCopies, PromptNotMidway DEF Interrupt
<1>13. CASE Fail
  BY <1>0, <1>13, FaultKeepsCopies, NothingMidway DEF Fail, Changes
<1>14. CASE Reboot
  <2>1. conf' = conf /\ cut' = cut /\ backup' = [backup EXCEPT !["run"] = "absent"] /\ command' = "none"
    BY <1>14 DEF Reboot
  <2>2. Copies'
    BY <2>1 DEF CopyInv, CopyFirst, WholeUnlessCut, NeverSavesOwn, TypeOKSetup, Files, Confs
  <2> QED BY <1>0, <2>1, <2>2, PromptNotMidway
<1>15. CASE UNCHANGED vars
  BY <1>15 DEF vars, CopyInv, CopyFirst, WholeUnlessCut, NeverSavesOwn, MidwayCopies, File
<1> QED
  BY <1>1, <1>2, <1>3, <1>4, <1>5, <1>6, <1>7, <1>8, <1>9, <1>10, <1>11, <1>12, <1>13, <1>14, <1>15
  DEF Next, ScriptStep

LEMMA CopyInit == Init => CopyInv
BY DEF Init, CopyInv, CopyFirst, WholeUnlessCut, NeverSavesOwn, MidwayCopies, Files, Confs

LEMMA CopyInvHolds == Spec => [](TypeOKSetup /\ CopyInv)
BY TypeInit, TypeStep, CopyInit, CopyStep, PTL DEF Spec

(* However often and in whatever order the scripts run and are cut short,  *)
(* what they write themselves never passes for the original.               *)
THEOREM NeverSavesOwnHolds == Spec => []NeverSavesOwn
BY CopyInvHolds, PTL DEF CopyInv

(* The original contents are in place or in the copy, unless the copy was  *)
(* left unfinished.                                                        *)
THEOREM ContentHolds == Spec => []ContentKept
<1>1. TypeOKSetup /\ CopyInv => ContentKept
  BY DEF TypeOKSetup, CopyInv, CopyFirst, WholeUnlessCut, ContentKept, Contents, Files
<1> QED BY <1>1, CopyInvHolds, PTL
-----------------------------------------------------------------------------
(* A step that is not completed leaves links and their copies alone, or is *)
(* a cut.                                                                  *)
LEMMA FaultKeepsLinks ==
  ASSUME TypeOKSetup, CopyInv, LinkInv, Wrong, Changes, Undone \/ HalfDone,
         MidwayLinks', command' # "none" => step' \notin {"saveLink"}
  PROVE  LinkInv'
<1>1. /\ command # "none" /\ File \in Files /\ origin' = origin
      /\ step = "write" => File \in Confs /\ conf[File] # "link"
      /\ step = "saveFile" => backup[File] = "absent"
  BY CurrentStep DEF Changes, LinkInv, MidwayLinks, Wrong
<1>2. CASE Undone
  <2>1. /\ conf' = conf /\ backup' = backup /\ linkBackup' = linkBackup
        /\ cut' = IF step \in {"saveLink", "discard"} THEN cut \cup {<<File, step>>} ELSE cut
    BY <1>2 DEF Undone, files
  <2>2. \A x \in Confs : Kept(x)' => Kept(x) /\ ~(File = x /\ step \in {"saveLink", "discard"})
    BY <2>1 DEF Kept
  <2> QED BY <1>1, <2>1, <2>2 DEF LinkInv, LinkKept, LinkSaved, Kept
<1>3. CASE HalfDone /\ step = "saveFile"
  <2>1. /\ conf' = conf /\ linkBackup' = linkBackup /\ cut' = cut \cup {<<File, "half">>}
        /\ backup' = [backup EXCEPT ![File] = "half"]
    BY <1>3 DEF HalfDone
  <2>2. \A x \in Confs : Kept(x)' => Kept(x) /\ File # x
    BY <2>1 DEF Kept
  <2>3. \A x \in Confs : x # File => backup'[x] = backup[x]
    BY <2>1 DEF TypeOKSetup, Files
  <2> QED BY <1>1, <1>3, <2>1, <2>2, <2>3 DEF LinkInv, LinkKept, LinkSaved, Kept
<1>4. CASE HalfDone /\ step = "write"
  <2>1. /\ conf' = [conf EXCEPT ![File] = "managed"] /\ linkBackup' = linkBackup
        /\ backup' = backup /\ cut' = cut
    BY <1>4 DEF HalfDone
  <2>2. \A x \in Confs : conf[x] = "link" => conf'[x] = "link"
    BY <1>1, <1>4, <2>1 DEF TypeOKSetup, Files
  <2> QED BY <1>1, <1>4, <2>1, <2>2 DEF LinkInv, LinkKept, LinkSaved, Kept
<1> QED BY <1>2, <1>3, <1>4 DEF HalfDone

LEMMA LinkStep == TypeOKSetup /\ CopyInv /\ LinkInv /\ [Next]_vars => LinkInv'
<1> SUFFICES ASSUME TypeOKSetup, CopyInv, LinkInv, [Next]_vars PROVE LinkInv'
  OBVIOUS
<1> USE DEF files, history, script
<1>1. ASSUME NEW c \in Commands, Call(c) PROVE LinkInv'
  BY <1>1, CallNotMidway DEF Call, LinkInv, LinkKept, LinkSaved, Kept
<1>2. CASE GiveUpProxy
  BY <1>2 DEF GiveUpProxy, LinkInv, LinkKept, LinkSaved, MidwayLinks, Kept, File
<1>3. CASE SaveFile
  <2>1. command # "none" /\ step = "saveFile" /\ File \in Files
    BY <1>3, CurrentStep DEF SaveFile, At
  <2>2. /\ conf' = conf /\ cut' = cut /\ linkBackup' = linkBackup /\ origin' = origin
        /\ \A f \in Files \ {File} : backup'[f] = backup[f]
    BY <1>3 DEF SaveFile, TypeOKSetup
  <2>3. CASE File = "run"
    BY <1>3, <2>1, <2>2, <2>3, NothingMidway
    DEF SaveFile, AfterSaveFile, LinkInv, LinkKept, LinkSaved, Kept, Files, Confs
  <2>4. CASE File # "run"
    <3>1. File' = File /\ step' = "saveLink" /\ command' = command
      BY <1>3, <2>4, GotoKeepsFile DEF SaveFile, AfterSaveFile
    <3> QED BY <2>1, <2>2, <3>1 DEF LinkInv, LinkKept, LinkSaved, MidwayLinks, Kept, Files
  <2> QED BY <2>3, <2>4
<1>4. CASE NothingToSave
  BY <1>4, NothingMidway DEF NothingToSave, At, LinkInv, LinkKept, LinkSaved, Kept
<1>5. CASE SaveLink
  <2>1. command # "none" /\ step = "saveLink" /\ File \in Confs /\ File' = File /\ command' = command
    BY <1>5, CurrentStep, GotoKeepsFile DEF SaveLink, At
  <2>2. conf' = conf /\ cut' = cut /\ backup' = backup /\ origin' = origin
    BY <1>5 DEF SaveLink
  <2>3. CASE conf[File] = "link"
    <3>1. linkBackup' = [linkBackup EXCEPT ![File] = TRUE] /\ step' = "removeLink"
      BY <1>5, <2>3, GotoKeepsFile DEF SaveLink
    <3>2. linkBackup'[File] /\ \A x \in Confs : linkBackup[x] => linkBackup'[x]
      BY <2>1, <3>1 DEF TypeOKSetup
    <3>3. MidwayLinks'
      BY <2>1, <3>1, <3>2 DEF MidwayLinks
    <3> QED BY <2>1, <2>2, <3>2, <3>3 DEF LinkInv, LinkKept, LinkSaved, Kept
  <2>4. CASE conf[File] # "link"
    <3>1. linkBackup' = linkBackup /\ step' = "write"
      BY <1>5, <2>4, GotoKeepsFile DEF SaveLink
    <3> QED BY <2>1, <2>2, <2>4, <3>1 DEF LinkInv, LinkKept, LinkSaved, MidwayLinks, Kept
  <2> QED BY <2>3, <2>4
<1>6. CASE RemoveLink
  <2>1. /\ command # "none" /\ File \in Confs /\ File' = File /\ step = "removeLink" /\ step' = "write"
        /\ linkBackup[File]
    BY <1>6, CurrentStep, GotoKeepsFile DEF RemoveLink, At, LinkInv, MidwayLinks
  <2>2. /\ conf' = [conf EXCEPT ![File] = "absent"] /\ backup' = backup /\ cut' = cut
        /\ linkBackup' = linkBackup /\ origin' = origin
    BY <1>6 DEF RemoveLink
  <2>3. conf'[File] = "absent" /\ \A f \in Confs \ {File} : conf'[f] = conf[f]
    BY <2>1, <2>2 DEF TypeOKSetup, Files
  <2> QED BY <2>1, <2>2, <2>3 DEF LinkInv, LinkKept, LinkSaved, MidwayLinks, Kept
<1>7. CASE Write
  <2>1. command # "none" /\ File \in Confs /\ step = "write" /\ conf[File] # "link"
    BY <1>7, CurrentStep DEF Write, At, LinkInv, MidwayLinks
  <2>2. /\ conf' = [conf EXCEPT ![File] = "managed"] /\ backup' = backup /\ cut' = cut
        /\ linkBackup' = linkBackup /\ origin' = origin
    BY <1>7 DEF Write
  <2>3. \A f \in Confs : conf[f] = "link" => conf'[f] = "link"
    BY <2>1, <2>2 DEF TypeOKSetup, Files
  <2> QED BY <1>7, <2>1, <2>2, <2>3, NothingMidway DEF Write, LinkInv, LinkKept, LinkSaved, Kept
<1>8. CASE NothingToRestore
  <2>1. command # "none" /\ step \notin {"saveLink"} /\ backup[File] = "absent" /\ NextSubtask
    BY <1>8 DEF NothingToRestore, At
  <2> QED BY <1>8, <2>1, NothingMidway DEF NothingToRestore, LinkInv, LinkKept, LinkSaved, Kept
<1>9. CASE RemoveConf
  <2>1. /\ command # "none" /\ File \in Confs /\ step = "removeConf" /\ backup[File] # "absent"
        /\ step' = "restore"
    BY <1>9, CurrentStep, GotoKeepsFile DEF RemoveConf, At
  <2>2. /\ conf' = [conf EXCEPT ![File] = "absent"] /\ backup' = backup /\ cut' = cut
        /\ linkBackup' = linkBackup /\ origin' = origin
    BY <1>9 DEF RemoveConf
  <2>3. \A f \in Confs \ {File} : conf'[f] = conf[f]
    BY <2>2 DEF TypeOKSetup, Files
  <2> QED BY <2>1, <2>2, <2>3 DEF LinkInv, LinkKept, LinkSaved, MidwayLinks, Kept
<1>10. CASE Restore
  <2>1. /\ command # "none" /\ File \in Confs /\ step = "restore" /\ backup[File] # "absent"
        /\ File' = File /\ step' = "discard" /\ command' = command
    BY <1>10, CurrentStep, GotoKeepsFile DEF Restore, At, CopyInv, MidwayCopies
  <2>2. cut' = cut /\ origin' = origin
    BY <1>10 DEF Restore
  <2>3. CASE linkBackup[File]
    <3>1. /\ conf' = [conf EXCEPT ![File] = "link"] /\ backup' = backup
          /\ linkBackup' = [linkBackup EXCEPT ![File] = FALSE]
      BY <1>10, <2>3 DEF Restore
    <3>2. /\ conf'[File] = "link" /\ ~linkBackup'[File]
          /\ \A x \in Confs \ {File} : conf'[x] = conf[x] /\ linkBackup'[x] = linkBackup[x]
      BY <2>1, <3>1 DEF TypeOKSetup, Files
    <3>3. MidwayLinks'
      BY <2>1, <3>2 DEF MidwayLinks
    <3> QED BY <2>1, <2>2, <3>1, <3>2, <3>3 DEF LinkInv, LinkKept, LinkSaved, Kept
  <2>4. CASE ~linkBackup[File]
    <3>1. /\ conf' = [conf EXCEPT ![File] = backup[File]] /\ linkBackup' = linkBackup
          /\ backup' = [backup EXCEPT ![File] = "absent"]
      BY <1>10, <2>4 DEF Restore
    <3>2. /\ backup'[File] = "absent"
          /\ \A x \in Confs \ {File} : conf'[x] = conf[x] /\ backup'[x] = backup[x]
      BY <2>1, <3>1 DEF TypeOKSetup, Files
    <3>3. ~(origin[File] = "link" /\ Kept(File))
      BY <2>1, <2>4 DEF LinkInv, LinkSaved
    <3>4. MidwayLinks'
      BY <2>1, <2>4, <3>1 DEF MidwayLinks
    <3> QED BY <2>1, <2>2, <3>1, <3>2, <3>3, <3>4 DEF LinkInv, LinkKept, LinkSaved, Kept
  <2> QED BY <2>3, <2>4
<1>11. CASE Discard
  <2>1. /\ command # "none" /\ File \in Files /\ step = "discard"
        /\ File \in Confs => ~linkBackup[File]
    BY <1>11, CurrentStep DEF Discard, At, LinkInv, MidwayLinks
  <2>2. /\ conf' = conf /\ cut' = cut /\ backup' = [backup EXCEPT ![File] = "absent"] /\ origin' = origin
        /\ linkBackup' = [x \in Confs |-> x # File /\ linkBackup[x]]
    BY <1>11 DEF Discard
  <2>3. \A x \in Confs : linkBackup'[x] <=> linkBackup[x]
    BY <2>1, <2>2
  <2>4. backup'[File] = "absent" /\ \A x \in Confs : x # File => backup'[x] = backup[x]
    BY <2>1, <2>2 DEF TypeOKSetup, Files
  <2> QED BY <1>11, <2>1, <2>2, <2>3, <2>4, NothingMidway DEF Discard, LinkInv, LinkKept, LinkSaved, Kept
<1>12. CASE Interrupt
  <2>1. command' = "none"
    BY <1>12 DEF Interrupt, BackToPrompt
  <2> QED BY <1>12, <2>1, FaultKeepsLinks, PromptNotMidway DEF Interrupt
<1>13. CASE Fail
  <2>1. MidwayLinks' /\ (command' # "none" => step' \notin {"saveLink"})
    BY <1>13, AfterSubtask, NothingMidway DEF Fail, Changes
  <2> QED BY <1>13, <2>1, FaultKeepsLinks DEF Fail
<1>14. CASE Reboot
  <2>1. /\ conf' = conf /\ cut' = cut /\ command = "none" /\ command' = "none"
        /\ linkBackup' = linkBackup /\ origin' = origin
        /\ \A x \in Confs : backup'[x] = backup[x]
    BY <1>14 DEF Reboot, Wrong, TypeOKSetup, Files, Confs
  <2> QED BY <2>1, PromptNotMidway DEF LinkInv, LinkKept, LinkSaved, Kept
<1>15. CASE UNCHANGED vars
  BY <1>15 DEF vars, LinkInv, LinkKept, LinkSaved, MidwayLinks, Kept, File
<1> QED
  BY <1>1, <1>2, <1>3, <1>4, <1>5, <1>6, <1>7, <1>8, <1>9, <1>10, <1>11, <1>12, <1>13, <1>14, <1>15
  DEF Next, ScriptStep

LEMMA LinkInit == Init => LinkInv
BY DEF Init, LinkInv, LinkKept, LinkSaved, MidwayLinks, Files, Confs

(* Outside the three moments that count as cuts, a configuration that was  *)
(* a link is one or can become one again.                                  *)
THEOREM LinkHolds == Spec => []LinkKept
<1>1. LinkInv => LinkKept
  BY DEF LinkInv
<1> QED BY <1>1, TypeInit, TypeStep, CopyInit, CopyStep, LinkInit, LinkStep, PTL DEF Spec
-----------------------------------------------------------------------------
(* The script does not come back to "setup" from a later subtask, and to   *)
(* the third subtask of "teardown" it comes from the second.               *)
LEMMA SnapshotAfterSubtask ==
  ASSUME TypeOKSetup, command # "none", NextSubtask
  PROVE  \/ command' = "none"
         \/ command' = command /\ (command = "setup" /\ task # 1 => task' # 1)
              /\ (command = "teardown" /\ task' = 3 => task = 2 /\ File = "resolv")
<1>1. task \in DOMAIN Subtasks(command) /\ command \in Commands /\ task \in {1, 2, 3} /\ Current.file = File
  BY CurrentStep
<1>2. command = "teardown" => (task = 2 <=> File = "resolv")
  BY <1>1, WhereIs DEF Current
<1> QED BY <1>1, <1>2, AfterSubtask

LEMMA SnapshotStep == TypeOKSetup /\ CopyInv /\ SnapshotInv /\ [Next]_vars => SnapshotInv'
<1> SUFFICES ASSUME TypeOKSetup, CopyInv, SnapshotInv, [Next]_vars PROVE SnapshotInv'
  OBVIOUS
<1> USE DEF files, history, script
<1>1. ASSUME NEW c \in Commands, Call(c) PROVE SnapshotInv'
  <2>1. conf' = conf /\ backup' = backup /\ command' = c /\ task' = 1
    BY <1>1 DEF Call
  <2>2. (reasons' = {} => reasons = {}) /\ (c \in {"setup-resolv", "teardown-run-resolv"} => reasons' # {})
    BY <1>1 DEF Call
  <2> QED BY <2>1, <2>2 DEF SnapshotInv
<1>2. CASE GiveUpProxy
  BY <1>2 DEF GiveUpProxy, SnapshotInv
<1>3. CASE SaveFile
  <2>1. /\ command # "none" /\ step = "saveFile" /\ File \in Files /\ Current.act = "setup"
        /\ command \in Commands /\ task \in DOMAIN Subtasks(command) /\ Current.file = File /\ task \in {1, 2, 3}
    BY <1>3, CurrentStep DEF SaveFile, At
  <2>2. /\ conf' = conf /\ backup'[File] # "absent" /\ (File # "run" => reasons' = reasons)
        /\ \A f \in Files \ {File} : backup'[f] = backup[f]
    BY <1>3, <2>1 DEF SaveFile, Copied, TypeOKSetup
  <2>3. CASE File = "run"
    <3>1. command \in {"setup", "setup-run-resolv"}
      BY <2>1, <2>3, WhereIs DEF Current, Commands
    <3>2. command' = "none" \/ command' = command
      BY <1>3, <2>1, <2>3, SnapshotAfterSubtask DEF SaveFile, AfterSaveFile
    <3> QED BY <2>2, <2>3, <3>1, <3>2 DEF SnapshotInv
  <2>4. CASE File # "run"
    <3>1. command' = command /\ task' = task
      BY <1>3, <2>4, GotoKeepsFile DEF SaveFile, AfterSaveFile
    <3> QED BY <2>1, <2>2, <2>4, <3>1 DEF SnapshotInv, Files
  <2> QED BY <2>3, <2>4
<1>4. CASE NothingToSave
  <2>1. /\ command # "none" /\ File \in Files /\ command \in Commands /\ task \in DOMAIN Subtasks(command)
        /\ Current.file = File /\ Current.act = "setup" /\ backup' = backup /\ conf' = conf
        /\ reasons' = (IF File = "run" THEN reasons \cup {"failed"} ELSE reasons) /\ NextSubtask
    BY <1>4, CurrentStep DEF NothingToSave, At
  <2>2. /\ command = "setup" /\ task = 1 => reasons' # {}
        /\ reasons' = {} => reasons = {}
    BY <2>1, WhereIs DEF Current
  <2>3. command # "teardown"
    BY <2>1, WhereIs DEF Current
  <2> QED BY <2>1, <2>2, <2>3, SnapshotAfterSubtask DEF SnapshotInv
<1>5. CASE SaveLink
  BY <1>5, GotoKeepsFile DEF SaveLink, SnapshotInv
<1>6. CASE RemoveLink
  <2>1. /\ File \in Confs /\ conf' = [conf EXCEPT ![File] = "absent"]
        /\ backup' = backup /\ reasons' = reasons /\ command' = command /\ task' = task
    BY <1>6, CurrentStep, GotoKeepsFile DEF RemoveLink, At
  <2>2. conf'["resolv"] = "managed" => conf["resolv"] = "managed"
    BY <2>1 DEF TypeOKSetup, Files, Confs
  <2> QED BY <2>1, <2>2 DEF SnapshotInv
<1>7. CASE Write
  <2>1. /\ command # "none" /\ File \in Confs /\ command \in Commands /\ task \in DOMAIN Subtasks(command)
        /\ Current.file = File /\ Current.act = "setup" /\ NextSubtask
        /\ conf' = [conf EXCEPT ![File] = "managed"] /\ backup' = backup /\ reasons' = reasons
    BY <1>7, CurrentStep DEF Write, At
  <2>2. command # "teardown" /\ (command = "setup" => task # 1)
    BY <2>1, WhereIs DEF Current, Confs
  <2>3. File = "resolv" => command \in {"setup", "setup-resolv"}
    BY <2>1, WhereIs DEF Current, Commands
  <2>4. File # "resolv" => conf'["resolv"] = conf["resolv"]
    BY <2>1 DEF TypeOKSetup, Files, Confs
  <2> QED BY <2>1, <2>2, <2>3, <2>4, SnapshotAfterSubtask DEF SnapshotInv
<1>8. CASE NothingToRestore
  <2>1. /\ command # "none" /\ command \in Commands /\ task \in DOMAIN Subtasks(command)
        /\ Current.file = File /\ Current.act # "setup" /\ NextSubtask
        /\ conf' = conf /\ backup' = backup /\ reasons' = reasons /\ backup[File] = "absent"
    BY <1>8, CurrentStep DEF NothingToRestore, At
  <2>2. command # "setup" /\ (File = "resolv" => conf["resolv"] # "managed")
    BY <2>1, WhereIs DEF Current, CopyInv, CopyFirst, Confs
  <2> QED BY <2>1, <2>2, SnapshotAfterSubtask DEF SnapshotInv
<1>9. CASE RemoveConf
  <2>1. /\ conf' = [conf EXCEPT ![File] = "absent"]
        /\ backup' = backup /\ reasons' = reasons /\ command' = command /\ task' = task
    BY <1>9, GotoKeepsFile DEF RemoveConf
  <2>2. conf'["resolv"] = "managed" => conf["resolv"] = "managed"
    BY <2>1 DEF TypeOKSetup, Files, Confs
  <2> QED BY <2>1, <2>2 DEF SnapshotInv
<1>10. CASE Restore
  <2>1. /\ command # "none" /\ File \in Confs /\ command' = command /\ task' = task /\ reasons' = reasons
    BY <1>10, CurrentStep, GotoKeepsFile DEF Restore, At
  <2>2. conf' = [conf EXCEPT ![File] = "link"] \/ conf' = [conf EXCEPT ![File] = backup[File]]
    BY <1>10 DEF Restore
  <2>3. conf'["resolv"] = "managed" => conf["resolv"] = "managed"
    BY <2>1, <2>2 DEF TypeOKSetup, CopyInv, NeverSavesOwn, Files, Confs
  <2>4. backup'["run"] = backup["run"]
    BY <1>10, <2>1 DEF Restore, TypeOKSetup, Files, Confs
  <2> QED BY <2>1, <2>3, <2>4 DEF SnapshotInv
<1>11. CASE Discard
  <2>1. /\ command # "none" /\ command \in Commands /\ task \in DOMAIN Subtasks(command) /\ File \in Files
        /\ step = "discard" /\ Current.file = File /\ Current.act # "setup" /\ NextSubtask
        /\ conf' = conf /\ backup' = [backup EXCEPT ![File] = "absent"] /\ reasons' = reasons
    BY <1>11, CurrentStep DEF Discard, At
  <2>2. command # "setup" /\ (File = "resolv" => conf["resolv"] # "managed")
    BY <2>1, WhereIs DEF Current, CopyInv, MidwayCopies, Confs
  <2>3. File = "run" => command = "teardown-run-resolv" \/ (command = "teardown" /\ task = 3)
    BY <2>1, WhereIs DEF Current, Commands
  <2>4. File # "run" => backup'["run"] = backup["run"]
    BY <2>1 DEF TypeOKSetup, Files
  <2> QED BY <2>1, <2>2, <2>3, <2>4, SnapshotAfterSubtask DEF SnapshotInv
<1>12. ASSUME Wrong, Changes, Undone \/ HalfDone
       PROVE  /\ backup["run"] # "absent" => backup'["run"] # "absent"
              /\ conf'["resolv"] = "managed" => conf["resolv"] = "managed" \/ (File = "resolv" /\ step = "write")
  <2>1. command # "none" /\ File \in Files
    BY <1>12, CurrentStep DEF Changes
  <2> QED BY <1>12, <2>1 DEF Undone, HalfDone, TypeOKSetup, Files, Confs
<1>13. CASE (Interrupt \/ Fail) /\ File = "resolv" /\ step = "write"
  <2>1. /\ command # "none" /\ command \in Commands /\ task \in DOMAIN Subtasks(command)
        /\ Current.file = File /\ Current.act = "setup"
    BY <1>13, CurrentStep DEF Interrupt, Fail, Changes
  <2>2. command \in {"setup", "setup-resolv"} /\ (command = "setup" => task # 1)
    BY <1>13, <2>1, WhereIs DEF Current, Commands
  <2>3. reasons' = {} => reasons = {}
    BY <1>13 DEF Interrupt, Fail
  <2>4. command' = "none" \/ command' = command
    BY <1>13, <2>1, SnapshotAfterSubtask DEF Interrupt, Fail, BackToPrompt
  <2> QED BY <1>12, <1>13, <2>2, <2>3, <2>4 DEF Interrupt, Fail, SnapshotInv
<1>14. CASE Interrupt /\ ~(File = "resolv" /\ step = "write")
  BY <1>12, <1>14 DEF Interrupt, BackToPrompt, SnapshotInv
<1>15. CASE Fail /\ ~(File = "resolv" /\ step = "write")
  <2>1. /\ command # "none" /\ command \in Commands /\ task \in DOMAIN Subtasks(command) /\ File \in Files
        /\ Current.file = File /\ step \in StepsOf(Current) /\ Current \in [act : Acts, file : Files]
        /\ NextSubtask /\ Changes /\ (reasons' = {} => reasons = {})
        /\ reasons' = {} => <<File, step>> \notin {<<"run", "saveFile">>, <<"resolv", "removeConf">>}
    BY <1>15, CurrentStep DEF Fail, Changes
  <2>2. command = "setup" /\ task = 1 => reasons' # {}
    <3>1. SUFFICES ASSUME command = "setup", task = 1 PROVE File = "run" /\ step = "saveFile"
      BY <2>1
    <3> QED BY <2>1, <3>1, WhereIs DEF Current, StepsOf
  <2>3. command = "teardown" /\ File = "resolv" /\ reasons' = {} => conf'["resolv"] # "managed"
    <3>1. SUFFICES ASSUME command = "teardown", File = "resolv", reasons' = {} PROVE conf["resolv"] # "managed"
      BY <1>12, <1>15 DEF Fail
    <3>2. step \in {"removeConf", "restore", "discard"}
      BY <2>1, <3>1, WhereIs DEF Current, StepsOf, Acts
    <3>3. step # "removeConf"
      BY <2>1, <3>1
    <3> QED BY <2>1, <3>1, <3>2, <3>3 DEF CopyInv, MidwayCopies, Confs
  <2>4. conf'["resolv"] = "managed" => conf["resolv"] = "managed"
    BY <1>12, <1>15 DEF Fail
  <2>5. backup["run"] # "absent" => backup'["run"] # "absent"
    BY <1>12, <1>15 DEF Fail
  <2> QED BY <2>1, <2>2, <2>3, <2>4, <2>5, SnapshotAfterSubtask DEF SnapshotInv
<1>16. CASE Reboot
  BY <1>16 DEF Reboot, SnapshotInv
<1>17. CASE UNCHANGED vars
  BY <1>17 DEF vars, SnapshotInv
<1> QED
  BY <1>1, <1>2, <1>3, <1>4, <1>5, <1>6, <1>7, <1>8, <1>9, <1>10, <1>11, <1>13, <1>14, <1>15, <1>16, <1>17
  DEF Next, ScriptStep

(* An unfinished copy is noticed when it is made, and stays known.         *)
LEMMA HalfStep == TypeOKSetup /\ CopyInv /\ HalfKnown /\ [Next]_vars => HalfKnown'
<1> SUFFICES ASSUME TypeOKSetup, CopyInv, HalfKnown, [Next]_vars, backup'["run"] = "half" PROVE "half" \in reasons'
  BY DEF HalfKnown
<1> USE DEF files, history, script
<1>1. CASE UNCHANGED backup /\ reasons \subseteq reasons' BY <1>1 DEF HalfKnown
<1>2. CASE \E c \in Commands : Call(c) BY <1>1, <1>2 DEF Call
<1>3. CASE GiveUpProxy BY <1>1, <1>3 DEF GiveUpProxy
<1>4. CASE SaveFile
  <2>1. File \in Files BY <1>4, CurrentStep DEF SaveFile, At
  <2>2. CASE File = "run" BY <1>4, <2>2 DEF SaveFile, Left
  <2>3. CASE File # "run"
    <3>1. backup'["run"] = backup["run"] /\ reasons' = reasons BY <1>4, <2>1, <2>3 DEF SaveFile, TypeOKSetup, Files
    <3> QED BY <3>1 DEF HalfKnown
  <2> QED BY <2>2, <2>3
<1>5. CASE NothingToSave BY <1>1, <1>5 DEF NothingToSave
<1>6. CASE SaveLink \/ RemoveLink \/ Write \/ NothingToRestore \/ RemoveConf
  BY <1>1, <1>6 DEF SaveLink, RemoveLink, Write, NothingToRestore, RemoveConf
<1>7. CASE Restore \/ Discard
  <2>1. File \in Files BY <1>7, CurrentStep DEF Restore, Discard, At
  <2>2. reasons' = reasons /\ (backup' = backup \/ backup' = [backup EXCEPT ![File] = "absent"])
    BY <1>7 DEF Restore, Discard
  <2>3. backup["run"] = "half" BY <2>1, <2>2 DEF TypeOKSetup, Files
  <2> QED BY <2>2, <2>3 DEF HalfKnown
<1>8. CASE Interrupt \/ Fail BY <1>8 DEF Interrupt, Fail, Left
<1>9. CASE Reboot
  <2>1. backup'["run"] = "absent" BY <1>9 DEF Reboot, TypeOKSetup, Files
  <2> QED BY <2>1
<1>10. CASE UNCHANGED vars BY <1>1, <1>10 DEF vars
<1> QED BY <1>2, <1>3, <1>4, <1>5, <1>6, <1>7, <1>8, <1>9, <1>10 DEF Next, ScriptStep

LEMMA KindsStep == TypeOKSetup /\ CopyInv /\ SnapshotKinds /\ [Next]_vars => SnapshotKinds'
<1> SUFFICES ASSUME TypeOKSetup, CopyInv, SnapshotKinds, [Next]_vars PROVE SnapshotKinds'
  OBVIOUS
<1> USE DEF files, history, script
<1>1. CASE UNCHANGED backup
  BY <1>1 DEF SnapshotKinds
<1>2. ASSUME NEW f \in Files, NEW was \in {"absent", "half"}, backup' = [backup EXCEPT ![f] = was]
      PROVE  SnapshotKinds'
  BY <1>2 DEF SnapshotKinds, TypeOKSetup
<1>3. "run" \in Files
  BY DEF Files
<1>4. CASE SaveFile
  <2>1. File \in Files
    BY <1>4, CurrentStep DEF SaveFile, At
  <2>2. CASE UNCHANGED backup
    BY <1>1, <2>2
  <2>3. CASE backup' = [backup EXCEPT ![File] = Copied(File)]
    <3>1. Copied("run") \in {"absent", "original"}
      BY DEF Copied, CopyInv, WholeUnlessCut
    <3>2. backup'["run"] = backup["run"] \/ backup'["run"] = Copied("run")
      BY <2>1, <2>3, <1>3 DEF TypeOKSetup
    <3> QED BY <3>1, <3>2 DEF SnapshotKinds
  <2> QED BY <1>4, <2>2, <2>3 DEF SaveFile
<1>5. CASE Restore \/ Discard
  <2>1. File \in Files
    BY <1>5, CurrentStep DEF Restore, Discard, At
  <2>2. backup' = backup \/ backup' = [backup EXCEPT ![File] = "absent"]
    BY <1>5 DEF Restore, Discard
  <2> QED BY <1>1, <1>2, <2>1, <2>2
<1>6. CASE Interrupt \/ Fail
  <2>1. File \in Files
    BY <1>6, CurrentStep DEF Interrupt, Fail, Changes
  <2>2. backup' = backup \/ backup' = [backup EXCEPT ![File] = "half"]
    BY <1>6 DEF Interrupt, Fail, Undone, HalfDone
  <2> QED BY <1>1, <1>2, <2>1, <2>2
<1>7. CASE Reboot
  BY <1>2, <1>3, <1>7 DEF Reboot
<1>8. CASE (\E c \in Commands : Call(c)) \/ GiveUpProxy \/ NothingToSave \/ SaveLink \/ RemoveLink
           \/ Write \/ NothingToRestore \/ RemoveConf
  BY <1>1, <1>8 DEF Call, GiveUpProxy, NothingToSave, SaveLink, RemoveLink, Write, NothingToRestore, RemoveConf
<1>9. CASE UNCHANGED vars
  BY <1>1, <1>9 DEF vars
<1> QED BY <1>4, <1>5, <1>6, <1>7, <1>8, <1>9 DEF Next, ScriptStep

LEMMA SnapshotInit == Init => SnapshotInv /\ SnapshotKinds /\ HalfKnown
<1> SUFFICES ASSUME Init PROVE conf["resolv"] # "managed" /\ command = "none" /\ backup["run"] = "absent"
  BY DEF SnapshotInv, SnapshotKinds, HalfKnown
<1> QED BY DEF Init, Files, Confs

(* A snapshot that is there is whole, or is known to be unfinished.        *)
LEMMA SnapshotWhole ==
  ASSUME SnapshotKinds, HalfKnown, reasons = {}, backup["run"] # "absent"
  PROVE  backup["run"] = "original"
BY DEF SnapshotKinds, HalfKnown

(* However many faults there are, of whatever kind, and in whatever order  *)
(* the commands are called: when RESOLV_CONF leads to the proxy and the    *)
(* nameservers' list is not there as a whole, one of the four things of    *)
(* Reasons has happened since a setup last took the list.                  *)
THEOREM ServersKnownHolds == Spec => []ServersKnown
<1>1. SnapshotInv /\ SnapshotKinds /\ HalfKnown => ServersKnown
  BY SnapshotWhole DEF SnapshotInv, ServersKnown
<1> QED
  BY <1>1, TypeInit, TypeStep, CopyInit, CopyStep, SnapshotInit, SnapshotStep, KindsStep, HalfStep, PTL DEF Spec
-----------------------------------------------------------------------------
(* The proxy changes none of the files: whatever holds of the scripts      *)
(* holds beside it.                                                        *)
LEMMA DeploymentIsSetup == DeploymentSpec => Spec
<1>1. DeploymentInit => Init BY DEF DeploymentInit
<1>2. [DeploymentNext]_<<vars, proxy>> => [Next]_vars
  BY DEF DeploymentNext, StartProxy, StopProxy
<1>3. QED BY <1>1, <1>2, PTL DEF DeploymentSpec, Spec

-----------------------------------------------------------------------------
(* What the loader and the shell read.                                     *)

(* The least of some positions of a line is one of them.                   *)
LEMMA LeastPosition ==
  ASSUME NEW S \in SUBSET Nat, S # {}
  PROVE  Min(S) \in S
<1>1. IsWellFoundedOn(OpToRel(<, Nat), Nat) BY NatLessThanWellFounded
<1>2. PICK x \in S : \A y \in S : ~ (<<y, x>> \in OpToRel(<, Nat)) BY <1>1, WFMin
<1>3. ASSUME NEW y \in S PROVE x <= y
  <2>1. x \in Nat /\ y \in Nat OBVIOUS
  <2>2. ~(y < x) BY <1>2, <2>1 DEF OpToRel
  <2>3. QED BY <2>1, <2>2
<1>4. QED BY <1>3 DEF Min

(* A value is a piece of its line.                                         *)
LEMMA ValueType ==
  ASSUME NEW line \in Seq(STRING), EqualSigns(line) # {}
  PROVE  Value(line) \in Seq(STRING)
<1> DEFINE m == Min(EqualSigns(line))
<1>1. EqualSigns(line) \subseteq 1 .. Len(line) /\ Len(line) \in Nat BY DEF EqualSigns
<1>2. EqualSigns(line) \in SUBSET Nat BY <1>1
<1>3. m \in 1 .. Len(line) BY <1>1, <1>2, LeastPosition
<1> HIDE DEF m
<1>4. \A i \in m + 1 .. Len(line) : line[i] \in STRING BY <1>1, <1>3
<1>5. SubSeq(line, m + 1, Len(line)) \in Seq(STRING) BY <1>1, <1>3, <1>4
<1>6. QED BY <1>5 DEF Value, m

(* The shell leaves a value without marks as it is.                        *)
LEMMA UnmarkedValue ==
  ASSUME NEW val \in Seq(STRING), Marks(val) = {}
  PROVE  WithoutMarks(val) = val /\ Unquoted(val) = val
<1> DEFINE n == Len(val)
           kept == DOMAIN val \ Marks(val)
           Nth(k) == CHOOSE i \in kept : Cardinality({j \in kept : j <= i}) = k
<1>1. n \in Nat /\ kept = 1 .. n BY DEF Marks
<1>2. Cardinality(kept) = n BY <1>1, FS_Interval
<1>3. ASSUME NEW i \in kept PROVE Cardinality({j \in kept : j <= i}) = i
  <2>1. i \in 1 .. n BY <1>1
  <2> HIDE DEF n, kept
  <2>2. {j \in kept : j <= i} = 1 .. i BY <1>1, <2>1
  <2>3. Cardinality(1 .. i) = i BY <2>1, <1>1, FS_Interval
  <2>4. QED BY <2>2, <2>3
<1>4. ASSUME NEW k \in 1 .. n PROVE Nth(k) = k
  <2>1. k \in kept BY <1>1
  <2> HIDE DEF n, kept
  <2>2. \A i \in kept : Cardinality({j \in kept : j <= i}) = k <=> i = k BY <1>3
  <2>3. QED BY <2>1, <2>2
<1>5. [k \in 1 .. Cardinality(kept) |-> val[Nth(k)]] = [k \in 1 .. n |-> val[k]]
  <2> HIDE DEF kept, Nth
  <2>1. QED BY <1>2, <1>4
<1>6. val = [k \in 1 .. n |-> val[k]] OBVIOUS
<1>7. WithoutMarks(val) = val BY <1>5, <1>6 DEF WithoutMarks
<1>8. val # <<>> => Head(val) # Quote
  <2>1. val # <<>> => 1 \in DOMAIN val /\ Head(val) = val[1] OBVIOUS
  <2>2. QED BY <2>1 DEF Marks
<1>9. QED BY <1>7, <1>8 DEF Unquoted

(* Of a value in double quotation marks both take what is between them.    *)
LEMMA MarkedValue ==
  ASSUME NEW val \in Seq(STRING), Len(val) >= 2, Marks(val) = {1, Len(val)}, Head(val) = Quote, Last(val) = Quote
  PROVE  WithoutMarks(val) = Unquoted(val)
<1> DEFINE n == Len(val)
           kept == DOMAIN val \ Marks(val)
           Nth(k) == CHOOSE i \in kept : Cardinality({j \in kept : j <= i}) = k
<1>1. n \in Nat /\ n >= 2 /\ kept = 2 .. n - 1 OBVIOUS
<1>2. Cardinality(kept) = n - 2
  <2> HIDE DEF n, kept
  <2>1. Cardinality(2 .. n - 1) = IF 2 > n - 1 THEN 0 ELSE (n - 1) - 2 + 1 BY <1>1, FS_Interval
  <2>2. QED BY <1>1, <2>1
<1>3. ASSUME NEW i \in kept PROVE Cardinality({j \in kept : j <= i}) = i - 1
  <2>1. i \in 2 .. n - 1 BY <1>1
  <2> HIDE DEF n, kept
  <2>2. {j \in kept : j <= i} = 2 .. i BY <1>1, <2>1
  <2>3. Cardinality(2 .. i) = IF 2 > i THEN 0 ELSE i - 2 + 1 BY <1>1, <2>1, FS_Interval
  <2>4. ~(2 > i) /\ i - 2 + 1 = i - 1 BY <1>1, <2>1
  <2>5. QED BY <2>2, <2>3, <2>4
<1>4. ASSUME NEW k \in 1 .. n - 2 PROVE Nth(k) = k + 1
  <2> HIDE DEF n
  <2>1. k + 1 \in kept BY <1>1
  <2> HIDE DEF kept
  <2>2. \A i \in kept : i \in Nat BY <1>1
  <2>3. \A i \in kept : Cardinality({j \in kept : j <= i}) = k <=> i = k + 1 BY <1>1, <1>3, <2>2
  <2>4. QED BY <2>1, <2>3
<1>5. [k \in 1 .. Cardinality(kept) |-> val[Nth(k)]] = [k \in 1 .. n - 2 |-> val[k + 1]]
  <2> HIDE DEF kept, Nth, n
  <2>1. QED BY <1>2, <1>4
<1>6. SubSeq(val, 2, n - 1) = [k \in 1 .. n - 2 |-> val[k + 1]]
  <2>1. (n - 1) - 2 + 1 = n - 2 BY <1>1
  <2>2. \A k \in 1 .. n - 2 : 2 + k - 1 = k + 1 BY <1>1
  <2>3. QED BY <1>1, <2>1, <2>2, SubSeqProperties
<1>7. WithoutMarks(val) = SubSeq(val, 2, n - 1) BY <1>5, <1>6 DEF WithoutMarks
<1>8. val # <<>> BY <1>1
<1>9. QED BY <1>7, <1>8 DEF Unquoted

(* A well quoted value is the same to the loader and to the shell.         *)
LEMMA SameValue ==
  ASSUME NEW val \in Seq(STRING), WellQuoted(val)
  PROVE  WithoutMarks(val) = Unquoted(val)
BY UnmarkedValue, MarkedValue DEF WellQuoted

(* Of a plain file the two read the same snapshot, and nothing is missing. *)
LEMMA SameReading ==
  ASSUME NEW config \in Seq(Seq(STRING)), Plain(config)
  PROVE  /\ Needed \subseteq DOMAIN Load(config)
         /\ Load(config)[SnapshotKey] = Source(config)[SnapshotKey]
<1> DEFINE key == SnapshotKey
           found == LinesOf(config, key)
<1>1. Needed \subseteq Keys(config) BY DEF Plain
<1>2. key \in Keys(config) BY <1>1 DEF Needed
<1> HIDE DEF key
<1>3. PICK i \in Settings(config) : Key(config[i]) = key BY <1>2 DEF Keys
<1>4. found = {i} BY <1>3 DEF LinesOf, Plain
<1>5. i \in Nat /\ config[i] \in Seq(STRING) /\ EqualSigns(config[i]) # {} BY DEF Settings
<1>6. Min({i}) = i /\ Max({i}) = i BY <1>5 DEF Min, Max
<1>7. Value(config[i]) \in Seq(STRING) BY <1>5, ValueType
<1>8. WithoutMarks(Value(config[i])) = Unquoted(Value(config[i])) BY <1>7, SameValue DEF Plain
<1>9. Load(config)[key] = Unquoted(Value(config[i])) BY <1>2, <1>4, <1>6 DEF Load
<1>10. Source(config)[key] = WithoutMarks(Value(config[i])) BY <1>2, <1>4, <1>6 DEF Source
<1>11. DOMAIN Load(config) = Keys(config) BY DEF Load
<1>12. QED BY <1>1, <1>8, <1>9, <1>10, <1>11 DEF key

(* A line as systemd-resolved writes it is understood.                     *)
LEMMA ServerRead ==
  ASSUME NEW listed \in Seq(Seq(STRING)), NamesServer(listed)
  PROVE  Nameservers(listed) # {}
<1>1. PICK ip \in Addresses : <<"nameserver", " ", ip>> \in ToSet(listed) BY DEF NamesServer
<1> DEFINE line == <<"nameserver", " ", ip>>
<1>2. Len(line) = 3 /\ line[1] = "nameserver" /\ line[2] = " " /\ line[3] = ip OBVIOUS
<1>3. Len(line) = 3 OBVIOUS
<1>4. line \in ToSet(listed) BY <1>1
<1> HIDE DEF line
<1>5. IsNameserver(line)
  <2>1. 4 .. 3 = {} OBVIOUS
  <2>2. 4 .. Len(line) = {} BY <1>3, <2>1, Zenon
  <2>3. Len(line) >= 3 BY ONLY <1>3
  <2>4. line[3] \in Quads BY <1>2, AddressAssumption, Zenon
  <2>5. QED BY <1>2, <2>2, <2>3, <2>4, Zenon DEF IsNameserver
<1>6. line[3] \in Nameservers(listed) BY <1>2, <1>4, <1>5, Zenon DEF Nameservers
<1>7. QED BY <1>6

(* What the proxy makes of such files.                                     *)
LEMMA UsableServes ==
  ASSUME NEW file \in Usable
  PROVE  Reading[file] = "serving"
<1>1. /\ file \in ConfigFiles \X NameserverLists
      /\ file[1] \in ConfigFiles /\ file[2] \in NameserverLists
      /\ Plain(file[1]) /\ NamesServer(file[2])
  BY DEF Usable
<1>2. file[1] \in Seq(Seq(STRING)) /\ file[2] \in Seq(Seq(STRING)) BY <1>1, FilesAssumption
<1>3. /\ Needed \subseteq DOMAIN Load(file[1])
      /\ Load(file[1])[SnapshotKey] = Source(file[1])[SnapshotKey]
  BY <1>1, <1>2, SameReading
<1>4. Nameservers(file[2]) # {} BY <1>1, <1>2, ServerRead
<1>5. QED BY <1>1, <1>3, <1>4, Zenon DEF Reading

(* Where the snapshot is known, a proxy that is started finds it.          *)
LEMMA StartServes ==
  ASSUME ServersKnown, reasons = {}, conf["resolv"] = "managed", NEW file \in Usable, StartProxy(file[1], file[2])
  PROVE  proxy' = "serving"
<1>1. backup["run"] = "original" BY DEF ServersKnown
<1>2. Reading[file] = "serving" BY UsableServes
<1>3. file = <<file[1], file[2]>> BY DEF Usable
<1>4. QED BY <1>1, <1>2, <1>3 DEF StartProxy, Started

(* Unless one of the four things of Reasons has happened since the list    *)
(* was last taken, a proxy that is started while the resolver leads to it  *)
(* knows a nameserver: the snapshot is there (ServersKnown), the loader    *)
(* finds it under the name the scripts gave it, and reads a nameserver     *)
(* from it.  That holds for any microDNS.conf and any list that are        *)
(* Usable, and whatever else goes wrong.                                   *)
THEOREM StartsServingHolds == DeploymentSpec => StartsServing
<1>1. ServersKnown =>
        [reasons = {} /\ conf["resolv"] = "managed" =>
           \A file \in Usable : StartProxy(file[1], file[2]) => proxy' = "serving"]_<<vars, proxy>>
  BY StartServes
<1>2. QED BY <1>1, DeploymentIsSetup, ServersKnownHolds, PTL DEF StartsServing
=============================================================================
