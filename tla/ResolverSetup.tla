---------------------------- MODULE ResolverSetup ----------------------------
(***************************************************************************)
(* The scripts that point the system's resolver at the proxy and back      *)
(* (dns/scripts/microDNS.sh and its subtasks).  A command is a list of     *)
(* subtasks, a subtask a list of steps; a step is one command of the shell *)
(* that changes files, with the tests before it.  Between any two steps    *)
(* the operator may interrupt the script, a step may fail, and the machine *)
(* may restart.  A subtask ends at its first failure (set -e), microDNS.sh *)
(* goes on with the next one.                                              *)
(***************************************************************************)
EXTENDS Naturals, Sequences

CONSTANTS MaxFaults  \* how often something goes wrong

ASSUME FaultsAssumption == MaxFaults \in Nat

Confs == {"resolv", "nss"}
Files == Confs \cup {"run"}

(* "alone": one of RESOLV_CONF and BACKUP_FILE_RUN was handled without the *)
(* other; "failed": the copy of RUN_RESOLV_CONF or the removal of          *)
(* RESOLV_CONF failed and the other file was handled all the same; "half": *)
(* the copy was not finished; "restart": the machine was restarted.        *)
Reasons == {"alone", "failed", "half", "restart"}

(* What a file holds.  "link": a symbolic link, to a file the scripts do   *)
(* not touch; "managed": what the scripts write, whole or not; "half":     *)
(* what is left of a copy that was not finished.                           *)
Contents == {"absent", "original", "link", "managed", "half"}

VARIABLES conf,        \* RESOLV_CONF, NSS_CONF and RUN_RESOLV_CONF
          backup,      \* BACKUP_FILE_RESOLV, BACKUP_FILE_NSS and BACKUP_FILE_RUN
          linkBackup,  \* whether BACKUP_FILE_SYMLINK_RESOLV (_NSS) exists
          origin,      \* history: conf before the first command
          command,     \* the command being executed, or "none"
          task,        \* the number of its current subtask
          step,        \* the step of that subtask that comes next
          removing,    \* the operator only wants to get rid of the proxy
          faults,      \* how often something went wrong
          cut,         \* history: files with an unfinished copy, or left where it matters
          reasons      \* history: why BACKUP_FILE_RUN may be missing, since it was last taken

files == <<conf, backup, linkBackup>>
script == <<command, task, step>>
history == <<origin, cut, reasons>>
vars == <<files, script, history, removing, faults>>

Subtask(act, file) == [act |-> act, file |-> file]

(* Mutant of TeardownAll: the nameservers are forgotten first.             *)
TeardownRunFirst == <<Subtask("teardown", "run"), Subtask("teardown", "nss"), Subtask("teardown", "resolv")>>

(* setup_all and teardown_all.                                             *)
SetupAll == <<Subtask("setup", "run"), Subtask("setup", "resolv"), Subtask("setup", "nss")>>
TeardownAll == <<Subtask("teardown", "nss"), Subtask("teardown", "resolv"), Subtask("teardown", "run")>>

Subtasks(c) ==
    CASE c = "setup" -> SetupAll
      [] c = "teardown" -> TeardownAll
      [] c = "setup-resolv" -> <<Subtask("setup", "resolv")>>
      [] c = "teardown-resolv" -> <<Subtask("teardown", "resolv")>>
      [] c = "setup-nss" -> <<Subtask("setup", "nss")>>
      [] c = "teardown-nss" -> <<Subtask("teardown", "nss")>>
      [] c = "setup-run-resolv" -> <<Subtask("setup", "run")>>
      [] c = "teardown-run-resolv" -> <<Subtask("teardown", "run")>>

Commands == {"setup", "teardown", "setup-resolv", "teardown-resolv",
             "setup-nss", "teardown-nss", "setup-run-resolv", "teardown-run-resolv"}

StepsOf(s) ==
    IF s.act = "setup"
      THEN IF s.file = "run" THEN {"saveFile"} ELSE {"saveFile", "saveLink", "removeLink", "write"}
      ELSE IF s.file = "run" THEN {"discard"} ELSE {"removeConf", "restore", "discard"}

(* Mutant of FirstStep: the snapshot is restored like the other files.     *)
FirstStepOfAll(s) == IF s.act = "setup" THEN "saveFile" ELSE "removeConf"

FirstStep(s) == IF s.act = "setup" THEN "saveFile"
                ELSE IF s.file = "run" THEN "discard" ELSE "removeConf"

File == Subtasks(command)[task].file

Init ==
    /\ conf \in [Files -> {"absent", "original", "link"}]
    /\ \A x \in Confs : conf[x] # "absent"
    /\ conf["run"] # "link"
    /\ backup = [f \in Files |-> "absent"]
    /\ linkBackup = [x \in Confs |-> FALSE]
    /\ origin = conf
    /\ command = "none" /\ task = 1 /\ step = "saveFile"
    /\ removing = FALSE /\ faults = 0 /\ cut = {} /\ reasons = {}

(* The operator calls microDNS.sh.  Only these two commands touch one of   *)
(* RESOLV_CONF and BACKUP_FILE_RUN without looking after the other.        *)
Call(c) ==
    /\ command = "none"
    /\ removing => c = "teardown"
    /\ command' = c /\ task' = 1 /\ step' = FirstStep(Subtasks(c)[1])
    /\ reasons' = IF c \in {"setup-resolv", "teardown-run-resolv"} THEN reasons \cup {"alone"} ELSE reasons
    /\ UNCHANGED <<files, origin, cut, removing, faults>>

GiveUpProxy ==
    /\ ~removing /\ removing' = TRUE
    /\ UNCHANGED <<files, script, history, faults>>

BackToPrompt == command' = "none" /\ task' = 1 /\ step' = "saveFile"

(* The subtask is over.                                                    *)
NextSubtask ==
    IF task < Len(Subtasks(command))
      THEN task' = task + 1 /\ step' = FirstStep(Subtasks(command)[task + 1]) /\ UNCHANGED command
      ELSE BackToPrompt

Goto(s) == step' = s /\ UNCHANGED <<command, task>>

AfterSaveFile == IF File = "run" THEN NextSubtask ELSE Goto("saveLink")

At(s) == command # "none" /\ step = s
-----------------------------------------------------------------------------
(* The steps of resolv_init.sh, nss_init.sh and run_resolv_init.sh.        *)

(* cp follows a link; a copy that exists is kept.                          *)
Copied(f) == IF conf[f] = "link" THEN "original" ELSE conf[f]

(* An unfinished copy of RUN_RESOLV_CONF.                                  *)
Left == IF backup'["run"] = "half" THEN {"half"} ELSE {}

(* Mutant of SaveFile: what is there is saved each time.                   *)
SaveFileAgain ==
    /\ At("saveFile")
    /\ conf[File] # "absent"
    /\ backup' = [backup EXCEPT ![File] = Copied(File)]
    /\ reasons' = IF File = "run" THEN Left ELSE reasons
    /\ AfterSaveFile
    /\ UNCHANGED <<conf, linkBackup, origin, cut, removing, faults>>

SaveFile ==
    /\ At("saveFile")
    /\ \/ backup[File] # "absent" /\ UNCHANGED backup
       \/ /\ backup[File] = "absent" /\ conf[File] # "absent"
          /\ backup' = [backup EXCEPT ![File] = Copied(File)]
    /\ reasons' = IF File = "run" THEN Left ELSE reasons
    /\ AfterSaveFile
    /\ UNCHANGED <<conf, linkBackup, origin, cut, removing, faults>>

(* Nothing to copy: cp fails.                                              *)
NothingToSave ==
    /\ At("saveFile")
    /\ backup[File] = "absent" /\ conf[File] = "absent"
    /\ reasons' = IF File = "run" THEN reasons \cup {"failed"} ELSE reasons
    /\ NextSubtask
    /\ UNCHANGED <<files, origin, cut, removing, faults>>

(* Mutant of SaveLink: cp follows the link.                                *)
SaveTarget ==
    /\ At("saveLink")
    /\ Goto(IF conf[File] = "link" THEN "removeLink" ELSE "write")
    /\ UNCHANGED <<conf, backup, linkBackup, history, removing, faults>>

SaveLink ==
    /\ At("saveLink")
    /\ IF conf[File] = "link"
         THEN linkBackup' = [linkBackup EXCEPT ![File] = TRUE] /\ Goto("removeLink")
         ELSE Goto("write") /\ UNCHANGED linkBackup
    /\ UNCHANGED <<conf, backup, history, removing, faults>>

RemoveLink ==
    /\ At("removeLink")
    /\ conf' = [conf EXCEPT ![File] = "absent"]
    /\ Goto("write")
    /\ UNCHANGED <<backup, linkBackup, history, removing, faults>>

(* The nameserver's address for RESOLV_CONF, the copy with another line    *)
(* "hosts:" for NSS_CONF.                                                  *)
Write ==
    /\ At("write")
    /\ conf' = [conf EXCEPT ![File] = "managed"]
    /\ NextSubtask
    /\ UNCHANGED <<backup, linkBackup, history, removing, faults>>
-----------------------------------------------------------------------------
(* The steps of resolv_destroy.sh, nss_destroy.sh and                      *)
(* run_resolv_destroy.sh.                                                  *)

NothingToRestore ==
    /\ At("removeConf") \/ (At("discard") /\ File = "run")
    /\ backup[File] = "absent"
    /\ NextSubtask
    /\ UNCHANGED <<files, history, removing, faults>>

(* Mutant of RemoveConf: whether there is a copy is not tested.            *)
RemoveConfBlindly ==
    /\ At("removeConf")
    /\ conf' = [conf EXCEPT ![File] = "absent"]
    /\ Goto("restore")
    /\ UNCHANGED <<backup, linkBackup, history, removing, faults>>

RemoveConf ==
    /\ At("removeConf")
    /\ backup[File] # "absent"
    /\ conf' = [conf EXCEPT ![File] = "absent"]
    /\ Goto("restore")
    /\ UNCHANGED <<backup, linkBackup, history, removing, faults>>

Restore ==
    /\ At("restore")
    /\ IF linkBackup[File]
         THEN /\ conf' = [conf EXCEPT ![File] = "link"]
              /\ linkBackup' = [linkBackup EXCEPT ![File] = FALSE]
              /\ UNCHANGED backup
         ELSE /\ conf' = [conf EXCEPT ![File] = backup[File]]
              /\ backup' = [backup EXCEPT ![File] = "absent"]
              /\ UNCHANGED linkBackup
    /\ Goto("discard")
    /\ UNCHANGED <<history, removing, faults>>

(* Mutant of Discard: only the copies of links are removed.                *)
DiscardLink ==
    /\ At("discard")
    /\ File = "run" => backup["run"] # "absent"
    /\ linkBackup' = [x \in Confs |-> x # File /\ linkBackup[x]]
    /\ NextSubtask
    /\ UNCHANGED <<conf, backup, history, removing, faults>>

Discard ==
    /\ At("discard")
    /\ File = "run" => backup["run"] # "absent"
    /\ backup' = [backup EXCEPT ![File] = "absent"]
    /\ linkBackup' = [x \in Confs |-> x # File /\ linkBackup[x]]
    /\ NextSubtask
    /\ UNCHANGED <<conf, history, removing, faults>>
-----------------------------------------------------------------------------
(* What may go wrong at a step that changes files.                         *)

Changes ==
    /\ command # "none"
    /\ step = "saveFile" => backup[File] = "absent" /\ conf[File] # "absent"
    /\ step = "saveLink" => conf[File] = "link"
    /\ step = "removeConf" \/ (File = "run" /\ step = "discard") => backup[File] # "absent"

Undone ==
    /\ cut' = IF step \in {"saveLink", "discard"} THEN cut \cup {<<File, step>>} ELSE cut
    /\ UNCHANGED files

(* A copy that ends in the middle: the disk is full, or cp or tee is       *)
(* killed.                                                                 *)
HalfDone ==
    \/ /\ step = "saveFile"
       /\ backup' = [backup EXCEPT ![File] = "half"]
       /\ cut' = cut \cup {<<File, "half">>}
       /\ UNCHANGED <<conf, linkBackup>>
    \/ /\ step = "write"
       /\ conf' = [conf EXCEPT ![File] = "managed"]
       /\ UNCHANGED <<backup, linkBackup, cut>>

Wrong == faults < MaxFaults /\ faults' = faults + 1 /\ UNCHANGED <<origin, removing>>

(* Ctrl-C ends the subtask and microDNS.sh.                                *)
Interrupt ==
    /\ Wrong /\ Changes
    /\ Undone \/ HalfDone
    /\ BackToPrompt
    /\ reasons' = reasons \cup Left

(* A failing step ends the subtask only.                                   *)
Fail ==
    /\ Wrong /\ Changes
    /\ Undone \/ HalfDone
    /\ reasons' = reasons \cup Left \cup
                     IF <<File, step>> \in {<<"run", "saveFile">>, <<"resolv", "removeConf">>}
                       THEN {"failed"} ELSE {}
    /\ NextSubtask

(* What is under /run does not survive a restart of the machine, which for *)
(* a script that is running is an interruption first.                      *)
Reboot ==
    /\ Wrong
    /\ command = "none"
    /\ backup' = [backup EXCEPT !["run"] = "absent"]
    /\ reasons' = reasons \cup {"restart"}
    /\ UNCHANGED <<conf, linkBackup, script, cut>>
-----------------------------------------------------------------------------
ScriptStep ==
    \/ SaveFile \/ NothingToSave \/ SaveLink \/ RemoveLink \/ Write
    \/ NothingToRestore \/ RemoveConf \/ Restore \/ Discard

Next ==
    \/ \E c \in Commands : Call(c)
    \/ GiveUpProxy
    \/ ScriptStep
    \/ Interrupt
    \/ Fail
    \/ Reboot

Spec == Init /\ [][Next]_vars

(* A script goes on by itself; who wants to get rid of the proxy calls     *)
(* teardown again when it was cut short.                                   *)
FairSpec == Spec /\ WF_vars(ScriptStep) /\ WF_vars(removing /\ Call("teardown"))
-----------------------------------------------------------------------------
TypeOKSetup ==
    /\ conf \in [Files -> Contents] /\ origin \in [Files -> Contents]
    /\ backup \in [Files -> Contents] /\ linkBackup \in [Confs -> BOOLEAN]
    /\ command \in Commands \cup {"none"}
    /\ command # "none" => task \in DOMAIN Subtasks(command) /\ step \in StepsOf(Subtasks(command)[task])
    /\ removing \in BOOLEAN /\ reasons \subseteq Reasons
    /\ faults \in 0 .. MaxFaults /\ cut \subseteq Files \X {"half", "saveLink", "discard"}

(* However often and in whatever order the scripts run and are cut short,  *)
(* what they write themselves never passes for the original (test of       *)
(* resolv_init.sh:7 and nss_init.sh:7).                                    *)
NeverSavesOwn == \A f \in Files : backup[f] # "managed"

(* The original contents are never lost, unless the copy itself was left   *)
(* unfinished: the next setup takes the half for the whole.                *)
ContentKept ==
    \A x \in Confs : <<x, "half">> \notin cut =>
        conf[x] \in {"original", "link"} \/ backup[x] = "original" \/ linkBackup[x]

(* A configuration that was a link can become one again.  Three moments    *)
(* are exceptions: in the middle of the copy, after it and before the link *)
(* is saved, and between the restoration of the link and the removal of    *)
(* the copy (resolv_destroy.sh:20).  From there a teardown replaces the    *)
(* link by the copy.                                                       *)
LinkKept ==
    \A x \in Confs :
        origin[x] = "link" /\ {<<x, "half">>, <<x, "saveLink">>, <<x, "discard">>} \cap cut = {}
            => conf[x] = "link" \/ linkBackup[x]

(* When RESOLV_CONF leads to the proxy and the snapshot of which the proxy *)
(* learns its nameservers is not there, or not whole, then for one of four *)
(* reasons since a setup last took it: one of the two was handled alone,   *)
(* the subtask for one of them failed and microDNS.sh went on, the copy    *)
(* was cut short, or the machine was restarted.  Nothing else separates    *)
(* the two, that is no other interruption or failure, no repetition and no *)
(* order of commands: setup takes the snapshot before, teardown removes it *)
(* after (microDNS.sh:37-47).                                              *)
ServersKnown ==
    conf["resolv"] = "managed" /\ backup["run"] # "original" => reasons # {}

(* Whatever went wrong before and in between, calling teardown again and   *)
(* again restores the originals and leaves no copies.                      *)
Restored ==
    /\ \A x \in Confs : conf[x] \in {"original", "link"} \/ <<x, "half">> \in cut
    /\ \A f \in Files : backup[f] = "absent"
    /\ \A x \in Confs : ~linkBackup[x]
RemovalEnds == removing ~> []Restored
=============================================================================
