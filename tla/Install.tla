------------------------------- MODULE Install -------------------------------
(***************************************************************************)
(* Installing the host: install_download.sh, install_build.sh (with        *)
(* build_function.sh at its end) and install_verify.sh, run again and      *)
(* again over the same directory.  What is on disk is all that passes from *)
(* one run to the next: a stage is skipped when its output is there.       *)
(*                                                                         *)
(* An artefact is "none", "empty" (a directory), "part" (a broken transfer,*)
(* an error page saved under its name, an interrupted extraction, a        *)
(* pointer instead of the file) or "full".  A command may fail, the        *)
(* operator may interrupt a script (its EXIT trap runs), and the host may  *)
(* crash (it does not).                                                    *)
(***************************************************************************)
EXTENDS Naturals

CONSTANTS
  MaxFaults,   \* how many commands fail or are interrupted
  MaxCrashes,  \* how many times the host crashes
  InOrder      \* TRUE: the operator alternates download and build, as documented

VARIABLES
  pc,        \* the stage the running script is at; "idle" between scripts
  art,       \* kernel, base (aws-lambda-base-images), busybox, archive, sums
             \* and layers (lambda-rootfs): the status of each
  partial,   \* the image being built, aws_baseimage.ext4.partial
  image,     \* aws_baseimage.ext4
  mounts,    \* what is mounted at MOUNT_DIR and below it
  folder,    \* does release-<version>-<arch>/ exist?
  inFolder,  \* the two binaries in it
  bin,       \* ./firecracker and ./jailer
  drive,     \* function.ext4
  last,      \* the script begun last, "download" or "build"
  verdict,   \* what the last install_verify.sh said, if nothing ran since
  faults, crashes   \* how many so far

vars == <<pc, art, partial, image, mounts, folder, inFolder, bin, drive, last,
          verdict, faults, crashes>>

Status   == {"none", "part", "full"}
Fetched  == {"kernel", "base", "busybox", "archive", "sums"}
Binaries == {"firecracker", "jailer"}
Image    == [stage : {"made", "injected", "ready"}, layers : {"empty", "part", "full"},
             busybox : Status,
             pip : BOOLEAN]   \* are there a pip in it and requirements to install?

\* No image file of that name.
NoImage  == [stage |-> "none", layers |-> "none", busybox |-> "none", pip |-> FALSE]

GetStage  == [a \in Fetched |->
                CASE a = "kernel"  -> "get_kernel"  [] a = "base"    -> "get_base"
                  [] a = "busybox" -> "get_busybox" [] a = "archive" -> "get_archive"
                  [] a = "sums"    -> "get_sums"]
NameStage == [b \in Binaries |->
                IF b = "firecracker" THEN "name_firecracker" ELSE "name_jailer"]
RootfsStages   == {"untar", "rm_base", "mkfs", "rm_layers", "mount", "inject",
                   "pip", "pip_failed", "umount", "publish"}
ReleaseStages  == {"check", "extract", "extracting", "name_firecracker", "name_jailer"}
BuildStages    == {"rootfs", "function_drive"} \cup RootfsStages \cup ReleaseStages

\* The arch whose release is checked in starts with all binaries, any other with none.
Init ==
  /\ \E shipped \in {"none", "full"} :
       /\ folder   = (shipped = "full")
       /\ inFolder = [b \in Binaries |-> shipped]
       /\ bin      = [b \in Binaries |-> shipped]
  /\ pc = "idle"
  /\ art = [a \in Fetched \cup {"layers"} |-> "none"]
  /\ partial = NoImage
  /\ image   = NoImage
  /\ mounts  = {}
  /\ drive   = "none"
  /\ last    = "build"
  /\ verdict = "none"
  /\ faults  = 0
  /\ crashes = 0

Has(a)       == art[a] # "none"
Set(a, s)    == art' = [art EXCEPT ![a] = s]
Goto(s, t)   == pc = s /\ pc' = t
Fault        == faults < MaxFaults /\ faults' = faults + 1
NoFault      == UNCHANGED <<faults, crashes>>
Release      == <<folder, inFolder, bin>>
Rootfs       == <<partial, image, mounts>>

(***************************************************************************)
(* install_download.sh: no `set -e`, so a transfer that fails leaves what  *)
(* it leaves and the script goes on.                                       *)
(***************************************************************************)
BeginDownload ==
  /\ Goto("idle", "get_kernel")
  /\ InOrder => last = "build"
  /\ last'    = "download"
  /\ verdict' = "none"
  /\ UNCHANGED <<art, Rootfs, Release, drive>> /\ NoFault

\* What a failed transfer of a leaves: `wget -O` always creates its file.
Remains(a) == IF a = "busybox" THEN {"part"} ELSE {"none", "part"}

Skip(a) == Has(a) \/ (a = "base" /\ image # NoImage)

Get(a, then) ==
  /\ pc = GetStage[a]
  /\ \/ Skip(a) /\ pc' = then /\ UNCHANGED art /\ NoFault
     \/ ~Skip(a) /\ pc' = then /\ Set(a, "full") /\ NoFault
     \/ /\ ~Skip(a)
        /\ Fault /\ UNCHANGED crashes
        /\ \E got \in Remains(a) : Set(a, got)
        \* Pointers the GitHub API could not replace end the script.
        /\ pc' = then \/ (a = "base" /\ art'[a] = "part" /\ pc' = "idle")
  /\ UNCHANGED <<Rootfs, Release, drive, last, verdict>>

Download ==
  \/ Get("kernel", "get_base")
  \/ Get("base", "get_busybox")
  \/ Get("busybox", "get_archive")
  \/ Get("archive", "get_sums")
  \/ Get("sums", "idle")

\* Interrupted in the middle of a transfer.
StopDownload ==
  /\ \E a \in Fetched :
       /\ pc = GetStage[a]
       /\ \/ Skip(a) /\ UNCHANGED art
          \/ ~Skip(a) /\ \E got \in Remains(a) : Set(a, got)
  /\ pc' = "idle"
  /\ Fault
  /\ UNCHANGED <<Rootfs, Release, drive, last, verdict, crashes>>

(***************************************************************************)
(* install_build.sh: the rootfs image.                                     *)
(***************************************************************************)
BeginBuild ==
  /\ Goto("idle", "rootfs")
  /\ InOrder => last = "download"
  /\ last'    = "build"
  /\ verdict' = "none"
  /\ UNCHANGED <<art, Rootfs, Release, drive>> /\ NoFault

\* The whole stage is skipped when the image is there, the extraction when
\* lambda-rootfs is.  `mkdir -p` comes before the first layer.
StartRootfs ==
  /\ pc = "rootfs"
  /\ \/ image # NoImage /\ pc' = "check" /\ UNCHANGED art
     \/ image = NoImage /\ Has("layers") /\ pc' = "rm_base" /\ UNCHANGED art
     \/ image = NoImage /\ ~Has("layers") /\ pc' = "untar" /\ Set("layers", "empty")
  /\ UNCHANGED <<Rootfs, Release, drive, last, verdict>> /\ NoFault

\* tar accepts every layer only if all of them are real (Abort otherwise).
Untar ==
  /\ Goto("untar", "rm_base")
  /\ art["base"] = "full" /\ Set("layers", "full")
  /\ UNCHANGED <<Rootfs, Release, drive, last, verdict>> /\ NoFault

\* Mutant: the clone is kept.
RemoveBase_Kept ==
  /\ Goto("rm_base", "mkfs")
  /\ UNCHANGED <<art, Rootfs, Release, drive, last, verdict>> /\ NoFault

RemoveBase ==
  /\ Goto("rm_base", "mkfs")
  /\ Set("base", "none")
  /\ UNCHANGED <<Rootfs, Release, drive, last, verdict>> /\ NoFault

MadeOf(layers) ==
  [stage |-> "made", layers |-> layers, busybox |-> "none", pip |-> FALSE]

\* Mutant: the image is built under its final name.
Mkfs_InPlace ==
  /\ Goto("mkfs", "rm_layers")
  /\ partial' = MadeOf(art["layers"])
  /\ image'   = partial'
  /\ UNCHANGED <<art, mounts, Release, drive, last, verdict>> /\ NoFault

Mkfs ==
  /\ Goto("mkfs", "rm_layers")
  /\ partial' = MadeOf(art["layers"])
  /\ UNCHANGED <<art, image, mounts, Release, drive, last, verdict>> /\ NoFault

RemoveLayers ==
  /\ Goto("rm_layers", "mount")
  /\ Set("layers", "none")
  /\ UNCHANGED <<Rootfs, Release, drive, last, verdict>> /\ NoFault

Mount ==
  /\ Goto("mount", "inject")
  /\ mounts' = {"root"}
  /\ UNCHANGED <<art, partial, image, Release, drive, last, verdict>> /\ NoFault

\* Busybox, the static binaries and the bootstrap wrapper; and, for pip, /dev, /proc
\* and /sys, if the layers have one and guest-requirements.txt is not empty.
Inject ==
  /\ Goto("inject", "pip")
  /\ Has("busybox") /\ partial.layers # "empty"
  /\ \E pip \in BOOLEAN :
       /\ partial' = [partial EXCEPT !.stage = "injected", !.busybox = art["busybox"],
                                     !.pip = pip]
       /\ mounts'  = IF pip THEN mounts \cup {"binds"} ELSE mounts
  /\ UNCHANGED <<art, image, Release, drive, last, verdict>> /\ NoFault

\* The guest's pip, or a warning that there is none; the bind mounts go away whether
\* it succeeds or fails.
Pip ==
  /\ pc = "pip"
  /\ \/ /\ ~partial.pip /\ pc' = "umount" /\ UNCHANGED partial /\ NoFault
     \/ /\ partial.pip /\ pc' = "umount"
        /\ partial' = [partial EXCEPT !.stage = "ready"] /\ NoFault
     \/ /\ partial.pip /\ pc' = "pip_failed" /\ UNCHANGED partial
        /\ Fault /\ UNCHANGED crashes
  /\ mounts' = mounts \ {"binds"}
  /\ UNCHANGED <<art, image, Release, drive, last, verdict>>

Umount ==
  /\ Goto("umount", "publish")
  /\ mounts' = {}
  /\ UNCHANGED <<art, partial, image, Release, drive, last, verdict>> /\ NoFault

Publish ==
  /\ Goto("publish", "check")
  /\ image'   = partial
  /\ partial' = NoImage
  /\ UNCHANGED <<art, mounts, Release, drive, last, verdict>> /\ NoFault

(***************************************************************************)
(* install_build.sh: the Firecracker release, the function drive.          *)
(***************************************************************************)
\* The checksum is compared only while ./firecracker is missing (Abort if it differs).
CheckArchive ==
  /\ pc = "check"
  /\ \/ bin["firecracker"] # "none" /\ pc' = "name_firecracker"
     \/ /\ bin["firecracker"] = "none"
        /\ art["archive"] = "full" /\ art["sums"] = "full"
        /\ pc' = "extract"
  /\ UNCHANGED <<art, Rootfs, Release, drive, last, verdict>> /\ NoFault

\* tar has begun: any of the binaries may be there, whole or cut short.
BeginExtract ==
  /\ pc = "extract"
  /\ \/ /\ folder /\ pc' = "name_firecracker"
        /\ UNCHANGED <<folder, inFolder>>
     \/ /\ ~folder /\ pc' = "extracting"
        /\ folder' = TRUE
        /\ inFolder' \in [Binaries -> Status]
  /\ UNCHANGED <<art, Rootfs, bin, drive, last, verdict>> /\ NoFault

EndExtract ==
  /\ Goto("extracting", "name_firecracker")
  /\ inFolder' = [b \in Binaries |-> "full"]
  /\ UNCHANGED <<art, Rootfs, folder, bin, drive, last, verdict>> /\ NoFault

Name(b, then) ==
  /\ Goto(NameStage[b], then)
  /\ \/ bin[b] # "none" /\ UNCHANGED <<bin, inFolder>>
     \/ /\ bin[b] = "none" /\ inFolder[b] # "none"
        /\ bin'      = [bin EXCEPT ![b] = inFolder[b]]
        /\ inFolder' = [inFolder EXCEPT ![b] = "none"]
  /\ UNCHANGED <<art, Rootfs, folder, drive, last, verdict>> /\ NoFault

\* build_function.sh, at the end of a build or on its own.  Nothing checks mkfs.
FunctionDrive ==
  /\ pc = "function_drive" \/ pc = "idle"
  /\ pc' = "idle"
  /\ verdict' = "none"
  /\ \/ drive' = "full" /\ NoFault
     \/ drive' \in {"none", "part"} /\ Fault /\ UNCHANGED crashes
  /\ UNCHANGED <<art, Rootfs, Release, last>>

Build ==
  \/ StartRootfs \/ Untar \/ RemoveBase \/ Mkfs \/ RemoveLayers \/ Mount \/ Inject
  \/ Pip \/ Umount \/ Publish \/ CheckArchive \/ BeginExtract \/ EndExtract
  \/ Name("firecracker", "name_jailer")
  \/ Name("jailer", "function_drive")

(***************************************************************************)
(* A build that does not get to its end.                                   *)
(***************************************************************************)
\* The next command cannot succeed with what is on disk.
Stuck ==
  \/ pc = "untar" /\ art["base"] # "full"
  \/ pc = "inject" /\ (~Has("busybox") \/ partial.layers # "full")
  \/ pc = "pip_failed"
  \/ pc = "check" /\ bin["firecracker"] = "none" /\ ~(art["archive"] = "full" /\ art["sums"] = "full")
  \/ \E b \in Binaries : pc = NameStage[b] /\ bin[b] = "none" /\ inFolder[b] = "none"

\* `tar` or `rm -rf` stopped half-way.
HalfDone ==
  \/ UNCHANGED art
  \/ pc = "untar" /\ Has("base") /\ Set("layers", "part")
  \/ pc = "rm_base"   /\ Has("base")   /\ Set("base", "part")
  \/ pc = "rm_layers" /\ Has("layers") /\ Set("layers", "part")

\* The EXIT trap of the rootfs stage: umount, and the unfinished image is removed.
\* (Bind mounts make the umount fail: the mount of that run's own temporary
\* directory then stays, out of the way of later runs, which make another.)
Trap ==
  /\ mounts' = {}
  /\ partial' = NoImage

\* `set -e`, or Ctrl-C, at any stage.
Abort ==
  /\ pc \in BuildStages
  /\ \/ Stuck /\ UNCHANGED faults
     \/ Fault
  /\ pc' = "idle"
  /\ HalfDone
  /\ IF pc \in RootfsStages THEN Trap ELSE UNCHANGED <<partial, mounts>>
  /\ UNCHANGED <<image, Release, drive, last, verdict, crashes>>

\* The host goes down: no trap, and no mount survives.
Crash ==
  /\ crashes < MaxCrashes /\ crashes' = crashes + 1
  /\ pc \in BuildStages
  /\ pc' = "idle"
  /\ HalfDone
  /\ mounts' = {}
  /\ UNCHANGED <<partial, image, Release, drive, last, verdict, faults>>

(***************************************************************************)
(* install_verify.sh, and the operator's "delete the artefact".            *)
(***************************************************************************)
\* `ls *.ext4 | tail -1`: the last name in order, and that is function.ext4's.
LastImageValid == IF drive # "none" THEN drive = "full" ELSE image # NoImage

Accepted ==
  /\ Has("kernel")
  /\ LastImageValid
  /\ \A b \in Binaries : bin[b] # "none" \/ (folder /\ inFolder[b] # "none")

Verify ==
  /\ pc = "idle"
  /\ verdict' = IF Accepted THEN "pass" ELSE "fail"
  /\ UNCHANGED <<pc, art, Rootfs, Release, drive, last>> /\ NoFault

ForceRebuild ==
  /\ pc = "idle" /\ image # NoImage
  /\ image'   = NoImage
  /\ verdict' = "none"
  /\ UNCHANGED <<pc, art, partial, mounts, Release, drive, last>> /\ NoFault

Next ==
  \/ BeginDownload \/ Download \/ StopDownload
  \/ BeginBuild \/ Build \/ FunctionDrive \/ Abort \/ Crash
  \/ Verify \/ ForceRebuild

Spec == Init /\ [][Next]_vars

\* A script that has begun goes on, and the operator does not give up.
Fairness ==
  /\ WF_vars(Download) /\ WF_vars(Build \/ FunctionDrive) /\ WF_vars(Stuck /\ Abort)
  /\ SF_vars(BeginDownload) /\ SF_vars(BeginBuild)
=============================================================================
