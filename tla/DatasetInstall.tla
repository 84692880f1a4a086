-------------------------- MODULE DatasetInstall --------------------------
(***************************************************************************)
(* scripts/download_dataset.py: installers that bring a package of data    *)
(* into a new directory.  A package is its files and the manifest that     *)
(* lists their hashes, each as the data set it belongs to.  A source       *)
(* directory may be replaced while it is copied; an archive is pinned by   *)
(* its digest and unpacked privately, so that it cannot change.            *)
(***************************************************************************)
EXTENDS FiniteSets, Naturals

CONSTANTS Installers,  \* installations at work at the same time
          Targets,     \* directories that are named as --data-dir
          MaxDataSet,  \* bound on the data sets, which are numbered as they are made
          NoData       \* a directory that does not exist

DataSets == 1..MaxDataSet

VARIABLES source,    \* the data set that the source directory holds
          data,      \* the package in each target, or NoData
          inst       \* what each installer does

installVars == <<source, data, inst>>

NotInstalling == [pc |-> "idle"]
Packages == [files : DataSets, manifest : DataSets]

\* validate_dataset_directory: every listed hash is the hash of the file.
Whole(package) == package.files = package.manifest

InstallInit ==
    /\ source = 1
    /\ data = [t \in Targets |-> NoData]
    /\ inst = [i \in Installers |-> NotInstalling]

InstallGoesOn(i, record) == inst' = [inst EXCEPT ![i] = record]

\* main: the target is absent, and the source is valid as it is now.
BeginCopy(i, t) ==
    /\ inst[i] = NotInstalling
    /\ data[t] = NoData
    /\ InstallGoesOn(i, [pc |-> "copy_files", target |-> t])
    /\ UNCHANGED <<source, data>>

\* An archive: what is unpacked is copied as a whole.
UnpackArchive(i, t, d) ==
    /\ inst[i] = NotInstalling
    /\ data[t] = NoData
    /\ InstallGoesOn(i, [pc |-> "validate", target |-> t,
                         staged |-> [files |-> d, manifest |-> d]])
    /\ UNCHANGED <<source, data>>

\* _copy_required copies one file after the other, the manifest last.
CopyFiles(i) ==
    /\ inst[i].pc = "copy_files"
    /\ InstallGoesOn(i, [pc |-> "copy_manifest", target |-> inst[i].target, files |-> source])
    /\ UNCHANGED <<source, data>>

CopyManifest(i) ==
    /\ inst[i].pc = "copy_manifest"
    /\ InstallGoesOn(i, [pc |-> "validate", target |-> inst[i].target,
                         staged |-> [files |-> inst[i].files, manifest |-> source]])
    /\ UNCHANGED <<source, data>>

\* Faulty variant: only the source was validated, before it was copied.
ValidateStagedNot(i) ==
    /\ inst[i].pc = "validate"
    /\ InstallGoesOn(i, [pc |-> "check", target |-> inst[i].target, staged |-> inst[i].staged])
    /\ UNCHANGED <<source, data>>

\* The copy is validated again ...
ValidateStaged(i) ==
    /\ inst[i].pc = "validate"
    /\ Whole(inst[i].staged)
    /\ InstallGoesOn(i, [pc |-> "check", target |-> inst[i].target, staged |-> inst[i].staged])
    /\ UNCHANGED <<source, data>>

\* ... and renamed if the target is still absent: _install_atomically looks first ...
CheckAbsent(i) ==
    /\ inst[i].pc = "check"
    /\ data[inst[i].target] = NoData
    /\ InstallGoesOn(i, [pc |-> "rename", target |-> inst[i].target, staged |-> inst[i].staged])
    /\ UNCHANGED <<source, data>>

\* ... and the rename fails on a directory that another installer has put there since.
RenameIntoPlace(i) ==
    /\ inst[i].pc = "rename"
    /\ data[inst[i].target] = NoData
    /\ data' = [data EXCEPT ![inst[i].target] = inst[i].staged]
    /\ InstallGoesOn(i, NotInstalling)
    /\ UNCHANGED source

\* An installer fails or dies; what it staged is removed or left under a hidden name.
GiveUpInstall(i) ==
    /\ inst[i] # NotInstalling
    /\ InstallGoesOn(i, NotInstalling)
    /\ UNCHANGED <<source, data>>

\* Somebody replaces the contents of the source directory by the next data set.
ReplaceSource ==
    /\ source < MaxDataSet
    /\ source' = source + 1
    /\ UNCHANGED <<data, inst>>

InstallNext ==
    \/ \E i \in Installers :
          \/ \E t \in Targets : BeginCopy(i, t) \/ \E d \in DataSets : UnpackArchive(i, t, d)
          \/ CopyFiles(i) \/ CopyManifest(i) \/ ValidateStaged(i) \/ CheckAbsent(i)
          \/ RenameIntoPlace(i) \/ GiveUpInstall(i)
    \/ ReplaceSource

\* A data directory appears at once, with a whole package, and is never touched again,
\* whatever happens to the source and to other installers of the same directory
\* (scripts/download_dataset.py _install_atomically tests and renames in two steps).
InstalledWhole ==
    [][\A t \in Targets : data'[t] # data[t] => data[t] = NoData /\ Whole(data'[t])]_installVars
===========================================================================
