------------------------- MODULE ReleasePipeline -------------------------
(***************************************************************************)
(* The release directory together with the data directories that builds    *)
(* read: a release is built from an installed data set.  The two share no  *)
(* file but the data directories, which never change once they are there;  *)
(* so installations come before the first build here.                      *)
(***************************************************************************)
EXTENDS ReleaseStore, DatasetInstall

pipelineVars == <<vars, installVars>>

PipelineInit == Init /\ InstallInit

\* scripts/build_all.py reads --data-dir and binds the hashes of its files.
Installed(id) == \E t \in Targets : data[t] # NoData /\ data[t].manifest = id.dataset

BuildInstalled(j, id) ==
    /\ Installed(id)
    /\ \A i \in Installers : inst[i] = NotInstalling
    /\ Build(j, id)

InstallStep ==
    /\ \A j \in Slots : job[j] = Idle
    /\ \A id \in Identities : dirs[id] = None
    /\ InstallNext
    /\ UNCHANGED vars

StoreStep ==
    /\ \/ \E j \in Slots, id \in Identities : BuildInstalled(j, id)
       \/ \E j \in Slots : JobStep(j)
       \/ Disturbance
    /\ UNCHANGED installVars

PipelineNext == InstallStep \/ StoreStep

PipelineSpec == PipelineInit /\ [][PipelineNext]_pipelineVars
===========================================================================
