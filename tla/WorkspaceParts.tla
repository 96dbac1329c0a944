--------------------------- MODULE WorkspaceParts ---------------------------
(***************************************************************************)
(* What a turn does to the workspace and to its own record of the work:    *)
(* checkpoints, patches, edits of a file, evidence and tasks, the          *)
(* processes of a command, the sandbox they may run in and what it gives   *)
(* back. And what is made of turns afterwards: their recording for         *)
(* training, the observations of their requests and spans, evaluations and *)
(* campaigns, the bundles of their results and the failures found in them, *)
(* side by side for one run. The part that moves is chosen at the          *)
(* beginning, the others rest in one of their initial states. The parts    *)
(* share no variable, so a step of one changes nothing that another one's  *)
(* properties speak of.                                                    *)
(***************************************************************************)
EXTENDS Checkpoints, Patches, FileEdits, Evidence, Tasks, Processes, Writeback, Sandboxes,
        Recording, Observations, Evaluations, Campaign, Bundles, Failures

VARIABLE part   \* the part that moves

Parts == {"checkpoints", "patches", "edits", "evidence", "tasks", "processes",
          "writeback", "sandbox", "recording", "observations", "evaluations", "campaign",
          "bundles", "failures"}

\* What an initial state may choose is chosen for the part that moves only.
PartsInit ==
  /\ part \in Parts
  /\ IF part = "checkpoints" THEN CkInit
     ELSE /\ files = [f \in Files |-> "absent"]
          /\ CkInit
  /\ IF part = "patches" THEN PatchInit
     ELSE /\ disk = [p \in Paths |-> IF p = "old" THEN NoSuchFile ELSE <<CHOOSE x \in Lines : x # NoText>>]
          /\ patch = CHOOSE p \in [form : {"envelope"}, ops : PatchForms] : TRUE
          /\ PatchInit
  /\ IF part = "edits" THEN EditInit
     ELSE /\ target = NoFile
          /\ parent = "missing"
          /\ json = FALSE
          /\ symlinks = FALSE
          /\ EditInit
  /\ EvInit
  /\ TaskInit
  /\ IF part = "processes" THEN ProcInit
     ELSE /\ owned = FALSE
          /\ ProcInit
  /\ IF part = "writeback" THEN WbInit
     ELSE /\ host = [n \in Names |-> Nowhere]
          /\ WbInit
  /\ SandboxInit
  /\ RecInit
  /\ IF part = "observations" THEN ObsInit
     ELSE /\ collector = CHOOSE c \in Collectors : TRUE
          /\ ObsInit
  /\ EvalInit
  /\ CampInit
  /\ BundleInit
  /\ FailureInit

PartsNext ==
  /\ UNCHANGED part
  /\ \/ part = "checkpoints"
        /\ UNCHANGED <<patch_vars, edit_vars, ev_vars, task_vars, proc_vars, wb_vars,
                        sandbox_vars, rec_vars, obs_vars, eval_vars, camp_vars, bundle_vars,
                        failure_vars>>
        /\ CkNext
     \/ part = "patches"
        /\ UNCHANGED <<ck_vars, edit_vars, ev_vars, task_vars, proc_vars, wb_vars, sandbox_vars,
                        rec_vars, obs_vars, eval_vars, camp_vars, bundle_vars, failure_vars>>
        /\ PatchNext
     \/ part = "edits"
        /\ UNCHANGED <<ck_vars, patch_vars, ev_vars, task_vars, proc_vars, wb_vars,
                        sandbox_vars, rec_vars, obs_vars, eval_vars, camp_vars, bundle_vars,
                        failure_vars>>
        /\ EditNext
     \/ part = "evidence"
        /\ UNCHANGED <<ck_vars, patch_vars, edit_vars, task_vars, proc_vars, wb_vars,
                        sandbox_vars, rec_vars, obs_vars, eval_vars, camp_vars, bundle_vars,
                        failure_vars>>
        /\ EvNext
     \/ part = "tasks"
        /\ UNCHANGED <<ck_vars, patch_vars, edit_vars, ev_vars, proc_vars, wb_vars,
                        sandbox_vars, rec_vars, obs_vars, eval_vars, camp_vars, bundle_vars,
                        failure_vars>>
        /\ TaskNext
     \/ part = "processes"
        /\ UNCHANGED <<ck_vars, patch_vars, edit_vars, ev_vars, task_vars, wb_vars,
                        sandbox_vars, rec_vars, obs_vars, eval_vars, camp_vars, bundle_vars,
                        failure_vars>>
        /\ ProcNext
     \/ part = "writeback"
        /\ UNCHANGED <<ck_vars, patch_vars, edit_vars, ev_vars, task_vars, proc_vars,
                        sandbox_vars, rec_vars, obs_vars, eval_vars, camp_vars, bundle_vars,
                        failure_vars>>
        /\ WbNext
     \/ part = "sandbox"
        /\ UNCHANGED <<ck_vars, patch_vars, edit_vars, ev_vars, task_vars, proc_vars, wb_vars,
                        rec_vars, obs_vars, eval_vars, camp_vars, bundle_vars, failure_vars>>
        /\ SandboxNext
     \/ part = "recording"
        /\ UNCHANGED <<ck_vars, patch_vars, edit_vars, ev_vars, task_vars, proc_vars, wb_vars,
                        sandbox_vars, obs_vars, eval_vars, camp_vars, bundle_vars,
                        failure_vars>>
        /\ RecNext
     \/ part = "observations"
        /\ UNCHANGED <<ck_vars, patch_vars, edit_vars, ev_vars, task_vars, proc_vars, wb_vars,
                        sandbox_vars, rec_vars, eval_vars, camp_vars, bundle_vars,
                        failure_vars>>
        /\ ObsNext
     \/ part = "evaluations"
        /\ UNCHANGED <<ck_vars, patch_vars, edit_vars, ev_vars, task_vars, proc_vars, wb_vars,
                        sandbox_vars, rec_vars, obs_vars, camp_vars, bundle_vars, failure_vars>>
        /\ EvalNext
     \/ part = "campaign"
        /\ UNCHANGED <<ck_vars, patch_vars, edit_vars, ev_vars, task_vars, proc_vars, wb_vars,
                        sandbox_vars, rec_vars, obs_vars, eval_vars, bundle_vars, failure_vars>>
        /\ CampNext
     \/ part = "bundles"
        /\ UNCHANGED <<ck_vars, patch_vars, edit_vars, ev_vars, task_vars, proc_vars, wb_vars,
                        sandbox_vars, rec_vars, obs_vars, eval_vars, camp_vars, failure_vars>>
        /\ BundleNext
     \/ part = "failures"
        /\ UNCHANGED <<ck_vars, patch_vars, edit_vars, ev_vars, task_vars, proc_vars, wb_vars,
                        sandbox_vars, rec_vars, obs_vars, eval_vars, camp_vars, bundle_vars>>
        /\ FailureNext

parts_vars == <<part, ck_vars, patch_vars, edit_vars, ev_vars, task_vars, proc_vars,
                wb_vars, sandbox_vars, rec_vars, obs_vars, eval_vars, camp_vars,
                bundle_vars, failure_vars>>

PartsSpec == PartsInit /\ [][PartsNext]_parts_vars
=============================================================================
