-------------------------- MODULE ChildSetupProofs --------------------------
(***************************************************************************)
(* Proofs about ChildSetup, for both profiles, with or without a shared    *)
(* "/" mount, and whatever the kernel refuses and whenever the parent      *)
(* kills the child.                                                        *)
(*                                                                         *)
(* The argument is positional: a call's effect holds at every pc that can  *)
(* only be reached through it (Progress), and a right is still there at    *)
(* every pc from which a call that needs it can be reached (Rights).  From *)
(* the two together follows that no call of a healthy host fails, that a   *)
(* running program is confined, and that the clean-up after a failed       *)
(* set-up finds the jail unmounted or out of its sight, or its unmount was *)
(* refused.                                                                *)
(***************************************************************************)
EXTENDS ChildSetup, TLAPS

(***************************************************************************)
(* The pcs that follow a call on the path of the Run profile.              *)
(***************************************************************************)
AfterSetUid    == {"verify", "execve", "running"}
AfterSetGid    == {"setresuid"} \cup AfterSetUid
AfterSetGroups == {"setresgid"} \cup AfterSetGid
AfterSeccomp   == {"setgroups"} \cup AfterSetGroups
AfterSeal      == {"workdir", "seccomp"} \cup AfterSeccomp
AfterDetach    == {"seal"} \cup AfterSeal
AfterPivot     == {"cwd", "detach"} \cup AfterDetach
AfterWorkspace == {"pivot"} \cup AfterPivot
AfterProc      == {"workspace"} \cup AfterWorkspace
AfterDev       == {"mknod", "proc"} \cup AfterProc
AfterRemount   == {"dev"} \cup AfterDev
AfterBind      == {"remount"} \cup AfterRemount
AfterRoot      == {"bind"} \cup AfterBind
AfterPrivate   == {"mkroot", "root"} \cup AfterRoot
AfterMnt       == {"private"} \cup AfterPrivate
AfterNet       == {"unshare_mnt"} \cup AfterMnt
Ending         == {"umount", "remove", "failed", "dead"}

\* What the calls behind a child of the Run profile have achieved.
Progress == profile = "Run" =>
    /\ pc \in AfterNet => "net" \in ns
    /\ pc \in AfterMnt => "mnt" \in ns
    /\ pc \in AfterPrivate => private
    /\ pc \in AfterRoot => "root" \in mounts
    /\ pc \in AfterBind => "bind" \in mounts
    /\ pc \in AfterRemount => readonly
    /\ pc \in AfterDev => "dev" \in mounts
    /\ pc \in AfterProc => "proc" \in mounts
    /\ pc \in AfterWorkspace => "workspace" \in mounts
    /\ pc \in AfterPivot => pivoted
    /\ pc \in AfterDetach => (oldroot => "detach" \in ignored)
    /\ pc \in AfterSeal => (~sealed => "seal" \in ignored)
    /\ pc \in AfterSeccomp => filter
    /\ pc \in AfterSetGroups => "groups" \notin ids
    /\ pc \in AfterSetGid => "gid" \notin ids
    /\ pc \in AfterSetUid => "uid" \notin ids

\* A child of the Compile profile takes the short path and gives nothing away.
ShortPath == profile = "Compile" =>
    pc \in {"unborn", "dup", "limits", "workdir", "execve", "running", "failed", "dead"}

\* The filter and the loss of the uid come after everything they would forbid.
Rights ==
    /\ filter => pivoted /\ pc \in AfterSeccomp \cup Ending
    /\ "uid" \notin ids => pivoted /\ pc \in AfterSetUid \cup Ending

\* A set-up that ends before its program runs was refused something; when the
\* jail is removed it is no longer mounted, or not under that path, or the unmount
\* was refused.
Endings ==
    /\ pc \in {"umount", "remove", "failed"} => refused
    /\ pc = "remove" => (pivoted \/ mounts = {} \/ "umount" \in ignored)

\* The two processes: nothing happens before the fork or after the clean-up began.
Lifetimes ==
    /\ parent = "fork" => pc = "unborn"
    /\ parent \in {"cleanup", "done"} => pc = "dead"
    /\ jail => profile = "Run"
    /\ parent = "done" => ~jail

SetupInv == TypeOK /\ Progress /\ ShortPath /\ Rights /\ Endings /\ Lifetimes /\ HostUntouched

\* Before the fork the child has achieved nothing and given nothing away.
LEMMA InitSetupInv == Init => SetupInv
  BY SetupAssumption DEF Init, SetupInv, TypeOK, Setup, Mounts, Progress, ShortPath, Rights, Endings, Lifetimes,
     HostUntouched, AfterNet, AfterMnt, AfterPrivate, AfterRoot, AfterBind, AfterRemount, AfterDev,
     AfterProc, AfterWorkspace, AfterPivot, AfterDetach, AfterSeal, AfterSeccomp, AfterSetGroups, AfterSetGid,
     AfterSetUid, Ending

(***************************************************************************)
(* Calls.                                                                  *)
(***************************************************************************)
\* No right that a call of the set-up needs has been given away when it is made:
\* the reason why a healthy host fails no job.
LEMMA CallsPermitted ==
    ASSUME SetupInv
    PROVE  /\ \A call \in {"dup2", "setrlimit", "chdir", "mkdir", "prctl", "execve"} :
                 Permitted(call)
           /\ pc \in Setup \ AfterSeccomp => \A call : Permitted(call)
           /\ pc \in Setup \ AfterSetUid =>
                 \A call \in {"setgroups", "setresgid", "setresuid"} : Permitted(call)
<1>1. pc \in Setup \ AfterSeccomp => ~filter
  BY DEF SetupInv, Rights, Setup, Ending
<1>2. pc \in Setup \ AfterSetUid => "uid" \in ids
  BY DEF SetupInv, Rights, Setup, Ending
<1>3. AfterSetUid \subseteq AfterSeccomp
  BY DEF AfterSeccomp, AfterSetGroups, AfterSetGid
<1> QED BY <1>1, <1>2, <1>3 DEF Permitted, Blocked, NeedsRoot

\* A refused call keeps the invariant: the set-up is on its way out, refused.
LEMMA FailsKeepsInv ==
    ASSUME SetupInv, NEW at \in Setup, NEW call, Fails(at, call), Permitted(call)
    PROVE  SetupInv'
<1>1. refused' = TRUE
  BY Zenon DEF Fails
<1>2. /\ pc = at /\ pc' \in {"umount", "failed"} /\ (profile = "Compile" => pc' = "failed")
      /\ UNCHANGED <<given, parent, tree, creds, host>>
  BY DEF Fails, Abort
<1>3. parent \notin {"fork", "cleanup", "done"}
  BY <1>2 DEF SetupInv, Lifetimes, Setup
<1> QED
  BY <1>1, <1>2, <1>3 DEF given, tree, unchecked, creds, host, SetupInv, TypeOK, Setup, Mounts, Progress, ShortPath, Rights, Endings, Lifetimes,
     HostUntouched,
     AfterNet, AfterMnt, AfterPrivate, AfterRoot, AfterBind, AfterRemount, AfterDev,
     AfterProc, AfterWorkspace, AfterPivot, AfterDetach, AfterSeal, AfterSeccomp, AfterSetGroups, AfterSetGid,
     AfterSetUid, Ending

\* A kill keeps the invariant, wherever it finds the child: its mounts go with it.
LEMMA KillKeepsInv ==
    ASSUME SetupInv, KillChild, parent \in {"attach", "supervise"},
           parent' \in {"supervise", "error", "cancelled"}
    PROVE  SetupInv'
<1>1. CASE Alive
  <2>1. /\ pc' = "dead" /\ mounts' = {}
        /\ UNCHANGED <<given, refused, ns, private, readonly, spread, pivoted, unchecked,
                       creds, host>>
    BY <1>1 DEF KillChild, Ends
  <2> QED
    BY <2>1 DEF given, unchecked, creds, host, SetupInv, TypeOK, Setup, Mounts, Progress, ShortPath, Rights, Endings, Lifetimes,
     HostUntouched,
     AfterNet, AfterMnt, AfterPrivate, AfterRoot, AfterBind, AfterRemount, AfterDev,
     AfterProc, AfterWorkspace, AfterPivot, AfterDetach, AfterSeal, AfterSeccomp, AfterSetGroups, AfterSetGid,
     AfterSetUid, Ending
<1>2. CASE ~Alive
  <2>1. UNCHANGED <<given, pc, refused, tree, creds, host>>
    BY <1>2 DEF KillChild, given, tree, unchecked, creds, host
  <2> QED
    BY <2>1 DEF given, tree, unchecked, creds, host, SetupInv, TypeOK, Setup, Mounts, Progress, ShortPath, Rights, Endings, Lifetimes,
     HostUntouched,
     AfterNet, AfterMnt, AfterPrivate, AfterRoot, AfterBind, AfterRemount, AfterDev,
     AfterProc, AfterWorkspace, AfterPivot, AfterDetach, AfterSeal, AfterSeccomp, AfterSetGroups, AfterSetGid,
     AfterSetUid, Ending
<1> QED BY <1>1, <1>2

(***************************************************************************)
(* Steps.                                                                  *)
(***************************************************************************)
\* Every step of the child and of the parent keeps the invariant.
LEMMA NextSetupInv == SetupInv /\ [Next]_vars => SetupInv'
<1> SUFFICES ASSUME SetupInv, [Next]_vars PROVE SetupInv'
  OBVIOUS
<1>0. /\ \A call \in {"dup2", "setrlimit", "chdir", "mkdir", "prctl", "execve"} : Permitted(call)
      /\ pc \in Setup \ AfterSeccomp => \A call : Permitted(call)
      /\ pc \in Setup \ AfterSetUid =>
            \A call \in {"setgroups", "setresgid", "setresuid"} : Permitted(call)
  BY CallsPermitted
<1> USE DEF given, tree, unchecked, creds, host, SetupInv, TypeOK, Setup, Mounts, Progress, ShortPath, Rights, Endings,
        Lifetimes, HostUntouched, AfterNet, AfterMnt, AfterPrivate, AfterRoot, AfterBind, AfterRemount, AfterDev,
        AfterProc, AfterWorkspace, AfterPivot, AfterDetach, AfterSeal, AfterSeccomp, AfterSetGroups, AfterSetGid,
        AfterSetUid, Ending
<1>1. ASSUME DupPipes PROVE SetupInv'
  <2>1. CASE Goes("dup", "dup2", "limits") /\ UNCHANGED <<tree, creds, host>>
    BY <1>0, <2>1 DEF Goes
  <2>2. CASE Fails("dup", "dup2")
    BY <1>0, <2>2, FailsKeepsInv DEF Fails
  <2> QED BY <1>1, <2>1, <2>2 DEF DupPipes
<1>2. ASSUME ApplyLimits PROVE SetupInv'
  <2>1. CASE /\ Goes("limits", "setrlimit", IF profile = "Run" THEN "unshare_net" ELSE "workdir")
             /\ UNCHANGED <<tree, creds, host>>
    BY <1>0, <2>1 DEF Goes
  <2>2. CASE Fails("limits", "setrlimit")
    BY <1>0, <2>2, FailsKeepsInv DEF Fails
  <2> QED BY <1>2, <2>1, <2>2 DEF ApplyLimits
<1>3. ASSUME UnshareNet PROVE SetupInv'
  <2>1. CASE /\ Goes("unshare_net", "unshare", "unshare_mnt")
             /\ ns' = ns \cup {"net"}
             /\ UNCHANGED <<private, mounts, readonly, spread, pivoted, unchecked, creds, host>>
    BY <1>0, <2>1 DEF Goes
  <2>2. CASE Fails("unshare_net", "unshare")
    BY <1>0, <2>2, FailsKeepsInv DEF Fails
  <2> QED BY <1>3, <2>1, <2>2 DEF UnshareNet
<1>4. ASSUME UnshareMnt PROVE SetupInv'
  <2>1. CASE /\ Goes("unshare_mnt", "unshare", "private")
             /\ ns' = ns \cup {"mnt"}
             /\ UNCHANGED <<private, mounts, readonly, spread, pivoted, unchecked, creds, host>>
    BY <1>0, <2>1 DEF Goes
  <2>2. CASE Fails("unshare_mnt", "unshare")
    BY <1>0, <2>2, FailsKeepsInv DEF Fails
  <2> QED BY <1>4, <2>1, <2>2 DEF UnshareMnt
<1>5. ASSUME MakeRootPrivate PROVE SetupInv'
  <2>1. CASE /\ Goes("private", "mount", "mkroot")
             /\ private' = TRUE
             /\ UNCHANGED <<ns, mounts, readonly, spread, pivoted, unchecked, creds, host>>
    BY <1>0, <2>1 DEF Goes
  <2>2. CASE Fails("private", "mount")
    BY <1>0, <2>2, FailsKeepsInv DEF Fails
  <2> QED BY <1>5, <2>1, <2>2 DEF MakeRootPrivate
<1>6. ASSUME CreateEphemeralRoot PROVE SetupInv'
  <2>1. CASE /\ Goes("mkroot", "mkdir", "root")
             /\ jail' = TRUE
             /\ UNCHANGED <<tree, creds, work>>
    BY <1>0, <2>1 DEF Goes
  <2>2. CASE Fails("mkroot", "mkdir")
    BY <1>0, <2>2, FailsKeepsInv DEF Fails
  <2>3. CASE /\ Goes("root", "mount", "bind")
             /\ Mount("root")
             /\ UNCHANGED <<ns, private, readonly, pivoted, unchecked, creds, host>>
    BY <1>0, <2>3 DEF Goes, Mount
  <2>4. CASE Fails("root", "mount")
    BY <1>0, <2>4, FailsKeepsInv DEF Fails
  <2> QED BY <1>6, <2>1, <2>2, <2>3, <2>4 DEF CreateEphemeralRoot
<1>7. ASSUME SetupReadonlyMounts PROVE SetupInv'
  <2>1. CASE /\ Goes("bind", "mount", "remount")
             /\ Mount("bind")
             /\ UNCHANGED <<ns, private, readonly, pivoted, unchecked, creds, host>>
    BY <1>0, <2>1 DEF Goes, Mount
  <2>2. CASE Fails("bind", "mount")
    BY <1>0, <2>2, FailsKeepsInv DEF Fails
  <2>3. CASE /\ Goes("remount", "mount", "dev")
             /\ readonly' = TRUE
             /\ UNCHANGED <<ns, private, mounts, spread, pivoted, unchecked, creds, host>>
    BY <1>0, <2>3 DEF Goes
  <2>4. CASE Fails("remount", "mount")
    BY <1>0, <2>4, FailsKeepsInv DEF Fails
  <2> QED BY <1>7, <2>1, <2>2, <2>3, <2>4 DEF SetupReadonlyMounts
<1>8. ASSUME SetupDev PROVE SetupInv'
  <2>1. CASE /\ Goes("dev", "mount", "mknod")
             /\ Mount("dev")
             /\ UNCHANGED <<ns, private, readonly, pivoted, unchecked, creds, host>>
    BY <1>0, <2>1 DEF Goes, Mount
  <2>2. CASE Fails("dev", "mount")
    BY <1>0, <2>2, FailsKeepsInv DEF Fails
  <2>3. CASE Goes("mknod", "mknod", "proc") /\ UNCHANGED <<tree, creds, host>>
    BY <1>0, <2>3 DEF Goes
  <2>4. CASE Fails("mknod", "mknod")
    BY <1>0, <2>4, FailsKeepsInv DEF Fails
  <2> QED BY <1>8, <2>1, <2>2, <2>3, <2>4 DEF SetupDev
<1>9. ASSUME SetupProc PROVE SetupInv'
  <2>1. CASE /\ Goes("proc", "mount", "workspace")
             /\ Mount("proc")
             /\ UNCHANGED <<ns, private, readonly, pivoted, unchecked, creds, host>>
    BY <1>0, <2>1 DEF Goes, Mount
  <2>2. CASE Fails("proc", "mount")
    BY <1>0, <2>2, FailsKeepsInv DEF Fails
  <2> QED BY <1>9, <2>1, <2>2 DEF SetupProc
<1>10. ASSUME SetupWorkspace PROVE SetupInv'
  <2>1. CASE /\ Goes("workspace", "mount", "pivot")
             /\ Mount("workspace")
             /\ UNCHANGED <<ns, private, readonly, pivoted, unchecked, creds, host>>
    BY <1>0, <2>1 DEF Goes, Mount
  <2>2. CASE Fails("workspace", "mount")
    BY <1>0, <2>2, FailsKeepsInv DEF Fails
  <2> QED BY <1>10, <2>1, <2>2 DEF SetupWorkspace
<1>11. ASSUME PivotIntoNewRoot PROVE SetupInv'
  <2>1. CASE /\ Goes("pivot", "pivot_root", "cwd")
             /\ pivoted' = TRUE /\ oldroot' = TRUE
             /\ UNCHANGED <<ns, private, mounts, readonly, spread, sealed, ignored, creds, host>>
    BY <1>0, <2>1 DEF Goes
  <2>2. CASE Fails("pivot", "pivot_root")
    BY <1>0, <2>2, FailsKeepsInv DEF Fails
  <2>3. CASE Goes("cwd", "chdir", "detach") /\ UNCHANGED <<tree, creds, host>>
    BY <1>0, <2>3 DEF Goes
  <2>4. CASE Fails("cwd", "chdir")
    BY <1>0, <2>4, FailsKeepsInv DEF Fails
  <2>5. CASE /\ pc = "detach" /\ pc' = "seal"
             /\ \/ Permitted("umount2") /\ oldroot' = FALSE /\ UNCHANGED ignored
                \/ UNCHANGED oldroot /\ ignored' = ignored \cup {"detach"}
             /\ UNCHANGED <<given, parent, refused, ns, private, mounts, readonly, spread,
                            pivoted, sealed, creds, host>>
    <3>1. /\ oldroot' \in BOOLEAN /\ (oldroot' => "detach" \in ignored')
          /\ ignored' \in {ignored, ignored \cup {"detach"}}
      BY <2>5, Zenon
    <3> QED BY <2>5, <3>1
  <2>6. CASE /\ pc = "seal" /\ pc' = "workdir"
             /\ \/ Permitted("mount") /\ sealed' = TRUE /\ UNCHANGED ignored
                \/ UNCHANGED sealed /\ ignored' = ignored \cup {"seal"}
             /\ UNCHANGED <<given, parent, refused, ns, private, mounts, readonly, spread,
                            pivoted, oldroot, creds, host>>
    <3>1. /\ sealed' \in BOOLEAN /\ (~sealed' => "seal" \in ignored')
          /\ ignored' \in {ignored, ignored \cup {"seal"}}
      BY <2>6, Zenon
    <3> QED BY <2>6, <3>1
  <2> QED BY <1>11, <2>1, <2>2, <2>3, <2>4, <2>5, <2>6 DEF PivotIntoNewRoot
<1>12. ASSUME ChangeDir PROVE SetupInv'
  <2>1. CASE /\ Goes("workdir", "chdir", IF profile = "Run" THEN "seccomp" ELSE "execve")
             /\ UNCHANGED <<tree, creds, host>>
    BY <1>0, <2>1 DEF Goes
  <2>2. CASE Fails("workdir", "chdir")
    BY <1>0, <2>2, FailsKeepsInv DEF Fails
  <2> QED BY <1>12, <2>1, <2>2 DEF ChangeDir
<1>13. ASSUME InstallSeccomp PROVE SetupInv'
  <2>1. CASE /\ Goes("seccomp", "prctl", "setgroups")
             /\ filter' = TRUE
             /\ UNCHANGED <<tree, ids, host>>
    BY <1>0, <2>1 DEF Goes
  <2>2. CASE Fails("seccomp", "prctl")
    BY <1>0, <2>2, FailsKeepsInv DEF Fails
  <2> QED BY <1>13, <2>1, <2>2 DEF InstallSeccomp
<1>14. ASSUME SetGroups PROVE SetupInv'
  <2>1. CASE /\ Goes("setgroups", "setgroups", "setresgid")
             /\ ids' = ids \ {"groups"}
             /\ UNCHANGED <<tree, filter, host>>
    BY <1>0, <2>1 DEF Goes
  <2>2. CASE Fails("setgroups", "setgroups")
    BY <1>0, <2>2, FailsKeepsInv DEF Fails
  <2> QED BY <1>14, <2>1, <2>2 DEF SetGroups
<1>15. ASSUME SetGid PROVE SetupInv'
  <2>1. CASE /\ Goes("setresgid", "setresgid", "setresuid")
             /\ ids' = ids \ {"gid"}
             /\ UNCHANGED <<tree, filter, host>>
    BY <1>0, <2>1 DEF Goes
  <2>2. CASE Fails("setresgid", "setresgid")
    BY <1>0, <2>2, FailsKeepsInv DEF Fails
  <2> QED BY <1>15, <2>1, <2>2 DEF SetGid
<1>16. ASSUME SetUid PROVE SetupInv'
  <2>1. CASE /\ Goes("setresuid", "setresuid", "verify")
             /\ ids' = ids \ {"uid"}
             /\ UNCHANGED <<tree, filter, host>>
    BY <1>0, <2>1 DEF Goes
  <2>2. CASE Fails("setresuid", "setresuid")
    BY <1>0, <2>2, FailsKeepsInv DEF Fails
  <2> QED BY <1>16, <2>1, <2>2 DEF SetUid
<1>17. ASSUME Execve PROVE SetupInv'
  <2>1. CASE Goes("execve", "execve", "running") /\ UNCHANGED <<tree, creds, host>>
    BY <1>0, <2>1 DEF Goes
  <2>2. CASE Fails("execve", "execve")
    BY <1>0, <2>2, FailsKeepsInv DEF Fails
  <2> QED BY <1>17, <2>1, <2>2 DEF Execve
<1>18. ASSUME VerifyDrop PROVE SetupInv'
  BY <1>18 DEF VerifyDrop, Abort, Isolated
<1>19. ASSUME DropUmount PROVE SetupInv'
  <2>1. /\ pc = "umount" /\ pc' = "remove" /\ mounts' \in {mounts, {}}
        /\ ignored' \in {ignored, ignored \cup {"umount"}}
        /\ UNCHANGED <<given, parent, refused, ns, private, readonly, spread, pivoted, oldroot,
                       sealed, creds, host>>
    BY <1>19 DEF DropUmount
  <2>2. pivoted \/ mounts' = {} \/ "umount" \in ignored'
    BY <1>19 DEF DropUmount, Permitted, Blocked, NeedsRoot
  <2> QED BY <2>1, <2>2
<1>20. ASSUME DropRemove PROVE SetupInv'
  <2>1. /\ pc = "remove" /\ pc' = "failed" /\ refused
        /\ UNCHANGED <<given, parent, refused, tree, creds>>
    BY <1>20 DEF DropRemove
  <2>2. work' \in BOOLEAN /\ (work' \/ "umount" \in ignored)
    BY <1>20 DEF DropRemove
  <2>3. jail' \in BOOLEAN /\ (jail' => jail)
    BY <1>20, Zenon DEF DropRemove
  <2>4. parent \notin {"fork", "cleanup", "done"} /\ profile # "Compile"
    BY <2>1
  <2> QED BY <2>1, <2>2, <2>3, <2>4
<1>21. ASSUME Exits PROVE SetupInv'
  BY <1>21 DEF Exits, Ends
<1>22. ASSUME Fork PROVE SetupInv'
  BY <1>22 DEF Fork
<1>23. ASSUME Attach PROVE SetupInv'
  <2>1. CASE parent' = "supervise" /\ UNCHANGED <<given, pc, refused, tree, creds, host>>
    BY <1>23, <2>1 DEF Attach
  <2>2. CASE parent' = "error" /\ KillChild
    BY <1>23, <2>2, KillKeepsInv DEF Attach
  <2> QED BY <1>23, <2>1, <2>2 DEF Attach
<1>24. ASSUME Deadline PROVE SetupInv'
  BY <1>24, KillKeepsInv DEF Deadline
<1>25. ASSUME Cancel PROVE SetupInv'
  BY <1>25, KillKeepsInv DEF Cancel
<1>26. ASSUME Supervised PROVE SetupInv'
  BY <1>26 DEF Supervised
<1>27. ASSUME RemoveJail PROVE SetupInv'
  <2>1. jail' = FALSE
    BY <1>27, Zenon DEF RemoveJail
  <2> QED BY <1>27, <2>1 DEF RemoveJail
<1>28. ASSUME UNCHANGED vars PROVE SetupInv'
  BY <1>28 DEF vars
<1> QED
  BY <1>1, <1>2, <1>3, <1>4, <1>5, <1>6, <1>7, <1>8, <1>9, <1>10, <1>11, <1>12, <1>13, <1>14,
     <1>15, <1>16, <1>17, <1>18, <1>19, <1>20, <1>21, <1>22, <1>23, <1>24, <1>25, <1>26, <1>27, <1>28 DEF Next, Child

\* The invariant holds in every reachable state.
LEMMA SetupInvHolds == Spec => []SetupInv
BY InitSetupInv, NextSetupInv, PTL DEF Spec

(***************************************************************************)
(* The properties.                                                         *)
(***************************************************************************)
\* Every variable keeps its type, whatever the kernel refuses.
THEOREM SetupTypeCorrect == Spec => []TypeOK
<1>1. SetupInv => TypeOK
  BY DEF SetupInv
<1> QED BY <1>1, SetupInvHolds, PTL

\* A program of the Run profile never runs outside its confinement (child.rs 144, 152),
\* however the kernel refused calls on the way; the host's tree is in sight, or "/"
\* writable, only when the unchecked call that would have changed it was refused.
THEOREM SetupFailsClosed == Spec => []RunsConfined
<1>1. SetupInv => RunsConfined
  BY DEF SetupInv, TypeOK, Progress, RunsConfined, Mounts, AfterNet, AfterMnt, AfterPrivate,
     AfterRoot, AfterBind, AfterRemount, AfterDev, AfterProc, AfterWorkspace, AfterPivot,
     AfterDetach, AfterSeal, AfterSeccomp, AfterSetGroups, AfterSetGid, AfterSetUid
<1> QED BY <1>1, SetupInvHolds, PTL

\* A child fails only when the kernel refused a call that it could have granted
\* (child.rs 241): no order of the calls gives away a right too early.
THEOREM SetupOrderIsSound == Spec => []FailsOnlyIfRefused
<1>1. SetupInv => FailsOnlyIfRefused
  BY DEF SetupInv, Endings, FailsOnlyIfRefused
<1> QED BY <1>1, SetupInvHolds, PTL

\* No mount reaches the host, and the submission's workspace survives every way in
\* which a set-up can end (fs.rs 44 and the Drop of FsIsolation), unless the Drop's
\* unmount was refused after a call of set-up was.
THEOREM SetupLeavesHostAlone == Spec => []HostUntouched
<1>1. SetupInv => HostUntouched
  BY DEF SetupInv
<1> QED BY <1>1, SetupInvHolds, PTL

\* When execute returns, no jail directory is left behind (mod.rs 156).
THEOREM SetupRemovesJail == Spec => []JailIsRemoved
<1>1. SetupInv => JailIsRemoved
  BY DEF SetupInv, Lifetimes, JailIsRemoved
<1> QED BY <1>1, SetupInvHolds, PTL
=============================================================================
