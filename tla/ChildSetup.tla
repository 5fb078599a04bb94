----------------------------- MODULE ChildSetup -----------------------------
(***************************************************************************)
(* What one forked child does between fork and execve                      *)
(* (setup_child_process in src/src/sandbox/child.rs, FsIsolation::setup in *)
(* fs.rs, SeccompProfile::install in seccomp.rs), beside the parent that   *)
(* attaches, kills and cleans up after it (mod.rs).  Every system call     *)
(* that matters is one step: the kernel may refuse it, it fails when the   *)
(* child has given away the right to make it, and the parent may kill the  *)
(* child before or after it.                                               *)
(***************************************************************************)
EXTENDS FiniteSets

CONSTANTS
    Profiles,   \* execution profiles: subset of {"Compile", "Run"}
    Roots       \* subset of BOOLEAN: whether "/" of the container is a shared mount

ASSUME SetupAssumption == Profiles \subseteq {"Compile", "Run"} /\ Roots \subseteq BOOLEAN

VARIABLES
    profile,    \* config.profile; Run has network and filesystem isolation on
    shared,     \* mounts below "/" propagate to the host unless made private
    parent,     \* where Sandbox::execute is
    pc,         \* the child's next call
    refused,    \* the kernel refused a call it could have granted, and set-up noticed
    ns,         \* namespaces of its own: "net" (with IPC), "mnt"
    private,    \* the mount tree was made recursively private
    mounts,     \* mounts below the jail root
    readonly,   \* the bind mounts are read-only
    spread,     \* mounts that propagated to the host
    pivoted,    \* "/" is the jail root
    oldroot,    \* the host's tree is still mounted at /.old_root
    sealed,     \* "/" of the jail is read-only
    ignored,    \* refused calls whose result nobody looks at
    filter,     \* the seccomp filter is loaded
    ids,        \* what is still root's: supplementary groups, gid, uid
    jail,       \* the directory /tmp/judge_root_<jail_id> exists on the host
    work        \* the host's workspace directory has its contents

given == <<profile, shared>>
unchecked == <<oldroot, sealed, ignored>>
tree  == <<ns, private, mounts, readonly, spread, pivoted, unchecked>>
creds == <<filter, ids>>
host  == <<jail, work>>
vars  == <<given, parent, pc, refused, tree, creds, host>>

Setup == {"dup", "limits", "unshare_net", "unshare_mnt", "private", "mkroot", "root",
          "bind", "remount", "dev", "mknod", "proc", "workspace", "pivot", "cwd", "detach",
          "seal", "workdir", "seccomp", "setgroups", "setresgid", "setresuid", "verify", "execve"}
Mounts == {"root", "bind", "dev", "proc", "workspace"}

TypeOK ==
    /\ profile \in {"Compile", "Run"} /\ shared \in BOOLEAN
    /\ parent \in {"fork", "attach", "supervise", "cleanup", "done", "error", "cancelled"}
    /\ pc \in Setup \cup {"unborn", "running", "umount", "remove", "failed", "dead"}
    /\ refused \in BOOLEAN
    /\ ns \subseteq {"net", "mnt"}
    /\ private \in BOOLEAN /\ readonly \in BOOLEAN
    /\ mounts \subseteq Mounts /\ spread \subseteq Mounts
    /\ pivoted \in BOOLEAN /\ oldroot \in BOOLEAN /\ sealed \in BOOLEAN
    /\ ignored \subseteq {"detach", "seal", "umount"}
    /\ filter \in BOOLEAN
    /\ ids \subseteq {"groups", "gid", "uid"}
    /\ jail \in BOOLEAN /\ work \in BOOLEAN

Init ==
    /\ profile \in Profiles /\ shared \in Roots
    /\ parent = "fork" /\ pc = "unborn" /\ refused = FALSE
    /\ ns = {} /\ private = FALSE /\ mounts = {} /\ readonly = FALSE /\ spread = {}
    /\ pivoted = FALSE /\ oldroot = FALSE /\ sealed = FALSE /\ ignored = {}
    /\ filter = FALSE /\ ids = {"groups", "gid", "uid"}
    /\ jail = FALSE /\ work = TRUE

(***************************************************************************)
(* The kernel.                                                             *)
(***************************************************************************)
\* blocked_syscalls(), as far as set-up makes them.
Blocked == {"mount", "umount2", "pivot_root", "unshare"}
NeedsRoot == {"mount", "umount2", "pivot_root", "unshare", "mknod",
              "setgroups", "setresgid", "setresuid"}
Permitted(call) == /\ filter => call \notin Blocked
                   /\ call \in NeedsRoot => "uid" \in ids

\* Mutant: an unwrap instead of an Err.
AbortPanics == pc' = "panicked"

\* An Err returned by setup_child_process, or exit(): FsIsolation, once it
\* exists, is dropped on the way; mod.rs ends with exit(1).
Isolated == {"private", "mkroot", "root", "bind", "remount", "dev", "mknod", "proc",
             "workspace", "pivot", "cwd", "workdir", "seccomp", "setgroups", "setresgid",
             "setresuid", "verify"}
Abort == pc' = IF profile = "Run" /\ pc \in Isolated THEN "umount" ELSE "failed"

\* The call at pc fails: because it may not be made, or for the kernel's reasons.
Fails(at, call) ==
    /\ pc = at
    /\ refused' = (refused \/ Permitted(call))
    /\ Abort
    /\ UNCHANGED <<given, parent, tree, creds, host>>

\* The call at pc succeeds.
Goes(at, call, next) ==
    /\ pc = at
    /\ Permitted(call)
    /\ pc' = next
    /\ UNCHANGED <<given, parent, refused>>

\* mount(2) of m below the jail root.
Mount(m) ==
    /\ mounts' = mounts \cup {m}
    /\ spread' = IF "mnt" \in ns /\ (private \/ ~shared) THEN spread ELSE spread \cup {m}

(***************************************************************************)
(* setup_child_process, up to the filesystem.                              *)
(***************************************************************************)
\* dup2 of the three pipes (exit(1) on failure), then setpgid.
DupPipes ==
    \/ Goes("dup", "dup2", "limits") /\ UNCHANGED <<tree, creds, host>>
    \/ Fails("dup", "dup2")

\* apply_resource_limits, apply_environment_sanitization.
ApplyLimits ==
    \/ /\ Goes("limits", "setrlimit", IF profile = "Run" THEN "unshare_net" ELSE "workdir")
       /\ UNCHANGED <<tree, creds, host>>
    \/ Fails("limits", "setrlimit")

\* Mutant: a refused network namespace is only logged.
UnshareNetUnchecked ==
    \/ /\ Goes("unshare_net", "unshare", "unshare_mnt")
       /\ ns' \in {ns, ns \cup {"net"}}
       /\ UNCHANGED <<private, mounts, readonly, spread, pivoted, unchecked, creds, host>>
    \/ Fails("unshare_net", "unshare")

UnshareNet ==
    \/ /\ Goes("unshare_net", "unshare", "unshare_mnt")
       /\ ns' = ns \cup {"net"}
       /\ UNCHANGED <<private, mounts, readonly, spread, pivoted, unchecked, creds, host>>
    \/ Fails("unshare_net", "unshare")

UnshareMnt ==
    \/ /\ Goes("unshare_mnt", "unshare", "private")
       /\ ns' = ns \cup {"mnt"}
       /\ UNCHANGED <<private, mounts, readonly, spread, pivoted, unchecked, creds, host>>
    \/ Fails("unshare_mnt", "unshare")

(***************************************************************************)
(* FsIsolation::setup.                                                     *)
(***************************************************************************)
MakeRootPrivate ==
    \/ /\ Goes("private", "mount", "mkroot")
       /\ private' = TRUE
       /\ UNCHANGED <<ns, mounts, readonly, spread, pivoted, unchecked, creds, host>>
    \/ Fails("private", "mount")

\* create_ephemeral_root: the directory, then a tmpfs on it.
CreateEphemeralRoot ==
    \/ /\ Goes("mkroot", "mkdir", "root")
       /\ jail' = TRUE
       /\ UNCHANGED <<tree, creds, work>>
    \/ Fails("mkroot", "mkdir")
    \/ /\ Goes("root", "mount", "bind")
       /\ Mount("root")
       /\ UNCHANGED <<ns, private, readonly, pivoted, unchecked, creds, host>>
    \/ Fails("root", "mount")

\* setup_readonly_mounts: a bind mount ignores MS_RDONLY, so it takes two calls.
SetupReadonlyMounts ==
    \/ /\ Goes("bind", "mount", "remount")
       /\ Mount("bind")
       /\ UNCHANGED <<ns, private, readonly, pivoted, unchecked, creds, host>>
    \/ Fails("bind", "mount")
    \/ /\ Goes("remount", "mount", "dev")
       /\ readonly' = TRUE
       /\ UNCHANGED <<ns, private, mounts, spread, pivoted, unchecked, creds, host>>
    \/ Fails("remount", "mount")

SetupDev ==
    \/ /\ Goes("dev", "mount", "mknod")
       /\ Mount("dev")
       /\ UNCHANGED <<ns, private, readonly, pivoted, unchecked, creds, host>>
    \/ Fails("dev", "mount")
    \/ Goes("mknod", "mknod", "proc") /\ UNCHANGED <<tree, creds, host>>
    \/ Fails("mknod", "mknod")

SetupProc ==
    \/ /\ Goes("proc", "mount", "workspace")
       /\ Mount("proc")
       /\ UNCHANGED <<ns, private, readonly, pivoted, unchecked, creds, host>>
    \/ Fails("proc", "mount")

\* The host's workspace is bind-mounted at /sandbox, writable.
SetupWorkspace ==
    \/ /\ Goes("workspace", "mount", "pivot")
       /\ Mount("workspace")
       /\ UNCHANGED <<ns, private, readonly, pivoted, unchecked, creds, host>>
    \/ Fails("workspace", "mount")

\* pivot_into_new_root: set-up goes on whatever the detach of the old root and the
\* read-only remount of "/" return.
PivotIntoNewRoot ==
    \/ /\ Goes("pivot", "pivot_root", "cwd")
       /\ pivoted' = TRUE /\ oldroot' = TRUE
       /\ UNCHANGED <<ns, private, mounts, readonly, spread, sealed, ignored, creds, host>>
    \/ Fails("pivot", "pivot_root")
    \/ Goes("cwd", "chdir", "detach") /\ UNCHANGED <<tree, creds, host>>
    \/ Fails("cwd", "chdir")
    \/ /\ pc = "detach" /\ pc' = "seal"
       /\ \/ Permitted("umount2") /\ oldroot' = FALSE /\ UNCHANGED ignored
          \/ UNCHANGED oldroot /\ ignored' = ignored \cup {"detach"}
       /\ UNCHANGED <<given, parent, refused, ns, private, mounts, readonly, spread, pivoted,
                      sealed, creds, host>>
    \/ /\ pc = "seal" /\ pc' = "workdir"
       /\ \/ Permitted("mount") /\ sealed' = TRUE /\ UNCHANGED ignored
          \/ UNCHANGED sealed /\ ignored' = ignored \cup {"seal"}
       /\ UNCHANGED <<given, parent, refused, ns, private, mounts, readonly, spread, pivoted,
                      oldroot, creds, host>>

(***************************************************************************)
(* Working directory, filter, privileges, execve.                          *)
(***************************************************************************)
ChangeDir ==
    \/ /\ Goes("workdir", "chdir", IF profile = "Run" THEN "seccomp" ELSE "execve")
       /\ UNCHANGED <<tree, creds, host>>
    \/ Fails("workdir", "chdir")

\* SeccompProfile::install sets NO_NEW_PRIVS, which needs no privilege.
InstallSeccomp ==
    \/ /\ Goes("seccomp", "prctl", "setgroups")
       /\ filter' = TRUE
       /\ UNCHANGED <<tree, ids, host>>
    \/ Fails("seccomp", "prctl")

\* Mutant: the uid is dropped together with the groups, before the gid.
SetGroupsAndUid ==
    \/ /\ Goes("setgroups", "setgroups", "setresgid")
       /\ ids' = ids \ {"groups", "uid"}
       /\ UNCHANGED <<tree, filter, host>>
    \/ Fails("setgroups", "setgroups")

SetGroups ==
    \/ /\ Goes("setgroups", "setgroups", "setresgid")
       /\ ids' = ids \ {"groups"}
       /\ UNCHANGED <<tree, filter, host>>
    \/ Fails("setgroups", "setgroups")

SetGid ==
    \/ /\ Goes("setresgid", "setresgid", "setresuid")
       /\ ids' = ids \ {"gid"}
       /\ UNCHANGED <<tree, filter, host>>
    \/ Fails("setresgid", "setresgid")

SetUid ==
    \/ /\ Goes("setresuid", "setresuid", "verify")
       /\ ids' = ids \ {"uid"}
       /\ UNCHANGED <<tree, filter, host>>
    \/ Fails("setresuid", "setresuid")

\* getuid, geteuid and setuid(0) must show that the drop took effect.
VerifyDrop ==
    /\ pc = "verify"
    /\ IF "uid" \in ids THEN Abort ELSE pc' = "execve"
    /\ UNCHANGED <<given, parent, refused, tree, creds, host>>

\* execve replaces the image, and FsIsolation is never dropped; or exit(127).
Execve ==
    \/ Goes("execve", "execve", "running") /\ UNCHANGED <<tree, creds, host>>
    \/ Fails("execve", "execve")

(***************************************************************************)
(* FsIsolation::drop: after pivot_root its path no longer resolves.        *)
(***************************************************************************)
\* Mutant: the directory is removed without unmounting first.
DropUmountSkipped ==
    /\ pc = "umount"
    /\ pc' = "remove"
    /\ UNCHANGED <<given, parent, refused, tree, creds, host>>

\* umount2(root, MNT_DETACH) takes the whole tree below the root with it; its
\* result is not looked at either.
DropUmount ==
    /\ pc = "umount" /\ pc' = "remove"
    /\ \/ /\ mounts' = IF pivoted \/ ~Permitted("umount2") THEN mounts ELSE {}
          /\ UNCHANGED ignored
       \/ ~pivoted /\ UNCHANGED mounts /\ ignored' = ignored \cup {"umount"}
    /\ UNCHANGED <<given, parent, refused, ns, private, readonly, spread, pivoted, oldroot,
                   sealed, creds, host>>

\* remove_dir_all(root) descends into whatever is still mounted there, in no
\* particular order, until something cannot be removed.
DropRemove ==
    /\ pc = "remove" /\ pc' = "failed"
    /\ jail' = (jail /\ (pivoted \/ mounts # {}))
    /\ work' \in IF pivoted \/ "workspace" \notin mounts THEN {work} ELSE {work, FALSE}
    /\ UNCHANGED <<given, parent, refused, tree, creds>>

Child == \/ DupPipes \/ ApplyLimits \/ UnshareNet \/ UnshareMnt
         \/ MakeRootPrivate \/ CreateEphemeralRoot \/ SetupReadonlyMounts \/ SetupDev
         \/ SetupProc \/ SetupWorkspace \/ PivotIntoNewRoot
         \/ ChangeDir \/ InstallSeccomp \/ SetGroups \/ SetGid \/ SetUid \/ VerifyDrop
         \/ Execve \/ DropUmount \/ DropRemove

\* The child's process ends and its namespaces with it.
Ends == pc' = "dead" /\ mounts' = {}
Alive == pc \notin {"unborn", "dead"}

\* exit(1) after a failed set-up, or the end of the program.
Exits ==
    /\ pc \in {"failed", "running"}
    /\ Ends
    /\ UNCHANGED <<given, parent, refused, ns, private, readonly, spread, pivoted, unchecked,
                   creds, host>>

(***************************************************************************)
(* The parent.                                                             *)
(***************************************************************************)
Fork ==
    /\ parent = "fork"
    /\ parent' = "attach" /\ pc' = "dup"
    /\ UNCHANGED <<given, refused, tree, creds, host>>

\* SIGKILL, wherever the child is.
KillChild == /\ IF Alive THEN Ends ELSE UNCHANGED <<pc, mounts>>
             /\ UNCHANGED <<given, refused, ns, private, readonly, spread, pivoted, unchecked,
                            creds, host>>

Attach ==
    /\ parent = "attach"
    /\ \/ parent' = "supervise" /\ UNCHANGED <<given, pc, refused, tree, creds, host>>
       \/ parent' = "error" /\ KillChild

\* The wall deadline, and a future dropped while it supervises.
Deadline == parent = "supervise" /\ Alive /\ KillChild /\ UNCHANGED parent
Cancel   == parent = "supervise" /\ KillChild /\ parent' = "cancelled"

\* Mutant: supervise returns without waiting for the child's end.
SupervisedEarly ==
    /\ parent = "supervise"
    /\ parent' = "cleanup"
    /\ UNCHANGED <<given, pc, refused, tree, creds, host>>

Supervised ==
    /\ parent = "supervise" /\ pc = "dead"
    /\ parent' = "cleanup"
    /\ UNCHANGED <<given, pc, refused, tree, creds, host>>

\* remove_dir of the jail root: fails, ignored, on a mount point of the host.
RemoveJail ==
    /\ parent = "cleanup"
    /\ parent' = "done"
    /\ jail' = (jail /\ (profile # "Run" \/ "root" \in spread))
    /\ UNCHANGED <<given, pc, refused, tree, creds, work>>

Next == Child \/ Exits \/ Fork \/ Attach \/ Deadline \/ Cancel \/ Supervised \/ RemoveJail

Spec == Init /\ [][Next]_vars

(***************************************************************************)
(* Properties.                                                             *)
(***************************************************************************)

\* How far child.rs 144 and 152, "FAIL-CLOSED at every step", hold.  A program of the
\* Run profile runs only inside its namespaces, in its new root with every mount in
\* place and read-only where it should be, behind the filter and without privileges.
\* Two steps of fs.rs are not fail-closed: it also runs when the detach of the host's
\* tree (317) or the read-only remount of "/" (320) was refused, and only then is the
\* host's tree in sight or the jail's root writable.
RunsConfined ==
    (pc = "running" /\ profile = "Run") =>
        /\ ns = {"net", "mnt"} /\ pivoted /\ readonly /\ mounts = Mounts
        /\ filter /\ ids = {}
        /\ oldroot => "detach" \in ignored
        /\ ~sealed => "seal" \in ignored

\* child.rs 241: the order is load-bearing.  A child fails only when the kernel
\* refused something it could have granted: no step gives away what a later one
\* needs (filter before mounts, uid before gid), so a healthy host runs every job.
FailsOnlyIfRefused == pc = "failed" => refused

\* Set-up leaves the host alone: no mount of a child reaches it or a sibling, also
\* where the container's "/" is a shared mount (fs.rs 44), and the Drop of a failed
\* FsIsolation descends into the bind-mounted workspace of the submission only after
\* two refusals, of a call of set-up and of the Drop's own unmount (fs.rs 342).
HostUntouched == spread = {} /\ (work \/ (refused /\ "umount" \in ignored))

\* mod.rs 156: when execute returns a result the jail directory is gone, although
\* the child that made it was replaced by execve, failed half-way or was killed.
JailIsRemoved == parent = "done" => ~jail
=============================================================================
