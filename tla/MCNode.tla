------------------------------- MODULE MCNode -------------------------------
(* The instance of Node for TLC. *)
EXTENDS Node

CONSTANTS j1, j2, j3, r1

Config(m, first, s, r, load) ==
    [mode |-> m, pid1 |-> first, secret |-> s, require |-> r, jobs |-> load]

\* Each run mode, each kind of secret, a start that is refused.  A worker gets more
\* jobs than it has permits; a node in mode "all" has a local client besides.  As in
\* the image, all but one worker are the first process of their container.
SomeConfigs == {Config("server", TRUE, "set", TRUE, {}), Config("server", TRUE, "blank", TRUE, {}),
                Config("all", TRUE, "blank", FALSE, {j1, j2}),
                Config("worker", FALSE, "unset", FALSE, {j1, j2, j3}),
                Config("worker", TRUE, "unset", FALSE, {j1})}
=============================================================================
