\* A compiler and a program, on a container whose root is shared or not.
SPECIFICATION Spec
CONSTANTS
    Profiles = {"Compile", "Run"}
    Roots = {TRUE, FALSE}
INVARIANTS TypeOK RunsConfined FailsOnlyIfRefused HostUntouched JailIsRemoved
CHECK_DEADLOCK FALSE
