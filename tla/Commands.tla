------------------------------ MODULE Commands ------------------------------
(***************************************************************************)
(* Repositories and Containers, of which one part runs.  A behaviour is    *)
(* one of both of them.                                                    *)
(***************************************************************************)
EXTENDS Repositories, Containers

VARIABLE tool    \* the part that runs

\* What does not run has one state.
AnyOf(S) == CHOOSE x \in S : TRUE

CommandsInit ==
    /\ tool \in {"lock", "versions", "config", "patches", "mounts", "launch",
                "exports", "driver", "boxes"}
    /\ (tool # "versions" => kind = "app" /\ want = AnyOf(Wants))
    /\ (tool # "config" => rFile = R!Converted({AnyOf(Names)}, AnyOf(Names), AnyOf(Urls)))
    /\ (tool # "exports" => eInstalled = {} /\ overlay = FALSE)
    /\ (tool # "driver" => dDriver = FALSE /\ dInstalled = {} /\ dOffers = AnyOf(Offers))
    /\ (tool # "patches" => oFiles = <<>> /\ workdir = AnyOf(Workdirs))
    /\ (tool # "mounts" => mHost = AnyOf(Machines) /\ asked = AnyOf(Asked) /\ mFiles = AnyOf(Configs))
    /\ (tool # "launch" => /\ direct = FALSE /\ lDriver = AnyOf(Drivers) /\ spec = None
                           /\ extra = [external |-> AnyOf(External), requested |-> AnyOf(Extensions)])
    /\ (tool # "boxes" => bHost = AnyOf(Overlays))
    /\ RepositoriesInit
    /\ ContainersInit

CommandsNext ==
    \/ tool = "lock"     /\ LockStep     /\ UNCHANGED <<tool, containerVars>>
    \/ tool = "versions" /\ VersionsStep /\ UNCHANGED <<tool, containerVars>>
    \/ tool = "config"   /\ ConfigStep   /\ UNCHANGED <<tool, containerVars>>
    \/ tool = "exports"  /\ ExportsStep  /\ UNCHANGED <<tool, containerVars>>
    \/ tool = "driver"   /\ DriverStep   /\ UNCHANGED <<tool, containerVars>>
    \/ tool = "patches"  /\ PatchesStep  /\ UNCHANGED <<tool, repositoryVars>>
    \/ tool = "mounts"   /\ MountsStep   /\ UNCHANGED <<tool, repositoryVars>>
    \/ tool = "launch"   /\ LaunchStep   /\ UNCHANGED <<tool, repositoryVars>>
    \/ tool = "boxes"    /\ BoxesStep    /\ UNCHANGED <<tool, repositoryVars>>

CommandsSpec == CommandsInit /\ [][CommandsNext]_<<tool, repositoryVars, containerVars>>
=============================================================================
