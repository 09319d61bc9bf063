----------------------------- MODULE DockerHost -----------------------------
(***************************************************************************)
(* The containers of the docker-compose project and the requests that      *)
(* DockerChaos (r30rg-live/src/docker.rs) makes of the Docker daemon.  The *)
(* daemon is outside the repository: what its requests do is modelled as   *)
(* docker.rs uses them.  A container is its service name.                  *)
(***************************************************************************)
EXTENDS Integers, Sequences

CONSTANT Containers

VARIABLE status    \* status[c]: "running", "paused" or "exited"

HostTypeOK == status \in [Containers -> {"running", "paused", "exited"}]

HostInit == status = [c \in Containers |-> "running"]

-----------------------------------------------------------------------------

\* Mutant of Resolvable.
ResolvableAlways(c, runningOnly) == TRUE

\* resolve_container finds the container of service c.
Resolvable(c, runningOnly) == runningOnly => status[c] = "running"

Becomes(c, s) == status' = [status EXCEPT ![c] = s]

Pause(c)   == status[c] = "running" /\ Becomes(c, "paused")
Unpause(c) == status[c] = "paused" /\ Becomes(c, "running")
Kill(c)    == status[c] = "running" /\ Becomes(c, "exited")
Restart(c) == Becomes(c, "running")

\* A container stops by itself.
Dies(c) == status[c] = "running" /\ Becomes(c, "exited")

=============================================================================
