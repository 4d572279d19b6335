---------------------------- MODULE MCDockerShell ----------------------------
(* DockerShell with few artifacts and commands; see MCDockerShell.cfg.     *)
EXTENDS DockerShell
=============================================================================
