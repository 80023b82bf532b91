---------------------------- MODULE MC_SystemdWatch ----------------------------
(* Model-checking instance of SystemdWatch with unit states covering every  *)
(* branch of map_systemd_level.                                             *)
EXTENDS SystemdWatch

U(a, s, l) == [active |-> a, sub |-> s, load |-> l]

MC_Units ==
    { U("active", "running", "loaded"), U("reloading", "running", "loaded"),
      U("inactive", "dead", "loaded"), U("failed", "failed", "loaded"),
      U("maintenance", "running", "loaded"), U("active", "running", "not-found") }
=============================================================================
