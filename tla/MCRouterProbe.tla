---------------------------- MODULE MCRouterProbe ----------------------------
(* The router with a history of which requests are probing a circuit.      *)
EXTENDS MCRouterFailover

VARIABLE probes  (* requests whose upstream call went to a half-open circuit *)

HalfOpen(p) == IsOpen(p) /\ IsAvailable(p)

(* A pinned call asks for its candidate whatever its circuit says.         *)
StartsProbe(r) ==
  calls'[r] # calls[r] /\ kind[r] # "pinned" /\ HalfOpen(Provider(r))'

StaysProbe(r) == r \in probes /\ calls'[r] = calls[r]

ProbeInit == Init /\ probes = {}

ProbeNext ==
  /\ Next
  /\ probes' = {r \in Requests : phase'[r] = "trying" /\ (StartsProbe(r) \/ StaysProbe(r))}

ProbeSpec == ProbeInit /\ [][ProbeNext]_<<vars, probes>>

(* What the comment of health.ts says of a half-open circuit: one probe    *)
(* request is allowed, until its outcome closes the circuit or opens it    *)
(* again.                                                                  *)
OneProbe == \A r, q \in probes : Provider(r) = Provider(q) => r = q
=============================================================================
