------------------------------ MODULE MCSwtch ------------------------------
(* Two processors, two user threads and one interrupt thread.             *)
EXTENDS Swtch, TLC

CONSTANTS c1, c2, u1, u2, i1, idle1, idle2, p0, p1, p2

MCidle == c1 :> idle1 @@ c2 :> idle2
MCprocp == u1 :> p1 @@ u2 :> p2 @@ i1 :> p0 @@ idle1 :> p0 @@ idle2 :> p0

\* The processors may be exchanged together with their idle threads, and the
\* user threads together with their processes.
SwapCpus == c1 :> c2 @@ c2 :> c1 @@ idle1 :> idle2 @@ idle2 :> idle1
SwapUsers == u1 :> u2 @@ u2 :> u1 @@ p1 :> p2 @@ p2 :> p1
MCSymmetry ==
  {[x \in DOMAIN f |-> f[x]] : f \in {SwapCpus, SwapUsers, SwapCpus @@ SwapUsers}}

=============================================================================
