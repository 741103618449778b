----------------------------- MODULE MCReadings -----------------------------
(***************************************************************************)
(* Small instances of Readings: three runs, of the facts of a host or of   *)
(* two instances on it.                                                    *)
(***************************************************************************)
EXTENDS Readings, TLC

CONSTANTS r1, r2, r3, e, f, p, q, a, b

MCRuns == {r1, r2, r3}
MCInstanceOf == (p :> a) @@ (q :> b)
T(verb, name) == [verb |-> verb, name |-> name]
MCLaunches ==
  {(r1 :> T("plan", e)) @@ (r2 :> second) @@ (r3 :> T("gather", None)) :
     second \in {T("plan", e), T("plan", f), T("gather", f)}}
  \cup {(r1 :> T("verify", p)) @@ (r2 :> T("verify", n)) @@ (r3 :> T("verify", q)) : n \in {p, q}}
=============================================================================
