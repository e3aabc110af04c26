-------------------------- MODULE MCReleaseLedger --------------------------
(* An instance of ReleaseLedger for model checking. *)
EXTENDS ReleaseLedger, TLC

CONSTANTS r1, r2, r3, r4, r5, core, product, observation

\* One scope of each route: two releases of the session, two of the product.
MCRouteOf == [s \in Scopes |-> CASE s = core -> "core" [] s = product -> "product"
                                 [] s = observation -> "p2"]
MCScopeOf == (r1 :> core) @@ (r2 :> core) @@ (r3 :> product) @@ (r4 :> product)
             @@ (r5 :> observation)

\* Publishers are the numbers 1, 2, ...; they are interchangeable, so it is
\* enough to start them in the order of their releases.  (A symmetry set would
\* not be sound here: the run checks liveness.)
Rank == (r1 :> 1) @@ (r2 :> 2) @@ (r3 :> 3) @@ (r4 :> 4) @@ (r5 :> 5)
MCInit == Init /\ \A p, q \in Publishers : p < q => Rank[Release(p)] <= Rank[Release(q)]
MCSpec == MCInit /\ [][Next]_vars /\ \A p \in Publishers : WF_vars(Serve(p))
=============================================================================
