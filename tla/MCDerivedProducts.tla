------------------------- MODULE MCDerivedProducts -------------------------
(* Small histories of the derivation chain for TLC. *)
EXTENDS DerivedProducts, TLC

MCSessionOf == "o1" :> "s1" @@ "o2" :> "s1" @@ "o3" :> "s1" @@ "o4" :> "s2"

Import(s, observations, at) == [cmd |-> "P1", session |-> s, observations |-> observations, at |-> at]
Adjust(target, cohort, at) == [cmd |-> "P2", target |-> target, cohort |-> cohort, at |-> at]
Build(history, order, config, at) ==
    [cmd |-> "P3", history |-> history, scope |-> "c", order |-> order, config |-> config, at |-> at]
Estimate(build, s, at) == [cmd |-> "P3E", build |-> build, session |-> s, at |-> at]
Assess(build, s, context) == [cmd |-> "P4", build |-> build, session |-> s, context |-> context]
Over(cmd, members) == [cmd |-> cmd, members |-> members, at |-> 1]

Imports == "i1" :> Import("s1", {"o1", "o2", "o3"}, 1) @@ "i2" :> Import("s2", {"o4"}, 1)
Adjusts == "a1" :> Adjust("o1", {"o3"}, 1) @@ "a2" :> Adjust("o4", {"o2"}, 1)
TwoSessions == Imports @@ Adjusts

MCScenarios == {"import", "cohort", "twin", "assess", "model", "order"}

MCRequests ==
    "import" :> ("i1" :> Import("s1", {"o1"}, 1) @@ "i2" :> Import("s1", {"o1"}, 1)
                   @@ "i3" :> Import("s1", {"o1"}, 2)) @@
    "cohort" :> (Imports @@ "a1" :> Adjust("o1", {"o3"}, 1) @@ "a2" :> Adjust("o2", {"o3"}, 1)
                   @@ "a3" :> Adjust("o1", {"o3"}, 2)) @@
    "twin" :> (TwoSessions @@ "b1" :> Build(<<"a1", "a2">>, "s1" :> 1 @@ "s2" :> 2, "k", 1)
                 @@ "b2" :> Build(<<"a2", "a1">>, "s1" :> 1 @@ "s2" :> 2, "k", 1)
                 @@ "b3" :> Build(<<"a1", "a2">>, "s1" :> 2 @@ "s2" :> 1, "k", 1)
                 @@ "e" :> Estimate("b1", "s1", 2)) @@
    "assess" :> (TwoSessions @@ "b1" :> Build(<<"a1", "a2">>, "s1" :> 1 @@ "s2" :> 2, "k", 1)
                   @@ "b2" :> Build(<<"a2", "a1">>, "s1" :> 1 @@ "s2" :> 2, "l", 1)
                   @@ "p0" :> Assess("b2", "s1", "y")
                   @@ "p1" :> Assess("b1", "s1", "x") @@ "p2" :> Assess("b1", "s2", "x")
                   @@ "m" :> Over("P5", {"p1"})) @@
    "model" :> (TwoSessions @@ "b1" :> Build(<<"a1", "a2">>, "s1" :> 1 @@ "s2" :> 2, "k", 1)
                  @@ "p1" :> Assess("b1", "s1", "x")
                  @@ "t1" :> Over("P6", {"p1"}) @@ "t2" :> Over("P6", {"p1"})
                  @@ "f" :> Over("FORECAST", {"p1"}) @@ "g" :> Over("COUNTERFACTUAL", {"p1"})) @@
    "order" :> (TwoSessions @@ "b1" :> Build(<<"a1">>, "s1" :> 1, "k", 1)
                  @@ "b2" :> Build(<<"a2">>, "s2" :> 1, "l", 1)
                  @@ "p1" :> Assess("b1", "s1", "x")
                  @@ "t1" :> Over("P6", {"p1"}) @@ "f" :> Over("FORECAST", {"p1"}))

MCPast ==
    "import" :> {} @@ "cohort" :> {"i1", "i2"} @@ "twin" :> {"i1", "i2", "a1", "a2"} @@
    "assess" :> {"i1", "i2", "a1", "a2", "b1", "b2", "p0"} @@
    "model" :> {"i1", "i2", "a1", "a2", "b1", "p1"} @@
    "order" :> {"i1", "i2", "a1", "a2", "b1", "p1"}

============================================================================
