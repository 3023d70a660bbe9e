------------------------------- MODULE MCPeople -------------------------------
(***************************************************************************)
(* Instances of People for TLC: two scenes, one about the workforce of a   *)
(* population, its groups and a notable, one about notables, groups with   *)
(* members and roles.  The openings are data the commands lead to.         *)
(***************************************************************************)
EXTENDS People, TLC

Trades == {"general", "military"}

Roles == {"leader", "captain", "councilor"}

RoleMaxima == [r \in Roles |-> IF r = "councilor" THEN 9 ELSE 1]

Squad(trade, mode, size, members, population) ==
  [trade |-> trade, mode |-> mode, size |-> size, members |-> members,
   lifecycle |-> "active", population |-> population]

Work(source, trade, amount, starts, ends, expires) ==
  [source |-> source, trade |-> trade, amount |-> amount, starts |-> starts,
   ends |-> ends, expires |-> expires, active |-> TRUE]

Peasants(g, m) == [t \in Trades |-> IF t = "general" THEN g ELSE m]

NoIds == [x \in {} |-> {}]

\* The notable works in these trades.
OneTrade == {"general"}

JobsOf(trades) ==
  [name |-> "jobs", max |-> 4, instants |-> {Anytime, 0, 1},
   may |-> {"operational-group", "assignment", "reservation", "repair"},
   opening |->
     [mode |-> "hybrid", populations |-> "p" :> Peasants(2, 1),
      groups |-> "g" :> Squad("general", "abstract", 1, <<>>, None),
      notables |-> "n" :> Inline, roles |-> NoIds,
      assignments |-> <<>>, reservations |-> <<>>],
   populationIds |-> {}, contributions |-> {}, groupIds |-> {"g", "h"},
   groups |-> {Squad("general", "abstract", 1, <<>>, "p"),
               Squad("military", "abstract", 1, <<>>, "p")},
   patches |-> {[lifecycle |-> "inactive"], [population |-> "p"]},
   notableIds |-> {"n"}, occupants |-> {}, careful |-> TRUE,
   assignments |->
     {Work("p", "general", a, Anytime, Never, Never) : a \in {1, 2}}
       \cup {Work("g", "general", 1, Anytime, Never, Never)}
       \cup {Work("n", t, 1, Anytime, Never, Never) : t \in trades}
       \cup {Work("p", "military", 1, Anytime, 1, Never),
             Work("p", "military", 1, 1, Never, Never)},
   reservations |->
     {Work("p", "general", 1, Anytime, 1, Never),
      Work("p", "general", 1, Anytime, Never, 0),
      Work("n", "general", 1, Anytime, Never, 0)}]

\* Relinks may name somebody who is gone, and ids that are no notable's.
CourtOf(careful, strays) ==
  [name |-> "court", max |-> 4, instants |-> {},
   may |-> {"set-population", "population-group", "operational-group", "notable",
            "role", "repair"},
   opening |->
     [mode |-> "manual", populations |-> NoIds,
      groups |-> "g" :> Squad("military", "explicit", 2, <<"n", "m">>, None),
      notables |-> ("n" :> Inline) @@ ("m" :> "a"),
      roles |-> "captain" :> [group |-> "g", occupants |-> <<"n">>],
      assignments |-> <<>>, reservations |-> <<>>],
   populationIds |-> {"p"}, contributions |-> {Peasants(1, 0)},
   groupIds |-> {"g", "h"},
   groups |-> {Squad("general", "partial", 2, <<"m">>, "p")},
   patches |-> {[members |-> <<"n">>], [lifecycle |-> "disbanded"],
                [mode |-> "partial"]},
   notableIds |-> {"n", "m", "l"} \cup strays, occupants |-> {<<>>, <<"n">>, <<"m", "n">>},
   careful |-> careful, assignments |-> {}, reservations |-> {}]

CoreScenes == {JobsOf(OneTrade), CourtOf(TRUE, {})}

TwoTradesScenes == {JobsOf(Trades)}

RelinkScenes == {CourtOf(FALSE, {})}

StrayScenes == {CourtOf(FALSE, {"x"})}
=============================================================================
