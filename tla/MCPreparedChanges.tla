------------------------- MODULE MCPreparedChanges -------------------------
(* Model-checking instance of PreparedChanges. *)
EXTENDS PreparedChanges, TLC

CONSTANTS o1, None

MCAdds == [Op |-> {o1}, None |-> None, MaxApplies |-> 2]

-----------------------------------------------------------------------------
(* Updates: roots 1 and 2 need 3, and 2 needs 4 in its new release, which  *)
(* is a file that 1 also is.                                               *)
N0 == [d \in {} |-> 0]
Base0 == [mods |-> <<1, 1, 1, 0>>, pin |-> <<0, 0, 0, 0>>, locked |-> {}, roots |-> {1, 2},
          fixed |-> [m \in 1..4 |-> "no"]]
MCUpdate ==
  [Mods |-> 1..4, Newest |-> <<2, 2, 2, 1>>,
   Needs |-> << <<3 :> 1, 3 :> 2>>, <<3 :> 1, (3 :> 2) @@ (4 :> 1)>>, <<N0, N0>>, <<N0, N0>> >>,
   Refused |-> {<<1, 2, 3, 1>>}, Twins |-> {{1, 4}},
   Packs |-> {Base0, [Base0 EXCEPT !.pin[3] = 1], [Base0 EXCEPT !.pin[3] = 1, !.locked = {3}],
              [Base0 EXCEPT !.pin[1] = 1, !.locked = {1}], [Base0 EXCEPT !.pin[1] = 1],
              [Base0 EXCEPT !.fixed[2] = "pinned"], [Base0 EXCEPT !.pin[3] = 2]},
   MaxFaults |-> 1, MaxApplies |-> 2]

-----------------------------------------------------------------------------
Loader0 == [minecraft |-> 1, loader |-> "a", version |-> "1"]
MCLoader ==
  [Source |-> Loader0,
   Outcomes |-> {Loader0, [Loader0 EXCEPT !.version = "2"], [Loader0 EXCEPT !.version = ""],
                 [Loader0 EXCEPT !.minecraft = 2, !.version = "2"],
                 [Loader0 EXCEPT !.loader = "b", !.version = "2"]},
   MaxFaults |-> 1, MaxTries |-> 2]

MCExact == [Mods |-> 1..2, Releases |-> 1..2, Roots |-> {1}, MaxChanges |-> 2,
            MaxFaults |-> 1, MaxOutside |-> 1, MaxSelects |-> 2]

MCVersions == [MaxFaults |-> 1, MaxOpens |-> 2]

-----------------------------------------------------------------------------
(* 1 needs 2, 4 needs 3; 2 and 3 are one file of two providers; 5 is a     *)
(* file behind a URL.                                                      *)
C == {"client"}
B == {"client", "server"}
Zero == <<0, 0, 0, 0, 0>>
Sides(mods) == [m \in 1..5 |-> IF mods[m] # 0 THEN B ELSE {}]
Pack(mods, roots, manifest, pin, locked) ==
  [mods |-> mods, side |-> Sides(mods), manifest |-> manifest,
   recorded |-> [m \in 1..5 |-> IF m \in roots THEN B ELSE {}], pin |-> pin, locked |-> locked]

Graph ==
  [Ids |-> 1..5, Newest |-> <<2, 2, 1, 2, 1>>,
   Needs |-> << <<2 :> 1, 2 :> 2>>, <<N0, N0>>, <<N0, N0>>, <<N0, 3 :> 1>>, <<N0, N0>> >>,
   Twins |-> {{2, 3}}, Clashes |-> {}, Unreadable |-> {}, Natural |-> [m \in 1..5 |-> B],
   Name |-> << <<1, 1>>, <<2, 2>>, <<2, 2>>, <<4, 4>>, <<5, 5>> >>,
   Demands |-> << <<2 :> {1, 2}, 2 :> {1, 2}>>, <<N0, N0>>, <<N0, N0>>, <<N0, 2 :> {1, 2}>>,
                  <<N0, N0>> >>]

Wanted(m, scope, exact, side) == [mod |-> m, scope |-> scope, exact |-> exact, side |-> side]
MCSelections ==
  LET es == {Wanted(m, "root", x, d) : m \in {1, 4}, x \in 0..2, d \in {C, B}}
            \cup {Wanted(2, "dependency", x, {}) : x \in 1..2} \cup {Wanted(3, "root", 0, B)}
  IN {<<e>> : e \in es} \cup {<<e, f>> : e, f \in es}

ProfilePack(mods, roots, manifest, pin, locked) ==
  Pack(mods, roots, manifest, pin, locked) @@ [other |-> 0]

MCProfiles ==
  [Opaque |-> {}, Selections |-> MCSelections, MaxFaults |-> 1,
   Packs |-> {ProfilePack(Zero, {}, FALSE, Zero, {}),
              ProfilePack(<<1, 1, 0, 0, 0>>, {1}, TRUE, Zero, {}),
              ProfilePack(<<1, 1, 0, 0, 0>>, {}, FALSE, Zero, {}),
              ProfilePack(<<1, 1, 0, 1, 0>>, {1, 4}, TRUE, <<0, 1, 0, 0, 0>>, {2}),
              ProfilePack(<<1, 1, 0, 1, 0>>, {1, 4}, TRUE, <<1, 0, 0, 1, 0>>, {1})}] @@ Graph

Title == <<"a", "b", "b", "d", "e">>
Entry(m, url, side) == [mod |-> m, url |-> url, name |-> Title[m], side |-> side]
Asks(template, m, exact, scope) ==
  [template |-> template, mod |-> m, exact |-> exact, scope |-> scope]
World(pack, entries, intents) == [pack |-> pack, entries |-> entries, intents |-> intents]
MCWorlds ==
  {World(Pack(<<1, 1, 0, 0, 0>>, {1}, TRUE, Zero, {}),
         << {Entry(3, 0, B), Entry(4, 0, C)} >>, {}),
   World(Pack(<<1, 1, 0, 0, 0>>, {1, 2}, TRUE, Zero, {}),
         << {Entry(3, 0, C)}, {Entry(1, 0, C)} >>, {}),
   World(Pack(<<1, 1, 0, 0, 1>>, {1, 5}, TRUE, Zero, {}), << {Entry(5, 2, B)} >>, {}),
   World(Pack(Zero, {}, TRUE, Zero, {}),
         << {Entry(5, 2, B)}, {Entry(5, 1, B), Entry(1, 0, B)} >>, {}),
   World(Pack(<<1, 1, 0, 0, 0>>, {1}, TRUE, Zero, {}), << {Entry(1, 0, C)} >>,
         {Asks(1, 1, 2, "root"), Asks(1, 2, 1, "dependency")}),
   World(Pack(<<1, 1, 0, 0, 0>>, {1}, TRUE, <<0, 1, 0, 0, 0>>, {2}),
         << {Entry(2, 0, C), Entry(4, 0, B)} >>, {}),
   World(Pack(<<1, 1, 0, 0, 1>>, {1, 5}, TRUE, <<1, 0, 0, 0, 0>>, {1}),
         << {Entry(4, 0, C)}, {Entry(1, 0, B)} >>,
         {Asks(2, 1, 2, "root"), Asks(1, 4, 1, "root")}),
   World(Pack(<<1, 1, 0, 0, 1>>, {1, 5}, TRUE, <<1, 0, 0, 0, 0>>, {}),
         << {Entry(5, 2, C)}, {Entry(1, 0, B)} >>, {Asks(2, 1, 2, "root")})}

MCImport ==
  [Opaque |-> {5}, Title |-> Title, Actual |-> [s \in (1..5) \X (0..2) |-> s[1]],
   Worlds |-> MCWorlds, MaxFaults |-> 1, MaxPlans |-> 2] @@ Graph
=============================================================================
