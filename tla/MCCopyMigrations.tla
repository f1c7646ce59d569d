-------------------------- MODULE MCCopyMigrations --------------------------
(* Model-checking instance of CopyMigrations. *)
EXTENDS CopyMigrations, TLC

MCSource == {1, 2}
MCSpare == {3}
MCDeps == {4}
MCPins == {4}

(* 1 is a Modrinth id and 11 a slug of it, 3 a CurseForge number, 4 a URL. *)
Listing(roots, pins, deps) == [roots |-> roots, pins |-> pins, deps |-> deps]
MCTemplates == {Listing(<<11, 3>>, {1}, {}), Listing(<<11>>, {}, {3}), Listing(<<4>>, {}, {3})}
MCIdentity == (1 :> 1) @@ (3 :> 3) @@ (4 :> 4) @@ (11 :> 1)
MCOffers == {3, 11}
=============================================================================
