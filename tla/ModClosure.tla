----------------------------- MODULE ModClosure -----------------------------
(***************************************************************************)
(* Merging what a provider installs for one MOD into the source of a Pack  *)
(* (huroshiki_core.py: merge_metadata_closure; dependency_equivalence.py). *)
(*                                                                         *)
(* A MOD of a provider is a number, in the order of the identities; a      *)
(* release is a number, 0 for "not there"; a side is a set of the sides a  *)
(* MOD is installed on, "both" being all of them.  A Pack is a record:     *)
(*   mods      the release of every MOD                                    *)
(*   side      the side its metadata has ({} when it is not there)         *)
(*   manifest  whether there is a root manifest                            *)
(*   recorded  the side the manifest has of a root, {} of no root          *)
(*   pin       the release a version override asks for, or 0               *)
(*   locked    the MODs whose override is locked                           *)
(* A closure is the function from the installed MODs to releases.          *)
(***************************************************************************)
EXTENDS Naturals, FiniteSetsExt, Functions

CONSTANTS Ids,     \* 1..n
          Opaque,  \* those that are files behind a URL, without a provider
          Newest,  \* Newest[m]: the release its provider offers
          Needs,   \* Needs[m][v]: what is installed with release v
          Twins,   \* pairs of MODs with one file, of two providers
          Clashes, \* pairs of different MODs with one file name
          Natural  \* Natural[m]: the side the provider gives m

Sides == {"client", "server"}
Installed(pack) == {m \in Ids : pack.mods[m] # 0}
Recorded(pack) == {m \in Ids : pack.recorded[m] # {}}

\* release v of m as `packwiz add' installs it into an empty source
Resolved(m, v) == [d \in {m} \cup DOMAIN Needs[m][v] |-> IF d = m THEN v ELSE Needs[m][v][d]]

(* Of twins in one closure the root is kept, else the first. *)
Lesser(root, t) == IF root \in t THEN CHOOSE m \in t : m # root ELSE Max(t)
Incoming(root, closure) ==
  LET lost == {Lesser(root, t) : t \in {u \in Twins : u \subseteq DOMAIN closure}}
  IN Restrict(closure, DOMAIN closure \ lost)

(* The MODs of the Pack that have the file of an incoming one. *)
Rivals(pack, m) == {t \in Installed(pack) : {t, m} \in Twins}

(* What is known of an installed MOD: without a manifest nothing is. *)
Role(pack, m) ==
  IF ~pack.manifest THEN "unknown" ELSE IF m \in Recorded(pack) THEN "explicit" ELSE "dependency"

\* whether the incoming MOD takes the place of its rival
Displaces(pack, root, m, rival) == m = root /\ Role(pack, rival) = "dependency"

(* Two explicit roots cannot be merged, nor a root with a MOD of which it  *)
(* is not known what it is; the same MOD must be there in the same release.*)
Collides(pack, root, in) ==
  \/ root \in DOMAIN in /\ \E t \in Rivals(pack, root) : Role(pack, t) # "dependency"
  \/ \E m \in DOMAIN in \ Opaque : Rivals(pack, m) = {} /\ pack.mods[m] \notin {0, in[m]}
  \/ \E m \in DOMAIN in, t \in Installed(pack) \cup DOMAIN in : {t, m} \in Clashes

\* the side the merge gives an incoming MOD; preset: a function of sides
Asked(m, root, side, keep, preset) ==
  IF m \in DOMAIN preset THEN preset[m]
  ELSE IF keep /\ m # root THEN Natural[m] ELSE side

(* The Pack with the closure of a root, as a set with no element when it   *)
(* cannot be merged.  With `keep' dependencies have their own side, else   *)
(* the requested one.                                                      *)
Merged(pack, root, closure, side, keep, preset) ==
  LET in == Incoming(root, closure)
      stays(m) == \A t \in Rivals(pack, m) : Displaces(pack, root, m, t)
      gone == {t \in Installed(pack) : \E m \in DOMAIN in :
                 t \in Rivals(pack, m) /\ Displaces(pack, root, m, t)}
      heirs(m) == {i \in DOMAIN in : i = m /\ stays(i)} \cup
                  {i \in DOMAIN in : m \in Rivals(pack, i) /\ m \notin gone}
      news == {m \in DOMAIN in : stays(m)}
      inherited(m) == UNION {pack.side[t] : t \in {m} \cup Rivals(pack, m)}
  IN IF root \notin DOMAIN closure \/ Collides(pack, root, in) THEN {}
     ELSE {[pack EXCEPT
              !.mods = [m \in Ids |-> IF m \in gone THEN 0 ELSE IF m \in news THEN in[m] ELSE @[m]],
              !.side = [m \in Ids |->
                 IF m \in gone THEN {}
                 ELSE (IF m \in news THEN inherited(m) ELSE @[m]) \cup
                      UNION {Asked(i, root, side, keep, preset) : i \in heirs(m)}],
              !.recorded = [m \in Ids |->
                 IF m = root /\ pack.manifest THEN side ELSE @[m]]]}
=============================================================================
