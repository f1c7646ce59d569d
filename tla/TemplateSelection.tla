-------------------------- MODULE TemplateSelection -------------------------
(***************************************************************************)
(* What the Templates that are imported into a Pack propose, where they    *)
(* disagree, and what a resolution of the conflicts selects                *)
(* (template_import.py; the candidates and their verification:             *)
(* huroshiki_core.py, pack_import_candidates to                            *)
(* build_verified_template_import_plan).                                   *)
(*                                                                         *)
(* A candidate asks for a MOD by a selector, its logical identity and the  *)
(* URL (0 for a provider's MOD); verification finds the actual one, 0 when *)
(* it fails.  An option is the set of the candidates with one selector and *)
(* one actual identity.  The installed release of a URL file is its URL.   *)
(***************************************************************************)
EXTENDS ExactGraph

CONSTANTS Title, \* Title[m]: the name an installed MOD has
          Actual \* Actual[<<m, url>>]: what the selector turns out to be, or 0

(* A world is a Pack with the Templates to import:                         *)
(*   pack     the Pack                                                     *)
(*   entries  a sequence of sets of [mod, url, name, side], by Template    *)
(*   intents  a set of [template, mod, exact, scope]                       *)
Templates(world) == 1..Len(world.entries)
Pinned(pack) == {m \in Ids : pack.pin[m] # 0}
ExactAware(world) == world.intents # {} \/ Pinned(world.pack) # {}

\* the selectors in the order in which the Templates first name them
Selector(e) == <<e.mod, e.url>>
Selectors(world) == {Selector(e) : e \in UNION Range(world.entries)}
Asking(world, s) == {t \in Templates(world) : \E e \in world.entries[t] : Selector(e) = s}
Entry(world, t, s) == CHOOSE e \in world.entries[t] : Selector(e) = s

RootIntents(world, s) ==
  {i \in world.intents : i.scope = "root" /\ i.template \in Asking(world, s) /\ s = <<i.mod, 0>>}

(* Merged roots that ask for two releases cannot be verified; a release    *)
(* that an intent, an override or an installed root has is verified as it  *)
(* is, otherwise the provider chooses.                                     *)
Verified(world, s) ==
  IF Cardinality({i.exact : i \in RootIntents(world, s)}) > 1 THEN 0 ELSE Actual[s]

VerifiedRelease(world, s) ==
  LET m == Verified(world, s)
  IN IF s[2] # 0 THEN s[2]
     ELSE IF RootIntents(world, s) # {} THEN (CHOOSE i \in RootIntents(world, s) : TRUE).exact
     ELSE IF ~ExactAware(world) THEN Newest[m]
     ELSE IF world.pack.pin[m] # 0 THEN world.pack.pin[m]
     ELSE IF m \in Recorded(world.pack) /\ world.pack.mods[m] # 0 THEN world.pack.mods[m]
     ELSE Newest[m]

\* merge_template_import_candidates: one candidate for a selector
Proposed(world) ==
  {[from |-> "template", mod |-> s[1], url |-> s[2], actual |-> Verified(world, s),
    name |-> Entry(world, Min(Asking(world, s)), s).name,
    side |-> UNION {Entry(world, t, s).side : t \in Asking(world, s)},
    origins |-> Asking(world, s)] : s \in Selectors(world)}

(* pack_import_candidates *)
InPack(world) ==
  {[from |-> "pack", mod |-> m, url |-> IF m \in Opaque THEN world.pack.mods[m] ELSE 0,
    actual |-> m, name |-> Title[m], side |-> world.pack.side[m], origins |-> {}] :
   m \in Installed(world.pack)}

Candidates(world) == Proposed(world) \cup InPack(world)

Same(c, d) == c = d \/ (c.actual # 0 /\ c.actual = d.actual /\ Selector(c) = Selector(d))
Options(world) == {{d \in Candidates(world) : Same(c, d)} : c \in Candidates(world)}

OfPack(option) == \E c \in option : c.from = "pack"
Logical(option) == (CHOOSE c \in option : TRUE).mod
Url(option) == (CHOOSE c \in option : TRUE).url
Found(option) == (CHOOSE c \in option : TRUE).actual
Names(option) == {c.name : c \in option}

-----------------------------------------------------------------------------
(* Conflicts: sets of options *)

\* options with the same key
Groups(key) == {{p \in DOMAIN key : key[p] = key[o]} : o \in DOMAIN key}
Several(groups) == {g \in groups : Cardinality(g) > 1}

\* options that a chain of common names connects
Namesakes(options, o) ==
  FoldLeft(LAMBDA g, i : g \cup {p \in options : \E q \in g : Names(p) \cap Names(q) # {}},
           {o}, SetToSeq(options))
NameConflicts(world) == Several({Namesakes(Options(world), o) : o \in Options(world)})

LogicalConflicts(world) ==
  {g \in Several(Groups([o \in Options(world) |-> Logical(o)])) : \E o \in g : OfPack(o)}

UrlConflicts(world) ==
  {g \in Groups([o \in {p \in Options(world) : Url(p) # 0 /\ ~OfPack(p)} |-> Logical(o)]) :
     /\ Cardinality({Url(o) : o \in g}) > 1
     /\ \A l \in LogicalConflicts(world) : \A o \in g, p \in l : Logical(o) # Logical(p)}

ActualConflicts(world) ==
  {g \in Several(Groups([o \in {p \in Options(world) : Found(p) # 0} |-> Found(o)])) :
     ~\E l \in LogicalConflicts(world) : g \subseteq l}

AnyOf(world) == NameConflicts(world) \cup UrlConflicts(world)
OneOf(world) == LogicalConflicts(world) \cup ActualConflicts(world)
Conflicts(world) == AnyOf(world) \cup OneOf(world)

-----------------------------------------------------------------------------
(* Resolutions *)

Chosen(pick) == {c \in UNION pick : c.from = "template"}
Retained(pick) == {c \in UNION pick : c.from = "pack"}
KeptMods(pick) == {c.actual : c \in Retained(pick)}
NewRoots(pick) == {c \in Chosen(pick) : c.actual \notin KeptMods(pick)}
Dropped(world, pick) == {c.mod : c \in InPack(world) \ UNION pick}

(* Intents for dependencies always count, those for a root with the root.  *)
ActiveIntents(world, pick) ==
  {i \in world.intents :
     i.scope = "dependency" \/ \E c \in Chosen(pick) : c.mod = i.mod /\ i.template \in c.origins}

Unanimous(intents) ==
  \A i, j \in intents : i.mod = j.mod => i.exact = j.exact /\ i.scope = j.scope

\* a dropped MOD of the Pack has a new one of the same conflict in its place
Replaced(world, pick, m) ==
  \E g \in Conflicts(world) :
    /\ \E o \in g : \E c \in o : c.from = "pack" /\ c.mod = m
    /\ \E o \in g \cap pick : o \cap NewRoots(pick) # {}

(* What resolve_template_import_plan accepts and                           *)
(* validate_resolved_template_import_plan derives again.                   *)
Picks(world) ==
  LET options == Options(world)
      any == AnyOf(world)
      one == OneOf(world)
      open == UNION (any \cup one)
  IN {pick \in {(options \ open) \cup p : p \in SUBSET open} :
        /\ \A g \in any : g \cap pick # {}
        /\ \A g \in one : Cardinality(g \cap pick) = 1
        /\ \A c \in Chosen(pick) : c.actual # 0
        /\ \A m \in Dropped(world, pick) : Replaced(world, pick, m)
        /\ Unanimous(ActiveIntents(world, pick))}

\* the MODs on whose side the Pack and a Template disagree
SideConflicts(world) ==
  {m \in Installed(world.pack) : \E c \in Proposed(world), d \in InPack(world) :
     c.actual = m /\ d.mod = m /\ Selector(c) = Selector(d) /\ c.side # d.side}

TemplateSide(world, m) ==
  UNION {c.side : c \in {d \in Proposed(world) : d.actual = m /\ Same(d, CHOOSE e \in InPack(world) : e.mod = m)}}

(* The side every decision leads to, for the retained MODs a selected      *)
(* Template has too: keep_pack, use_template or union.                     *)
SideChanges(world, pick) ==
  LET open == {m \in SideConflicts(world) : m \in KeptMods(pick) /\ \E c \in Chosen(pick) : c.actual = m}
  IN {f \in [open -> SUBSET Sides] :
        \A m \in open : f[m] \in {world.pack.side[m], TemplateSide(world, m),
                                  world.pack.side[m] \cup TemplateSide(world, m)}}

(* What planning refuses. *)
Unplannable(world) ==
  \/ \E i, j \in world.intents : i.template = j.template /\ i.mod = j.mod /\ i # j
  \/ \E i \in world.intents :
       (i.scope = "root") # (\E e \in world.entries[i.template] : e.mod = i.mod)
  \/ \E m \in Pinned(world.pack) : world.pack.pin[m] # world.pack.mods[m]
  \/ ExactAware(world) /\ Installed(world.pack) # {} /\
       ~(world.pack.manifest /\ \A m \in Recorded(world.pack) :
           world.pack.mods[m] # 0 /\ world.pack.recorded[m] = world.pack.side[m])
=============================================================================
